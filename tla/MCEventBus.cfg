SPECIFICATION Spec
CONSTANTS
  Consumers = {c1, c2}
  Events = {e1, e2}
  Invalid = Invalid
  NumHandlers = 2
  MaxAttempts = 2
  BatchSize = 2
  EmptyHistoryIsTruthy = FALSE
  MaxEntries = 3
  MaxFaults = 2
SYMMETRY Symmetry
INVARIANTS TypeOK OneWorkerPerEvent RunsBounded LossBoundedByFaults HandledXorDead
CHECK_DEADLOCK FALSE
