SPECIFICATION FairSpec
CONSTANTS
  Consumers = {c1, c2}
  Events = {e1, e2}
  Invalid = Invalid
  NumHandlers = 1
  MaxAttempts = 2
  BatchSize = 2
  EmptyHistoryIsTruthy = FALSE
  MaxEntries = 2
  MaxFaults = 0
INVARIANTS AtLeastOnce
PROPERTIES NewEntriesSettle
CHECK_DEADLOCK FALSE
