SPECIFICATION FairSpec
CONSTANTS
  Consumers = {c1, c2}
  Events = {e1, e2}
  Invalid = Invalid
  NumHandlers = 1
  MaxAttempts = 2
  BatchSize = 2
  EmptyHistoryIsTruthy = TRUE
  MaxEntries = 2
  MaxFaults = 0
PROPERTIES NewEntriesSettle
CHECK_DEADLOCK FALSE
