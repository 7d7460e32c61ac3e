SPECIFICATION Spec
CONSTANTS
  Callers = {c1, c2}
  Rules = {r1}
  Contents <- MCContents
  Fold <- MCFold
  RetentionDays = 1
  MaxClock = 1
  CircuitFailures = 2
  MaxConcurrency = 1
  MaxSteps = 5
  MaxReplans = 2
  Intents = {"memory.remember", "planning", "chat"}
  MaxIncidents = 1
  ApiTools = {"memory.remember", "unknown"}
  MemoryTools = {"memory.remember"}
  ApiKeys = {"key"}
SYMMETRY Symmetry
INVARIANTS TypeOK OncePerKey CircuitCounts ConfirmedWrites NoFeedback ToldIsKept
CHECK_DEADLOCK FALSE
