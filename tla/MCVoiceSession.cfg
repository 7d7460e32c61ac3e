SPECIFICATION FairSpec
CONSTANTS
  MaxChunk = 2
  MaxAudio = 3
  MaxTurns = 3
INVARIANTS TypeOK AudioOnlyWhileListening TurnAccounting
PROPERTIES NoServiceAfterClose ImplementsProtocol SessionEnds
CHECK_DEADLOCK FALSE
