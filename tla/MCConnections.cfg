SPECIFICATION FairSpec
CONSTANTS
  p1 = p1  p2 = p2  h1 = h1  v1 = v1  v2 = v2  v3 = v3
  Plain = {p1, p2}
  Chat = {h1}
  Voice = {v1, v2, v3}
  MaxConnections = 3
  MaxSlots = 2
  MaxFaults = 1
INVARIANTS TypeOK SlotsAccounted RegistryAccounted
PROPERTIES Drained
CHECK_DEADLOCK FALSE
