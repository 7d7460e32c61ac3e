SPECIFICATION Spec
CONSTANTS
  Logins = {x1, x2, x3}
  Devices = {y1, y2}
  SessionCap = 1
  Requests = {q1}
  Tickets = {t1}
  Sockets = {y1, y2}
  Calls = {x1, x2, x3}
  Processes = {y1, y2}
  Limit = 1
  MaxWindow = 1
  MaxFaults = 2
  MaxRestarts = 1
  Grants = {g1, g2}
  PlanCalls = {u1, u2, u3}
  Accounts = {y1, y2}
  MaxRotation = 3
  ChunkSize = 9
  ChunkOverlap = 2
  MaxLength = 12
  Ingestions = {y1, y2}
SYMMETRY Symmetry
INVARIANTS TypeOK OneSessionPerDevice CapHolds TicketsOnce WindowBound CredentialSound ChunksCover
CHECK_DEADLOCK FALSE
