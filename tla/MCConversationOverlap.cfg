SPECIFICATION Spec
CONSTANTS
  r1 = r1  r2 = r2  r3 = r3  u1 = u1  u2 = u2  s1 = s1
  Requests = {r1, r2}
  Users = {u1, u2}
  NoUser = NoUser
  Sessions = {s1}
  MaxMessages = 3
  Lifetime = 2
  MaxLapses = 3
SYMMETRY Symmetry
INVARIANTS ConfirmedIsStored
CHECK_DEADLOCK FALSE
