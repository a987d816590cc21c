SPECIFICATION Spec
CONSTANTS
  MaxClock = 3
  Ids = {s1, s2}
  Requests = {r1, r2}
  Null = Null
  IdleTimeout = 1
  AbsoluteTimeout = 2
  MaxPassword = 2
  MaxEpoch = 2
SYMMETRY Symmetry
CHECK_DEADLOCK FALSE
INVARIANTS
  TypeOK
PROPERTIES
  OldPasswordLocksOut
  LogoutStands
