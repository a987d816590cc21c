SPECIFICATION Spec
CONSTANTS
  Window = 1
  Limit = 2
  MaxClock = 2
  NoBucket = NoBucket
  Ids = {1, 2, 3}
  Orgs = {org}
  org = org
  PageLimit = 2
  CursorLife = 1
  Micros = 2
  InitialRows <- Tables
  MaxChanges = 1
  NoCursor = NoCursor
  Null = Null
CHECK_DEADLOCK FALSE
INVARIANTS
  BurstBound
  NothingLeftOut
PROPERTIES
  RepeatsAreClose
