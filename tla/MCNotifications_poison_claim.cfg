CONSTANTS
  m = m
  b = b
  f = f
  Users = {m, b, f}
  Items = {i1, i2}
  Life <- AssignLife
  InitialGrants <- MCGrants
  Revocable <- NoGrants
  Mutations = {t1}
  Runs = {w1}
  Readers = {}
  Keys = {k1}
  Poison <- AssignmentFails
  Null = Null
SPECIFICATION FairSpec
CHECK_DEADLOCK FALSE
PROPERTIES
  FailureBlocksNoOther
