CONSTANTS
  m = m
  f = f
  b = b
  org = org
  Users = {m, b}
  Orgs = {org}
  Items = {i1}
  Keys = {k1}
  Values = {v1}
  Requests = {r1, r2}
  Null = Null
  InitialGrants <- MCGrants
  Revocable <- MCGrants
  ClientOps <- PatchPath
  MaxVersion = 3
SPECIFICATION FairSpec
CHECK_DEADLOCK FALSE
PROPERTIES
  RevokedGrantIsCaught
  EveryRequestAnswered
