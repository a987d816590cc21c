CONSTANTS
  m = m
  f = f
  b = b
  org = org
  Users = {m, b}
  Orgs = {org}
  Items = {i1}
  Keys = {k1}
  Values = {v1}
  Requests = {r1}
  Null = Null
  InitialGrants <- MCGrants
  Revocable <- MCGrants
  ClientOps <- CreateOnly
  MaxVersion = 5
SPECIFICATION Spec
CHECK_DEADLOCK FALSE
PROPERTIES
  ReplayIsAuthorised
