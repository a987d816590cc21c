CONSTANTS
  m = m
  f = f
  b = b
  org = org
  Users = {m, b}
  Orgs = {org}
  Items = {i1}
  Keys = {k1, k2}
  Values = {v1}
  Requests = {r1}
  Null = Null
  InitialGrants <- MCGrants
  Revocable <- NoGrants
  ClientOps <- AllOps
  MaxVersion = 7
SPECIFICATION Spec
SYMMETRY Symmetry
CHECK_DEADLOCK FALSE
INVARIANTS
  TypeOK
  HistoryExplainsItem
  ReviewedAsSubmitted
  IndependentReview
  KeyAppliedOnce
