CONSTANTS
  m = m
  f = f
  b = b
  org = org
  Users = {m, f, b}
  Orgs = {org}
  Items = {i1}
  Keys = {k1}
  Values = {v1}
  Requests = {r1, r2}
  Null = Null
  InitialGrants <- MCGrants
  Revocable <- NoGrants
  ClientOps <- ReviewPath
  MaxVersion = 5
SPECIFICATION Spec
SYMMETRY Symmetry
CHECK_DEADLOCK FALSE
INVARIANTS
  HistoryExplainsItem
  ReviewedAsSubmitted
  OneDecisionPerSubmission
PROPERTIES
  LifecycleRefined
