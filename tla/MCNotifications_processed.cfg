CONSTANTS
  m = m
  b = b
  f = f
  Users = {m, b, f}
  Items = {i1}
  Life <- SubmitLife
  InitialGrants <- MCGrants
  Revocable <- ExecutorGrant
  Mutations = {t1, t2}
  Runs = {w1}
  Readers = {}
  Keys = {k1}
  Poison <- NoPoison
  Null = Null
SPECIFICATION FairSpec
CHECK_DEADLOCK FALSE
PROPERTIES
  EveryEventProcessed
