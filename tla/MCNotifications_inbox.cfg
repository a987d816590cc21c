CONSTANTS
  m = m
  b = b
  f = f
  Users = {m, f}
  Items = {i1}
  Life <- AssignLife
  InitialGrants <- MCGrants
  Revocable <- ExecutorGrant
  Mutations = {t1}
  Runs = {w1, w2}
  Readers = {d1, d2}
  Keys = {k1, k2}
  Poison <- NoPoison
  Null = Null
SPECIFICATION Spec
SYMMETRY Symmetry
CHECK_DEADLOCK FALSE
INVARIANTS
  TypeOK
  ReceiptTellsDelivery
  NotesHaveTheirEvents
  ReadOnce
PROPERTIES
  DeliveryRefined
