SPECIFICATION Spec
CONSTANTS
  fa = fa
  fb = fb
  x1 = x1
  x2 = x2
  u1 = u1
  Null = Null
  Requests = {r1, r2}
  Processes = {p1, p2}
  Batches = {b1, b2}
  Originals = {fa, fb}
  Packets <- AllPackets
  Sound <- SoundPackets
  MaxBatches = 1
  MaxFiles = 2
  Rows = {x1, x2}
  KindOf <- OneReport
  Outlets = {u1}
  Keys = {k1, k2}
  Edits <- SomeEdits
  MaxRevisions = 2
SYMMETRY Symmetry
CHECK_DEADLOCK FALSE
INVARIANTS
  TypeOK
  QuotaHolds
  DirectoryHasIntent
  QuarantinedIsDurable
  AuditTellsBatch
  SlotsHaveOneUser
  NoDraftLost
PROPERTIES
  RightsHeldAtCommit
  DraftsFitDirectory
