SPECIFICATION Spec
CONSTANTS
  north = north
  south = south
  outlet = outlet
  division = division
  a = a
  b = b
  Null = Null
  Users = {a}
  Proposals = {p1, p2}
  Founded = {north, south, division}
  InitialDirectory <- NetworksAndDivision
  InitialRights <- AllRights
  Revocable = {}
  ClientActions <- AllActions
  Changes <- TreeChanges
  Keys = {k1, k2}
  Requests = {r1}
  Names = {"one"}
  Codes = {"N", "S", "D", "O"}
  Dates = {0, 1, 2}
  PreviewLife = 1
  TicksPerDay = 1
  MaxVersion = 4
  MaxClock = 1
SYMMETRY Symmetry
INVARIANTS
  TypeOK
  EveryUnitHasItsPlace
  DirectoryTellsProposals
  PreviewStillHolds
  ApplyFollowsPreview
CHECK_DEADLOCK FALSE
