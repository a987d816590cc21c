SPECIFICATION Spec
CONSTANTS
  north = north
  south = south
  outlet = outlet
  division = division
  a = a
  b = b
  Null = Null
  Users = {a, b}
  Proposals = {p1, p2}
  Founded = {north, south, outlet}
  InitialDirectory <- NetworksAndOutlet
  InitialRights <- RenamersRights
  Revocable = {a}
  ClientActions <- NoEdits
  Changes <- RaceChanges
  Keys = {k1}
  Requests = {r1, r2}
  Names = {"one", "two"}
  Codes = {"N", "S", "O"}
  Dates = {0, 1, 2}
  PreviewLife = 1
  TicksPerDay = 1
  MaxVersion = 3
  MaxClock = 0
SYMMETRY Symmetry
PROPERTIES
  CalendarRefined
  AppliedAsPreviewed
  RightsHeldWhenAnswered
CHECK_DEADLOCK FALSE
