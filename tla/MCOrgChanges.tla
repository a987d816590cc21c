---------------------------- MODULE MCOrgChanges ----------------------------
(***************************************************************************)
(* Instances of OrgChanges for TLC. The networks north and south, and a    *)
(* division or an outlet of north, have been applied before.               *)
(***************************************************************************)
EXTENDS OrgChanges, TLC

CONSTANTS north, south, division, outlet, a, b

FoundedUnit(kind, code, parent, date) ==
  [kind |-> kind, code |-> code, from |-> date,
   names |-> <<Opened("one", date)>>, parents |-> <<Opened(parent, date)>>]

Networks ==
  (north :> FoundedUnit("NETWORK", "N", Null, 0))
    @@ (south :> FoundedUnit("NETWORK", "S", Null, 0))

\* The division opens tomorrow.
NetworksAndDivision == Networks @@ (division :> FoundedUnit("DIVISION", "D", north, 1))

NetworksAndOutlet == Networks @@ (outlet :> FoundedUnit("ORG_UNIT", "O", north, 0))

AllActions == Actions

NoEdits == Actions \ {"edit"}

AllRights == [u \in Users |-> Permissions]

\* The second editor may rename units and not move them.
RenamersRights ==
  [u \in Users |-> IF u = b THEN Permissions \ {"ORG_UNIT_MOVE_TO_CLUSTER"} ELSE Permissions]

Creation(kind, code, parent, date) ==
  [op |-> "ORG_UNIT_CREATE", target |-> Null, kind |-> kind, code |-> code,
   name |-> "one", parent |-> parent, date |-> date]

Renaming(target, name, date) ==
  [op |-> "ORG_UNIT_RENAME", target |-> target, kind |-> Null, code |-> Null,
   name |-> name, parent |-> Null, date |-> date]

Move(target, parent, date) ==
  [op |-> "ORG_UNIT_MOVE_TO_CLUSTER", target |-> target, kind |-> Null, code |-> Null,
   name |-> Null, parent |-> parent, date |-> date]

\* An outlet is put under the division, too early or in time, and the division moves.
TreeChanges ==
  {Creation("ORG_UNIT", "O", division, 0), Creation("ORG_UNIT", "O", division, 1),
   Move(division, south, 2)}

\* Two editors rename and move the same outlet, and open another one.
RaceChanges ==
  {Renaming(outlet, "two", 1), Move(outlet, south, 1)}

Symmetry == Permutations(Requests) \cup Permutations(Keys) \cup Permutations(Proposals)
=============================================================================
