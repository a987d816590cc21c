--------------------------- MODULE MCNotifications ---------------------------
(***************************************************************************)
(* Instances of Notifications for TLC: a manager m, a second manager b and *)
(* an executor f.                                                          *)
(***************************************************************************)
EXTENDS Notifications, TLC

CONSTANTS m, b, f

MCGrants ==
  {<<m, "REGIONAL_MANAGER">>, <<b, "REGIONAL_MANAGER">>, <<f, "RF">>} \cap (Users \X Roles)

NoGrants == {}

ExecutorGrant == {<<f, "RF">>}

\* A work item is created, assigned, handed in and accepted.
ReviewLife ==
  <<[type |-> "created", actor |-> m, assignee |-> Null],
    [type |-> "assigned", actor |-> m, assignee |-> f],
    [type |-> "submitted", actor |-> f, assignee |-> f],
    [type |-> "accepted", actor |-> m, assignee |-> f]>>

SubmitLife == SubSeq(ReviewLife, 1, 3)

AssignLife == SubSeq(ReviewLife, 1, 2)

NoPoison == {}

\* The notification of the assignment cannot be written.
AssignmentFails == {e \in WorkEvents : e.version = 2}

Symmetry == Permutations(Mutations) \cup Permutations(Runs)
              \cup Permutations(Readers) \cup Permutations(Keys)
=============================================================================
