-------------------------- MODULE WorkItemLifecycle --------------------------
(***************************************************************************)
(* What the portal promises about a work item, with no word of requests,   *)
(* transactions, locks or retries: its card changes in single atomic steps *)
(* of its life cycle, each step raises its version by one, each is taken   *)
(* on behalf of an idempotency key that has not been used before, and the  *)
(* snapshots handed in for review are only ever added to.                  *)
(*                                                                         *)
(*   DRAFT -> ASSIGNED -> IN_PROGRESS -> SUBMITTED -> COMPLETED            *)
(*                             ^-- rework --'   ^-- reopen -> IN_PROGRESS  *)
(*   and, before COMPLETED, -> CANCELLED, which is final                   *)
(***************************************************************************)
EXTENDS Integers, Sequences

CONSTANTS Users, Orgs, Items, Values, Commands, Null

VARIABLES
  card,       \* the card of every work item, Null until it is created
  snapshots,  \* what was submitted, by revision
  used        \* the keys of the commands that took effect

vars == <<card, snapshots, used>>

\* One command takes effect: the card of i moves on from one of these statuses.
Step(i, from, new) ==
  /\ card[i] # Null
  /\ card[i].status \in from
  /\ card' = [card EXCEPT ![i] = [new EXCEPT !.version = card[i].version + 1]]

Create(i) ==
  /\ card[i] = Null
  /\ \E org \in Orgs :
       card' = [card EXCEPT ![i] =
         [status |-> "DRAFT", org |-> org, assignee |-> Null, version |-> 1,
          revision |-> 0, rework |-> 0, value |-> Null, fieldVersion |-> 1]]
  /\ UNCHANGED snapshots

\* The executor is chosen once and for good.
Assign(i) ==
  /\ \E u \in Users :
       Step(i, {"DRAFT"}, [card[i] EXCEPT !.status = "ASSIGNED", !.assignee = u])
  /\ UNCHANGED snapshots

Start(i) ==
  /\ Step(i, {"ASSIGNED"}, [card[i] EXCEPT !.status = "IN_PROGRESS"])
  /\ UNCHANGED snapshots

Edit(i) ==
  /\ \E text \in Values :
       Step(i, {"ASSIGNED", "IN_PROGRESS"},
            [card[i] EXCEPT !.value = text, !.fieldVersion = @ + 1])
  /\ UNCHANGED snapshots

\* The executor hands in the text as it stands: the snapshot is added for good.
Submit(i) ==
  /\ Step(i, {"ASSIGNED", "IN_PROGRESS"},
          [card[i] EXCEPT !.status = "SUBMITTED", !.revision = @ + 1])
  /\ card[i].value # Null
  /\ snapshots' = [snapshots EXCEPT ![i] = Append(@,
       [value |-> card[i].value, fieldVersion |-> card[i].fieldVersion,
        version |-> card[i].version + 1, by |-> card[i].assignee])]

Accept(i) ==
  /\ Step(i, {"SUBMITTED"}, [card[i] EXCEPT !.status = "COMPLETED"])
  /\ UNCHANGED snapshots

Rework(i) ==
  /\ Step(i, {"SUBMITTED"}, [card[i] EXCEPT !.status = "IN_PROGRESS", !.rework = @ + 1])
  /\ UNCHANGED snapshots

Reopen(i) ==
  /\ Step(i, {"COMPLETED"}, [card[i] EXCEPT !.status = "IN_PROGRESS"])
  /\ UNCHANGED snapshots

Cancel(i) ==
  /\ Step(i, {"DRAFT", "ASSIGNED", "IN_PROGRESS", "SUBMITTED"},
          [card[i] EXCEPT !.status = "CANCELLED"])
  /\ UNCHANGED snapshots

Init ==
  /\ card = [i \in Items |-> Null]
  /\ snapshots = [i \in Items |-> <<>>]
  /\ used = {}

Next ==
  /\ \E i \in Items :
       \/ Create(i)
       \/ Assign(i)
       \/ Start(i)
       \/ Edit(i)
       \/ Submit(i)
       \/ Accept(i)
       \/ Rework(i)
       \/ Reopen(i)
       \/ Cancel(i)
  /\ \E c \in Commands \ used : used' = used \cup {c}

Spec == Init /\ [][Next]_vars

=============================================================================
