---------------------------- MODULE EventDelivery ----------------------------
(***************************************************************************)
(* What the notifications promise, with no word of drain runs, row locks,  *)
(* transactions, statuses or versions: an event is published once, waits,  *)
(* and is delivered once. Those it is told to are users it may concern.    *)
(* That they were told, and that one of them has opened what he was told,  *)
(* is an event again, published in the same step.                          *)
(***************************************************************************)
EXTENDS Integers

CONSTANTS
  Events, Null,
  WorkEvents,  \* those of the work items: item and version
  Users, Keys,
  Concerning,  \* the events that are about somebody
  Concerned    \* of every event, the users it may be told to

VARIABLES
  waiting,     \* the events that are published and not delivered
  outcomes,    \* what became of each event, Null before it is delivered
  told,        \* who has been told of what
  opened,      \* what of that has been opened
  used         \* the keys under which something was opened, <<user, key>>

vars == <<waiting, outcomes, told, opened, used>>

Published(e) == e \in waiting \/ outcomes[e] # Null

\* The events that a note n has come to its user, and that he has opened it.
Came(n) == [note |-> n, version |-> 1]
Opened(n) == [note |-> n, version |-> 2]

\* The events of a work item are published in the order of its versions.
Publish(e) ==
  /\ ~Published(e)
  /\ e.version > 1 => Published([item |-> e.item, version |-> e.version - 1])
  /\ waiting' = waiting \cup {e}
  /\ UNCHANGED <<outcomes, told, opened, used>>

Outcome(e, users) ==
  IF e \in Concerning /\ users = {} THEN "SKIPPED_ACCESS_REVOKED" ELSE "APPLIED"

Deliver(e, users) ==
  LET new == [of: {e}, user: users]
  IN  /\ e \in waiting
      /\ outcomes[e] = Null
      /\ told \cap new = {}
      /\ told' = told \cup new
      /\ waiting' = (waiting \ {e}) \cup {Came(n) : n \in new}
      /\ outcomes' = [outcomes EXCEPT ![e] = Outcome(e, users)]
      /\ UNCHANGED <<opened, used>>

\* With another key a note can be opened again, and nothing comes of it.
Open(n, key) ==
  LET k == <<n.user, key>>
  IN  /\ n \in told
      /\ k \notin used
      /\ used' = used \cup {k}
      /\ opened' = opened \cup {n}
      /\ waiting' = IF n \in opened THEN waiting ELSE waiting \cup {Opened(n)}
      /\ UNCHANGED <<outcomes, told>>

Init ==
  /\ waiting = {}
  /\ outcomes = [e \in Events |-> Null]
  /\ told = {}
  /\ opened = {}
  /\ used = {}

Next ==
  \/ \E e \in WorkEvents : Publish(e)
  \/ \E e \in waiting : \E users \in SUBSET Concerned[e] : Deliver(e, users)
  \/ \E n \in told, key \in Keys : Open(n, key)

Spec == Init /\ [][Next]_vars

=============================================================================
