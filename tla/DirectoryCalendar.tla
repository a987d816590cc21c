-------------------------- MODULE DirectoryCalendar --------------------------
(***************************************************************************)
(* What the organization editor promises, with no word of requests, locks, *)
(* revisions, tokens or rows of history: the directory is a calendar that  *)
(* says of each unit what it is called and where it belongs on every day,  *)
(* and it changes in single atomic steps, each on behalf of an idempotency *)
(* key that has not been used before.                                      *)
(*                                                                         *)
(*   Propose, Revise   an editor notes a change                            *)
(*   Preview           he is shown the unit, if the change can be made     *)
(*   Apply             he makes it, to exactly the unit he was shown       *)
(*                                                                         *)
(* A change takes effect from one day on: the days before stay as they     *)
(* were, and nothing planned for a later day is ever undone.               *)
(***************************************************************************)
EXTENDS Integers

CONSTANTS
  Changes, Dates, ParentKinds, Null,
  Commands,  \* who does what under which key: <<editor, action, key>>
  Identifiers,
  Founded    \* the calendar at the start

VARIABLES
  calendar,   \* of each unit that is there: kind, code, first day, name and parent by day
  proposals,  \* of each proposal: target, change, status, what its preview showed to whom
  used        \* the commands that took effect

vars == <<calendar, proposals, used>>

Put(f, x, value) == [y \in DOMAIN f \cup {x} |-> IF y = x THEN value ELSE f[y]]

-----------------------------------------------------------------------------
(* The calendar *)

From(day) == {d \in Dates : day <= d}

\* From that day on, parent is there and may stand above a unit of that kind.
MayBear(parent, kind, day) ==
  IF kind = "NETWORK"
    THEN parent = Null
    ELSE /\ parent \in DOMAIN calendar
         /\ calendar[parent].from <= day
         /\ calendar[parent].kind \in ParentKinds[kind]

\* Nothing is planned from before that day on, and value is something new.
Free(plan, value, day) ==
  \E d \in DOMAIN plan :
    /\ d < day
    /\ \A e \in DOMAIN plan : d <= e => plan[e] = plan[d]
    /\ value # plan[d]

Planned(plan, value, day) == [d \in DOMAIN plan |-> IF day <= d THEN value ELSE plan[d]]

NewUnit(c) ==
  [kind |-> c.kind, code |-> c.code, from |-> c.date,
   name |-> [d \in From(c.date) |-> c.name], parent |-> [d \in From(c.date) |-> c.parent]]

\* Change c can be made to that unit.
Possible(c, unit) ==
  /\ c.date \in Dates
  /\ c.op = "ORG_UNIT_CREATE" =>
       /\ unit \notin DOMAIN calendar
       /\ \A u \in DOMAIN calendar : calendar[u].code # c.code
       /\ MayBear(c.parent, c.kind, c.date)
  /\ c.op # "ORG_UNIT_CREATE" => unit \in DOMAIN calendar
  /\ c.op = "ORG_UNIT_RENAME" => Free(calendar[unit].name, c.name, c.date)
  /\ c.op = "ORG_UNIT_MOVE_TO_CLUSTER" =>
       /\ Free(calendar[unit].parent, c.parent, c.date)
       /\ MayBear(c.parent, calendar[unit].kind, c.date)

\* What it makes of it.
Changed(c, unit) ==
  CASE c.op = "ORG_UNIT_CREATE" -> NewUnit(c)
    [] c.op = "ORG_UNIT_RENAME" ->
         [calendar[unit] EXCEPT !.name = Planned(@, c.name, c.date)]
    [] c.op = "ORG_UNIT_MOVE_TO_CLUSTER" ->
         [calendar[unit] EXCEPT !.parent = Planned(@, c.parent, c.date)]

-----------------------------------------------------------------------------
(* The steps *)

Note(target, c, status, shown) ==
  [target |-> target, change |-> c, status |-> status, shown |-> shown]

\* The editor by has been shown the unit as it is, or that it is not there yet.
Shown(by, unit) ==
  [to |-> by, unit |-> IF unit \in DOMAIN calendar THEN calendar[unit] ELSE Null]

Undone(id) == id \in DOMAIN proposals /\ proposals[id].status # "APPLIED"

\* The new unit of a creation is named by its proposal.
Propose(id) ==
  /\ id \notin DOMAIN proposals
  /\ \E c \in Changes :
       proposals' = Put(proposals, id, Note(IF c.target = Null THEN id ELSE c.target, c, "DRAFT", Null))
  /\ UNCHANGED calendar

Revise(id) ==
  /\ Undone(id)
  /\ \E c \in Changes :
       /\ c.target = proposals[id].change.target
       /\ proposals' = Put(proposals, id, Note(proposals[id].target, c, "DRAFT", Null))
  /\ UNCHANGED calendar

\* A change that is found impossible is a draft again.
Preview(id, by) ==
  LET p == proposals[id]
  IN  /\ Undone(id)
      /\ \/ proposals' = Put(proposals, id, Note(p.target, p.change, "DRAFT", Null))
         \/ /\ Possible(p.change, p.target)
            /\ proposals' = Put(proposals, id,
                                Note(p.target, p.change, "PREVIEW", Shown(by, p.target)))
      /\ UNCHANGED calendar

Apply(id, by) ==
  LET p == proposals[id]
  IN  /\ Undone(id)
      /\ p.shown = Shown(by, p.target)
      /\ Possible(p.change, p.target)
      /\ calendar' = Put(calendar, p.target, Changed(p.change, p.target))
      /\ proposals' = Put(proposals, id, Note(p.target, p.change, "APPLIED", Null))

Step(id, by, action) ==
  \/ action = "create" /\ Propose(id)
  \/ action = "edit" /\ Revise(id)
  \/ action = "preview" /\ Preview(id, by)
  \/ action = "apply" /\ Apply(id, by)

Init ==
  /\ calendar = Founded
  /\ proposals = [id \in {} |-> Null]
  /\ used = {}

Next ==
  \E k \in Commands \ used :
    /\ used' = used \cup {k}
    /\ \E id \in Identifiers : Step(id, k[1], k[2])

Spec == Init /\ [][Next]_vars

=============================================================================
