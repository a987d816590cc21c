-------------------------------- MODULE Pages --------------------------------
(***************************************************************************)
(* Lists that are read page by page, each page a request of its own:       *)
(* listWorkItems, listNotifications and getWorkItemHistory of              *)
(* server/src/domain/workItemService.ts. A reader walks one list with the  *)
(* cursors he is given, and begins again when one is refused; rows come,   *)
(* change and go from view behind his back. Every request is counted by    *)
(* the limiter of the session first (RateLimit).                           *)
(*                                                                         *)
(* Times of rows have Micros units in a millisecond. The row of a          *)
(* transaction is dated by its start and can be seen from its COMMIT on,   *)
(* so that new rows come in anywhere up to the present. History is ordered *)
(* by aggregate_version, which takes the place of the time there.          *)
(***************************************************************************)
EXTENDS RateLimit, FiniteSets

CONSTANTS
  Ids,          \* identifiers of rows, ordered as uuids are
  Orgs,
  PageLimit,    \* the limit of the requests
  CursorLife,   \* ticks a cursor is good for
  Micros,       \* units of a row's time in a millisecond (a tick)
  InitialRows,  \* the tables the walk may begin on
  MaxChanges,   \* bound: changes behind the reader's back
  NoCursor,
  Null

VARIABLES
  list,         \* the list that is walked
  openOnly,     \* its filter: a status, or unread_only
  rows,         \* the table
  rm, rf,       \* branches the reader has a grant for, by role
  cursor,       \* next_cursor of the last page, NoCursor before the first
  done,         \* the last page has been read
  seen,         \* history: rows on the pages of this walk
  promised,     \* history: rows that have been in the list since it began
  changes

readerVars == <<cursor, done, seen, promised>>
tableVars == <<list, openOnly, rows, rm, rf, changes>>
vars == <<clock, limitVars, readerVars, tableVars>>

\* own: the reader is the assignee; open: it passes the filter. In history both
\* are those of the work item.
Row == [at: Nat, org: Orgs, own: BOOLEAN, open: BOOLEAN]

Cursor == [at: Nat, id: Ids, orgs: SUBSET Orgs, exp: Nat]

ASSUME PagesAssumption ==
  /\ Ids \subseteq Nat
  /\ PageLimit \in Nat \ {0}
  /\ Micros \in Nat \ {0}
  /\ CursorLife \in Nat
  /\ MaxChanges \in Nat
  /\ InitialRows \subseteq [Ids -> Row \cup {Null}]
  /\ Null \notin Row
  /\ NoCursor \notin Cursor

Present == {i \in Ids : rows[i] # Null}

\* A branch granted in either role; of the work items in a branch where he is no
\* manager the reader sees his own. A notification is addressed to him.
Visible(i) ==
  /\ rows[i].org \in rm \cup rf
  /\ list # "notifications" => rows[i].org \in rm \/ rows[i].own
  /\ openOnly /\ list # "history" => rows[i].open

InList == {i \in Present : Visible(i)}

Before(i, j) ==
  \/ rows[i].at < rows[j].at
  \/ rows[i].at = rows[j].at /\ i < j

\* What the WHERE clause makes of the cursor.
Beyond(i) ==
  cursor # NoCursor =>
    \/ rows[i].at > cursor.at
    \/ rows[i].at = cursor.at /\ i > cursor.id

Rest == {i \in InList : Beyond(i)}

\* ORDER BY and LIMIT: what comes first of the rest, or all of it.
IsPage(P) ==
  /\ \A i \in P, j \in Rest : Before(j, i) => j \in P
  /\ \/ Cardinality(P) = PageLimit
     \/ P = Rest /\ Cardinality(P) < PageLimit

\* Mutant: the milliseconds are rounded up.
KeptUp(at) == IF list = "history" THEN at ELSE ((at + Micros - 1) \div Micros) * Micros

\* Mutant: a cursor keeps every other millisecond.
KeptShort(at) == IF list = "history" THEN at ELSE (at \div (2 * Micros)) * (2 * Micros)

\* A Date has whole milliseconds; a version is kept as it is.
Kept(at) == IF list = "history" THEN at ELSE (at \div Micros) * Micros

NextCursor(P) ==
  \E last \in P :
    /\ \A j \in P : ~Before(last, j)
    /\ cursor' = [at |-> Kept(rows[last].at), id |-> last, orgs |-> rm \cup rf,
                  exp |-> clock + CursorLife]

InTime == clock <= cursor.exp

\* The cursor of a work item list is bound to the branches of the grants as well.
SameGrants == list = "workItems" => cursor.orgs = rm \cup rf

Decodes == cursor # NoCursor => InTime /\ SameGrants

\* The history of a work item out of sight is NOT_FOUND.
Refused == ~Decodes \/ (list = "history" /\ InList # Present)

BeginAgain ==
  /\ cursor' = NoCursor
  /\ done' = FALSE
  /\ seen' = {}
  /\ promised' = InList

-----------------------------------------------------------------------------
(* The reader *)

TakePage(P) ==
  /\ IsPage(P)
  /\ seen' = seen \cup P
  /\ IF Cardinality(P) = PageLimit
       THEN NextCursor(P) /\ UNCHANGED done
       ELSE done' = TRUE /\ UNCHANGED cursor
  /\ UNCHANGED promised

FetchPage ==
  /\ ~done
  /\ Hit
  /\ IF Refused THEN BeginAgain ELSE \E P \in SUBSET Rest : TakePage(P)
  /\ UNCHANGED <<clock, tableVars>>

\* The answer is lost and the reader asks again with the cursor he has.
LoseAnswer ==
  /\ ~done
  /\ Hit
  /\ UNCHANGED <<clock, readerVars, tableVars>>

RefuseRequest ==
  /\ Block
  /\ UNCHANGED <<clock, readerVars, tableVars>>

WalkAgain ==
  /\ done
  /\ BeginAgain
  /\ UNCHANGED <<clock, limitVars, tableVars>>

-----------------------------------------------------------------------------
(* What happens behind his back *)

Changes ==
  /\ changes < MaxChanges
  /\ changes' = changes + 1
  /\ UNCHANGED <<clock, limitVars, list, openOnly, cursor, done, seen>>
  /\ promised' = promised \cap InList'

Insert ==
  /\ \E i \in Ids, t \in 0 .. (clock + 1) * Micros - 1, o \in Orgs :
       /\ rows[i] = Null
       /\ list = "history" => \A j \in Present : rows[j].at < t
       /\ rows' = [rows EXCEPT ![i] = [at |-> t, org |-> o, own |-> TRUE, open |-> TRUE]]
  /\ UNCHANGED <<rm, rf>>
  /\ Changes

\* The work item gets another assignee.
Reassign ==
  /\ list # "notifications"
  /\ \E S \in IF list = "history" THEN {Present} ELSE {{i} : i \in Present} :
       rows' = [i \in Ids |-> IF i \in S THEN [rows[i] EXCEPT !.own = ~@] ELSE rows[i]]
  /\ UNCHANGED <<rm, rf>>
  /\ Changes

\* The work item changes its status, the notification is read.
Settle ==
  /\ \E i \in Present :
       /\ list = "notifications" => rows[i].open
       /\ rows' = [rows EXCEPT ![i].open = ~@]
  /\ UNCHANGED <<rm, rf>>
  /\ Changes

ChangeGrants ==
  /\ \E o \in Orgs :
       \/ rm' \in {rm \ {o}, rm \cup {o}} \ {rm} /\ UNCHANGED rf
       \/ rf' \in {rf \ {o}, rf \cup {o}} \ {rf} /\ UNCHANGED rm
  /\ UNCHANGED rows
  /\ Changes

TimePasses == Tick /\ UNCHANGED <<readerVars, tableVars>>

\* Cursors are held by the client and survive.
Restart == Forget /\ UNCHANGED <<clock, readerVars, tableVars>>

-----------------------------------------------------------------------------

Init ==
  /\ LimitInit
  /\ list \in {"workItems", "notifications", "history"}
  /\ openOnly \in BOOLEAN
  /\ rows \in InitialRows
  /\ list = "history" => \A i, j \in Present : i # j => rows[i].at # rows[j].at
  /\ rm \in SUBSET Orgs
  /\ rf \in SUBSET Orgs
  /\ rm \cup rf = Orgs
  /\ cursor = NoCursor
  /\ done = FALSE
  /\ seen = {}
  /\ promised = InList
  /\ changes = 0

Next ==
  \/ FetchPage \/ LoseAnswer \/ RefuseRequest \/ WalkAgain
  \/ Insert \/ Reassign \/ Settle \/ ChangeGrants
  \/ TimePasses
  \/ Restart

Spec == Init /\ [][Next]_vars

-----------------------------------------------------------------------------
(* Properties *)

\* A walk that comes to its end has shown every row that was in the list from
\* its beginning to its end, whatever else came, changed or went meanwhile, and
\* although the cursors cut the times of the rows down to milliseconds.
NothingLeftOut == done => promised \subseteq seen

\* A row comes a second time in one walk only when it is dated in the very
\* millisecond of the row the page before ended with; in history it never does.
RepeatsAreClose ==
  [][\A P \in SUBSET Rest : ~done /\ TakePage(P)
       => \A i \in P \cap seen : list # "history" /\ rows[i].at - cursor.at < Micros]_vars
=============================================================================
