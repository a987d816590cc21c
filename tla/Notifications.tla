---------------------------- MODULE Notifications ----------------------------
(***************************************************************************)
(* In-app notifications: the outbox that the work item transactions fill,  *)
(* the consumer that drains it (server/src/workers/notificationConsumer.ts)*)
(* and the reading of a notification by its recipient (readNotification of *)
(* server/src/domain/workItemService.ts). One branch; a work item lives    *)
(* through the steps of Life, one version and one event each.              *)
(*                                                                         *)
(* A drain run r \in Runs takes one event per transaction:                 *)
(*                                                                         *)
(*   Tick      setInterval starts a run, whether others have ended or not  *)
(*   Claim     SELECT ... ORDER BY ... LIMIT 1 FOR UPDATE SKIP LOCKED      *)
(*   Resolve   the recipients are looked up under the grants of the moment *)
(*   Deliver   notifications, their audit and outbox rows, the receipt and *)
(*             the status PROCESSED become visible with the COMMIT         *)
(*   Finish    nothing is left to claim                                    *)
(*   FailRun   any error: ROLLBACK, and the run ends                       *)
(*                                                                         *)
(* Timestamps: occurred_at and next_attempt_at are both now(), the start   *)
(* of the inserting transaction and not its commit. A stamp stands for     *)
(* both: the number of events that had been committed at that start. Equal *)
(* stamps are timestamps in either order.                                  *)
(***************************************************************************)
EXTENDS Integers, Sequences, FiniteSets

CONSTANTS
  Users,         \* active users
  Items,         \* work items of the branch
  Life,          \* the mutations of a work item: type, actor, assignee after it
  InitialGrants, \* role_grants in force at the start, as <<user, role>>
  Revocable,     \* those that may be revoked meanwhile
  Mutations,     \* slots for transactions on work items
  Runs,          \* bound: drain runs that overlap
  Readers,       \* slots for requests to read a notification
  Keys,          \* their Idempotency-Key values
  Poison,        \* events whose processing fails whenever it is tried
  Null

Roles == {"REGIONAL_MANAGER", "RF"}

AssigneeEvents == {"assigned", "accepted", "rework_requested", "cancelled", "reopened"}
ReviewerEvents == {"submitted"}
SilentEvents == {"created", "started", "fields_patched"}

\* Rows of outbox_events by their UNIQUE (aggregate, version): the mutations of
\* work items, and notification.created (1) and notification.read (2).
WorkEvents == [item: Items, version: 1 .. Len(Life)]
Inbox == [of: WorkEvents, user: Users]
NoteEvents == [note: Inbox, version: {1, 2}]
Events == WorkEvents \cup NoteEvents

ASSUME LifeAssumption ==
  Life \in Seq([type: AssigneeEvents \cup ReviewerEvents \cup SilentEvents,
                actor: Users, assignee: Users \cup {Null}])

Row(stamp) == [stamp |-> stamp, status |-> "PENDING"]

\* The rows and the records of the variables below.
OutboxRow == [stamp: Nat, status: {"PENDING", "PROCESSED"}]
Mutation == [item: Items, stamp: Nat]
Claimed == [event: Events, stamp: Nat]
Outcomes == {"APPLIED", "SKIPPED_ACCESS_REVOKED"}

Replies == {"OK", "REPLAY", "IDEMPOTENCY_KEY_REUSED", "REFUSED", "UNAVAILABLE"}

Reading == [note: Inbox, key: Keys, expected: {1, 2}, granted: BOOLEAN, stamp: Nat,
            step: {"sent", "authorized"} \cup Replies]
ReadRecord == [note: Inbox, expected: {1, 2}]

ASSUME GrantsAssumption ==
  /\ InitialGrants \subseteq Users \X Roles
  /\ Revocable \subseteq InitialGrants
  /\ Poison \subseteq WorkEvents

ASSUME FiniteAssumption == IsFiniteSet(Users) /\ IsFiniteSet(Items)

ASSUME NullAssumption ==
  /\ Null \notin OutboxRow /\ Null \notin Mutation /\ Null \notin Claimed
  /\ Null \notin Outcomes /\ Null \notin Reading /\ Null \notin ReadRecord

VARIABLES
  version,     \* entity_version of each work item, 0 before it is created
  mutation,    \* the open transactions on work items
  outbox,      \* outbox_events: stamp and delivery_status, Null if not there
  receipts,    \* consumer_receipts: the outcome, Null if not there
  notes,       \* notifications: entity_version, 0 if not there; 2 once read
  grants,      \* role_grants in force: valid and not revoked
  pc,          \* where each drain run stands
  claim,       \* the event its transaction has locked, and when it began
  recipients,  \* whom it found to notify
  reading,     \* the requests to read a notification
  records      \* idempotency_records of readNotification, by <<actor, key>>

work == <<version, mutation>>
consumer == <<pc, claim, recipients>>
inbox == <<reading, records>>
vars == <<work, outbox, receipts, notes, grants, consumer, inbox>>

Stamp == Cardinality({e \in Events : outbox[e] # Null})

-----------------------------------------------------------------------------
(* The transactions that fill the outbox *)

BeginMutation(t) ==
  /\ mutation[t] = Null
  /\ \E i \in Items :
       /\ version[i] < Len(Life)
       /\ mutation' = [mutation EXCEPT ![t] = [item |-> i, stamp |-> Stamp]]
  /\ UNCHANGED <<version, outbox, receipts, notes, grants, consumer, inbox>>

\* From the row lock of the work item to the COMMIT nobody comes between.
CommitMutation(t) ==
  /\ mutation[t] # Null
  /\ LET i == mutation[t].item
         next == version[i] + 1
     IN  /\ next \in DOMAIN Life
         /\ version' = [version EXCEPT ![i] = next]
         /\ outbox' = [outbox EXCEPT
              ![[item |-> i, version |-> next]] = Row(mutation[t].stamp)]
  /\ mutation' = [mutation EXCEPT ![t] = Null]
  /\ UNCHANGED <<receipts, notes, grants, consumer, inbox>>

\* Mutant: the event is written outside the transaction that is rolled back.
RollbackLeavesEvent(t) ==
  /\ mutation[t] # Null
  /\ mutation' = [mutation EXCEPT ![t] = Null]
  /\ LET i == mutation[t].item
     IN  outbox' = [e \in Events |->
           IF e \in WorkEvents /\ e.item = i /\ e.version = version[i] + 1
             THEN Row(mutation[t].stamp) ELSE outbox[e]]
  /\ UNCHANGED <<version, receipts, notes, grants, consumer, inbox>>

RollbackMutation(t) ==
  /\ mutation[t] # Null
  /\ mutation' = [mutation EXCEPT ![t] = Null]
  /\ UNCHANGED <<version, outbox, receipts, notes, grants, consumer, inbox>>

RevokeGrant(g) ==
  /\ g \in grants
  /\ grants' = grants \ {g}
  /\ UNCHANGED <<work, outbox, receipts, notes, consumer, inbox>>

-----------------------------------------------------------------------------
(* The consumer *)

\* PROCESSING is never committed: others see PENDING and a locked row.
Pending == {e \in Events : outbox[e] # Null /\ outbox[e].status = "PENDING"}

Unlocked(e) == \A r \in Runs : claim[r] # Null => claim[r].event # e

\* Mutant: a cursor in place of the status, which passes over what was committed
\* late with an early timestamp.
FreeAfterCursor ==
  {e \in Pending : Unlocked(e) /\ \A d \in Events \ Pending :
     outbox[d] # Null => outbox[d].stamp <= outbox[e].stamp}

Free == {e \in Pending : Unlocked(e)}

\* POLICY_BY_EVENT: an event that is not about a work item concerns nobody.
Policy(e) ==
  IF e \in NoteEvents THEN "NONE"
  ELSE IF Life[e.version].type \in AssigneeEvents THEN "ASSIGNEE"
  ELSE IF Life[e.version].type \in ReviewerEvents THEN "REVIEWERS"
  ELSE "NONE"

\* resolveRecipients: the assignee is that of the row now, the actor that of the
\* event; nobody is told of what he did himself.
Recipients(e) ==
  IF Policy(e) = "NONE" THEN {}
  ELSE LET actor == Life[e.version].actor
           assignee == Life[version[e.item]].assignee
       IN  IF Policy(e) = "ASSIGNEE"
             THEN {u \in {assignee} \ {Null, actor} : <<u, "RF">> \in grants}
             ELSE {u \in Users \ {actor, assignee} : <<u, "REGIONAL_MANAGER">> \in grants}

Outcome(e, users) ==
  IF Policy(e) # "NONE" /\ users = {} THEN "SKIPPED_ACCESS_REVOKED" ELSE "APPLIED"

Tick(r) ==
  /\ pc[r] = "idle"
  /\ pc' = [pc EXCEPT ![r] = "looking"]
  /\ UNCHANGED <<work, outbox, receipts, notes, grants, claim, recipients, inbox>>

Claim(r) ==
  /\ pc[r] = "looking"
  /\ \E e \in Free :
       /\ \A d \in Free : outbox[e].stamp <= outbox[d].stamp
       /\ claim' = [claim EXCEPT ![r] = [event |-> e, stamp |-> Stamp]]
  /\ pc' = [pc EXCEPT ![r] = "claimed"]
  /\ UNCHANGED <<work, outbox, receipts, notes, grants, recipients, inbox>>

Finish(r) ==
  /\ pc[r] = "looking"
  /\ Free = {}
  /\ pc' = [pc EXCEPT ![r] = "idle"]
  /\ UNCHANGED <<work, outbox, receipts, notes, grants, claim, recipients, inbox>>

Resolve(r) ==
  /\ pc[r] = "claimed"
  /\ recipients' = [recipients EXCEPT ![r] = Recipients(claim[r].event)]
  /\ pc' = [pc EXCEPT ![r] = "resolved"]
  /\ UNCHANGED <<work, outbox, receipts, notes, grants, claim, inbox>>

\* INSERT ... ON CONFLICT (event_id, recipient_user_id) DO NOTHING, and for each
\* row inserted an audit row and the event notification.created; an event that
\* has its receipt already (looked up under the lock of its row) is only marked.
Deliver(r) ==
  LET e == claim[r].event
      new == {n \in [of: {e} \cap WorkEvents, user: recipients[r]] : notes[n] = 0}
      created == [note: new, version: {1}]
  IN  /\ pc[r] = "resolved"
      /\ e \notin Poison
      /\ IF receipts[e] = Null
           THEN /\ receipts' = [receipts EXCEPT ![e] = Outcome(e, recipients[r])]
                /\ notes' = [n \in Inbox |-> IF n \in new THEN 1 ELSE notes[n]]
                /\ outbox' = [d \in Events |->
                     IF d = e THEN [outbox[e] EXCEPT !.status = "PROCESSED"]
                     ELSE IF d \in created THEN Row(claim[r].stamp)
                     ELSE outbox[d]]
           ELSE /\ outbox' = [outbox EXCEPT ![e].status = "PROCESSED"]
                /\ UNCHANGED <<receipts, notes>>
      /\ claim' = [claim EXCEPT ![r] = Null]
      /\ recipients' = [recipients EXCEPT ![r] = {}]
      /\ pc' = [pc EXCEPT ![r] = "looking"]
      /\ UNCHANGED <<work, grants, inbox>>

\* Mutant: the notifications are inserted outside the transaction.
FailRunLate(r) ==
  /\ pc[r] \in {"looking", "claimed", "resolved"}
  /\ notes' = [n \in Inbox |->
       IF claim[r] # Null /\ n.of = claim[r].event /\ n.user \in recipients[r] THEN 1
       ELSE notes[n]]
  /\ claim' = [claim EXCEPT ![r] = Null]
  /\ recipients' = [recipients EXCEPT ![r] = {}]
  /\ pc' = [pc EXCEPT ![r] = "idle"]
  /\ UNCHANGED <<work, outbox, receipts, grants, inbox>>

\* The error leaves runNotificationConsumerOnce and is logged by the timer.
FailRun(r) ==
  /\ pc[r] \in {"looking", "claimed", "resolved"}
  /\ claim' = [claim EXCEPT ![r] = Null]
  /\ recipients' = [recipients EXCEPT ![r] = {}]
  /\ pc' = [pc EXCEPT ![r] = "idle"]
  /\ UNCHANGED <<work, outbox, receipts, notes, grants, inbox>>

-----------------------------------------------------------------------------
(* readNotification *)

\* A recipient opens a notification of his inbox, of which he has seen the version.
SendRead(d) ==
  /\ reading[d] = Null
  /\ \E n \in Inbox, k \in Keys :
       /\ notes[n] > 0
       /\ reading' = [reading EXCEPT ![d] =
            [note |-> n, key |-> k, expected |-> notes[n], step |-> "sent",
             granted |-> FALSE, stamp |-> 0]]
  /\ UNCHANGED <<work, outbox, receipts, notes, grants, consumer, records>>

\* BEGIN, and the grants are read, before any lock is waited for.
ReadGrants(d) ==
  /\ reading[d] # Null
  /\ reading[d].step = "sent"
  /\ reading' = [reading EXCEPT
       ![d].step = "authorized",
       ![d].granted = \E role \in Roles : <<reading[d].note.user, role>> \in grants,
       ![d].stamp = Stamp]
  /\ UNCHANGED <<work, outbox, receipts, notes, grants, consumer, records>>

Saved(q) == records[<<q.note.user, q.key>>]

ReplyTo(d, code) == reading' = [reading EXCEPT ![d].step = code]

\* From the advisory lock of the key and the lock of the row to the end of the
\* transaction nobody comes between; here the three ways in which it changes nothing:
\* a replay, a key used for another request, a check that fails.
AnswerRead(d) ==
  LET q == reading[d]
  IN  /\ q # Null
      /\ q.step = "authorized"
      /\ \/ /\ Saved(q) # Null
            /\ Saved(q) = [note |-> q.note, expected |-> q.expected]
            /\ ReplyTo(d, "REPLAY")
         \/ /\ Saved(q) # Null
            /\ Saved(q) # [note |-> q.note, expected |-> q.expected]
            /\ ReplyTo(d, "IDEMPOTENCY_KEY_REUSED")
         \/ /\ Saved(q) = Null
            /\ ~q.granted \/ notes[q.note] # q.expected
            /\ ReplyTo(d, "REFUSED")
      /\ UNCHANGED <<work, outbox, receipts, notes, grants, consumer, records>>

\* Mutant: the version is not compared.
MayReadStale(q) == Saved(q) = Null /\ q.granted

MayRead(q) == Saved(q) = Null /\ q.granted /\ notes[q.note] = q.expected

\* Mutant: read_at is not looked at.
NeverRead(n) == FALSE

AlreadyRead(n) == notes[n] = 2

\* Mutant: writeAuditAndOutbox is forgotten.
MarkReadSilently(q) ==
  /\ notes' = [notes EXCEPT ![q.note] = @ + 1]
  /\ UNCHANGED outbox

MarkRead(q) ==
  /\ notes' = [notes EXCEPT ![q.note] = @ + 1]
  /\ outbox' = [outbox EXCEPT ![[note |-> q.note, version |-> notes'[q.note]]] = Row(q.stamp)]

\* The first reading sets read_at and the version 2, with its audit and outbox rows;
\* a later one, by a client that knows of it, changes nothing but its record.
ReadNotification(d) ==
  LET q == reading[d]
  IN  /\ q # Null
      /\ q.step = "authorized"
      /\ MayRead(q)
      /\ IF AlreadyRead(q.note) THEN UNCHANGED <<notes, outbox>> ELSE MarkRead(q)
      /\ records' = [records EXCEPT ![<<q.note.user, q.key>>] =
           [note |-> q.note, expected |-> q.expected]]
      /\ \E code \in {"OK", "UNAVAILABLE"} : ReplyTo(d, code)
      /\ UNCHANGED <<work, receipts, grants, consumer>>

FailRead(d) ==
  /\ reading[d] # Null
  /\ reading[d].step \in {"sent", "authorized"}
  /\ ReplyTo(d, "UNAVAILABLE")
  /\ UNCHANGED <<work, outbox, receipts, notes, grants, consumer, records>>

RetryRead(d) ==
  /\ reading[d] # Null
  /\ reading[d].step \in Replies
  /\ reading' = [reading EXCEPT ![d].step = "sent", ![d].granted = FALSE, ![d].stamp = 0]
  /\ UNCHANGED <<work, outbox, receipts, notes, grants, consumer, records>>

ReceiveRead(d) ==
  /\ reading[d] # Null
  /\ reading[d].step \in Replies
  /\ reading' = [reading EXCEPT ![d] = Null]
  /\ UNCHANGED <<work, outbox, receipts, notes, grants, consumer, records>>

-----------------------------------------------------------------------------
Init ==
  /\ version = [i \in Items |-> 0]
  /\ mutation = [t \in Mutations |-> Null]
  /\ outbox = [e \in Events |-> Null]
  /\ receipts = [e \in Events |-> Null]
  /\ notes = [n \in Inbox |-> 0]
  /\ grants = InitialGrants
  /\ pc = [r \in Runs |-> "idle"]
  /\ claim = [r \in Runs |-> Null]
  /\ recipients = [r \in Runs |-> {}]
  /\ reading = [d \in Readers |-> Null]
  /\ records = [k \in Users \X Keys |-> Null]

Next ==
  \/ \E t \in Mutations : BeginMutation(t) \/ CommitMutation(t) \/ RollbackMutation(t)
  \/ \E g \in Revocable : RevokeGrant(g)
  \/ \E r \in Runs :
       \/ Tick(r)
       \/ Claim(r)
       \/ Finish(r)
       \/ Resolve(r)
       \/ Deliver(r)
       \/ FailRun(r)
  \/ \E d \in Readers :
       \/ SendRead(d)
       \/ ReadGrants(d)
       \/ AnswerRead(d)
       \/ ReadNotification(d)
       \/ FailRead(d)
       \/ RetryRead(d)
       \/ ReceiveRead(d)

Spec == Init /\ [][Next]_vars

\* The timer goes on for ever, and errors do not: a step that can be taken again
\* and again is once taken without the run failing first.
Fairness ==
  \A r \in Runs :
    /\ WF_vars(Tick(r))
    /\ WF_vars(Finish(r))
    /\ SF_vars(Claim(r))
    /\ SF_vars(Resolve(r))
    /\ SF_vars(Deliver(r))

FairSpec == Spec /\ Fairness

-----------------------------------------------------------------------------
(* Properties *)

TypeOK ==
  /\ version \in [Items -> 0 .. Len(Life)]
  /\ mutation \in [Mutations -> Mutation \cup {Null}]
  /\ outbox \in [Events -> OutboxRow \cup {Null}]
  /\ receipts \in [Events -> Outcomes \cup {Null}]
  /\ notes \in [Inbox -> 0 .. 2]
  /\ grants \subseteq InitialGrants
  /\ pc \in [Runs -> {"idle", "looking", "claimed", "resolved"}]
  /\ claim \in [Runs -> Claimed \cup {Null}]
  /\ recipients \in [Runs -> SUBSET Users]
  /\ reading \in [Readers -> Reading \cup {Null}]
  /\ records \in [Users \X Keys -> ReadRecord \cup {Null}]

\* Those who have been notified of an event.
Told(e) == {u \in Users : e \in WorkEvents /\ notes[[of |-> e, user |-> u]] > 0}

\* The receipt of an event, its status and its notifications tell one story however
\* runs overlap, fail and start again: PROCESSED has a receipt and only it has, and
\* an event was skipped exactly if it concerned somebody and nobody was notified.
ReceiptTellsDelivery ==
  \A e \in Events :
    /\ (receipts[e] # Null) <=> (outbox[e] # Null /\ outbox[e].status = "PROCESSED")
    /\ Told(e) # {} => receipts[e] = "APPLIED"
    /\ (receipts[e] = "APPLIED" /\ Policy(e) # "NONE") => Told(e) # {}

\* Every notification has one event for its creation and, once it has been read, one
\* for its reading, never more and never without (the version that ON CONFLICT and
\* readNotification keep against the UNIQUE constraint of the outbox).
NotesHaveTheirEvents ==
  \A n \in Inbox, v \in {1, 2} :
    (notes[n] >= v) <=> (outbox[[note |-> n, version |-> v]] # Null)

\* A notification that has been read is never read again, whatever keys, tabs and
\* retries the recipient uses: of two requests that saw it unread one takes effect.
ReadOnce ==
  \A n \in Inbox :
    Cardinality({k \in DOMAIN records :
      records[k] # Null /\ records[k].note = n /\ records[k].expected = 1})
        = (IF notes[n] = 2 THEN 1 ELSE 0)

\* Whom an event may be told to, whatever comes between it and its delivery: nobody of
\* what he did himself, and of an assignment those who have the item then or later.
MayConcern(e) ==
  {u \in Users :
     /\ Policy(e) # "NONE"
     /\ u # Life[e.version].actor
     /\ \E v \in e.version .. Len(Life) :
          IF Policy(e) = "ASSIGNEE"
            THEN Life[v].assignee = u /\ <<u, "RF">> \in InitialGrants
            ELSE Life[v].assignee # u /\ <<u, "REGIONAL_MANAGER">> \in InitialGrants}

\* Behind overlapping runs, locks, errors and retries the outbox is a queue that gives
\* out every event once, to users it may concern, as EventDelivery says: the COMMIT of
\* a mutation, of a delivery and of a reading is one of its steps, and nothing else shows.
Delivery == INSTANCE EventDelivery WITH
  Concerning <- {e \in Events : Policy(e) # "NONE"},
  Concerned <- [e \in Events |-> MayConcern(e)],
  waiting <- Pending,
  outcomes <- receipts,
  told <- {n \in Inbox : notes[n] > 0},
  opened <- {n \in Inbox : notes[n] = 2},
  used <- {k \in Users \X Keys : records[k] # Null}

DeliveryRefined == Delivery!Spec

\* Every committed event is processed in the end, also one that becomes visible after
\* events with later timestamps, and the events that deliveries add come to an end.
EveryEventProcessed ==
  \A e \in Events :
    (outbox[e] # Null) ~> (outbox[e] # Null /\ outbox[e].status = "PROCESSED")

-----------------------------------------------------------------------------
(* Claims of comments and contracts that the code does not keep *)

\* notificationConsumer.ts:73-75: a failure on one event does not block later ones.
FailureBlocksNoOther ==
  \A e \in WorkEvents \ Poison :
    (outbox[e] # Null) ~> (outbox[e] # Null /\ outbox[e].status = "PROCESSED")
=============================================================================
