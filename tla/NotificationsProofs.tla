------------------------- MODULE NotificationsProofs -------------------------
(***************************************************************************)
(* What Notifications promises for any users, items, runs and readers: the *)
(* receipts, the events and the notifications tell one story, each         *)
(* notification is read once, and all of it together is EventDelivery, a   *)
(* queue that gives out every event once.                                  *)
(*                                                                         *)
(* The argument: an event that a run has locked is there, PENDING, and     *)
(* locked by no other run (Locked), so that a receipt in its way is never  *)
(* met (ReceiptTellsDelivery itself) and nobody has been notified of it. A *)
(* record of a first reading is there for exactly the notifications that   *)
(* have been read (OneReading), as the reader compares the version that he *)
(* saw with the one of the row. A work item has the events of its versions *)
(* and no others (InOrder), and a run finds only users whom its event may  *)
(* concern (Destined), so that every COMMIT is one step of the queue.      *)
(***************************************************************************)
EXTENDS Notifications, FiniteSetTheorems, SequenceTheorems, TLAPS

\* The row of a claimed event is locked until the transaction ends.
Locked ==
  /\ \A r \in Runs : claim[r] # Null <=> pc[r] \in {"claimed", "resolved"}
  /\ \A r \in Runs : claim[r] # Null =>
       outbox[claim[r].event] # Null /\ outbox[claim[r].event].status = "PENDING"
  /\ \A r, o \in Runs :
       claim[r] # Null /\ claim[o] # Null /\ claim[r].event = claim[o].event => r = o

\* A run has recipients only between the look-up and the delivery.
Addressed ==
  \A r \in Runs : recipients[r] # {} =>
    pc[r] = "resolved" /\ claim[r].event \in WorkEvents

\* A work item has the events of all its versions, and no event comes before.
InOrder ==
  \A e \in WorkEvents : (outbox[e] # Null) <=> (e.version <= version[e.item])

\* The keys under which notification n was read by a client that saw it unread.
FirstReadings(n) ==
  {k \in DOMAIN records : records[k] # Null /\ records[k].note = n /\ records[k].expected = 1}

OneReading ==
  \A n \in Inbox :
    IF notes[n] = 2 THEN \E k \in DOMAIN records : FirstReadings(n) = {k}
                    ELSE FirstReadings(n) = {}

NotifyInv ==
  /\ TypeOK
  /\ Locked
  /\ Addressed
  /\ InOrder
  /\ ReceiptTellsDelivery
  /\ NotesHaveTheirEvents
  /\ OneReading

-----------------------------------------------------------------------------
(* The events *)

LEMMA WorkOrNote == \A e \in WorkEvents : e \notin NoteEvents
<1> SUFFICES ASSUME NEW e \in WorkEvents, e \in NoteEvents PROVE FALSE
  OBVIOUS
<1>1. DOMAIN e = {"item", "version"}
  BY DEF WorkEvents
<1>2. DOMAIN e = {"note", "version"}
  BY DEF NoteEvents
<1> QED BY <1>1, <1>2

LEMMA EventsAreFinite == IsFiniteSet(Events)
<1> DEFINE V == 1 .. Len(Life)
           work_ == [x \in Items \X V |-> [item |-> x[1], version |-> x[2]]]
           inbox_ == [x \in WorkEvents \X Users |-> [of |-> x[1], user |-> x[2]]]
           note_ == [x \in Inbox \X {1, 2} |-> [note |-> x[1], version |-> x[2]]]
<1>1. IsFiniteSet(V)
  BY LifeAssumption, FS_Interval, LenProperties
<1>2. IsFiniteSet(WorkEvents)
  <2>1. IsFiniteSet(Items \X V)
    BY <1>1, FiniteAssumption, FS_Product
  <2>2. work_ \in Surjection(Items \X V, WorkEvents)
    <3>1. work_ \in [Items \X V -> WorkEvents]
      BY DEF WorkEvents
    <3>2. \A e \in WorkEvents : <<e.item, e.version>> \in Items \X V /\ work_[<<e.item, e.version>>] = e
      BY DEF WorkEvents
    <3> QED BY <3>1, <3>2 DEF Surjection
  <2> QED BY <2>1, <2>2, FS_Surjection
<1>3. IsFiniteSet(Inbox)
  <2>1. IsFiniteSet(WorkEvents \X Users)
    BY <1>2, FiniteAssumption, FS_Product
  <2>2. inbox_ \in Surjection(WorkEvents \X Users, Inbox)
    <3>1. inbox_ \in [WorkEvents \X Users -> Inbox]
      BY DEF Inbox
    <3>2. \A n \in Inbox : <<n.of, n.user>> \in WorkEvents \X Users /\ inbox_[<<n.of, n.user>>] = n
      BY DEF Inbox
    <3> QED BY <3>1, <3>2 DEF Surjection
  <2> QED BY <2>1, <2>2, FS_Surjection
<1>4. IsFiniteSet(NoteEvents)
  <2>1. IsFiniteSet({1, 2})
    <3>1. IsFiniteSet({1}) /\ IsFiniteSet({2})
      BY FS_Singleton
    <3>2. IsFiniteSet({1} \cup {2})
      BY <3>1, FS_Union
    <3>3. {1, 2} = {1} \cup {2}
      OBVIOUS
    <3> QED BY <3>2, <3>3
  <2>2. IsFiniteSet(Inbox \X {1, 2})
    BY <1>3, <2>1, FS_Product
  <2>3. note_ \in Surjection(Inbox \X {1, 2}, NoteEvents)
    <3>1. note_ \in [Inbox \X {1, 2} -> NoteEvents]
      BY DEF NoteEvents
    <3>2. \A e \in NoteEvents : <<e.note, e.version>> \in Inbox \X {1, 2} /\ note_[<<e.note, e.version>>] = e
      BY DEF NoteEvents
    <3> QED BY <3>1, <3>2 DEF Surjection
  <2> QED BY <2>2, <2>3, FS_Surjection
<1> QED BY <1>2, <1>4, FS_Union DEF Events

LEMMA StampType == Stamp \in Nat
<1>1. {e \in Events : outbox[e] # Null} \in SUBSET Events
  OBVIOUS
<1> QED BY <1>1, EventsAreFinite, FS_Subset, FS_CardinalityType DEF Stamp

LEMMA RowType == \A s \in Nat :
  Row(s) \in OutboxRow /\ Row(s) # Null /\ Row(s).status = "PENDING"
  BY NullAssumption DEF Row, OutboxRow

\* Whom an event concerns: users, and nobody unless it is about a work item.
LEMMA RecipientsType ==
  ASSUME TypeOK, InOrder, NEW e \in Events, outbox[e] # Null
  PROVE  /\ Recipients(e) \in SUBSET Users
         /\ Recipients(e) # {} => e \in WorkEvents
<1>1. CASE Policy(e) = "NONE"
  BY <1>1 DEF Recipients
<1>2. CASE Policy(e) # "NONE"
  <2>1. e \in WorkEvents
    BY <1>2 DEF Policy, Events
  <2>2. /\ e.item \in Items /\ e.version \in 1 .. Len(Life)
        /\ version[e.item] \in 1 .. Len(Life)
    BY <2>1, LifeAssumption DEF InOrder, WorkEvents, TypeOK
  <2> DEFINE Step == [type: AssigneeEvents \cup ReviewerEvents \cup SilentEvents,
                      actor: Users, assignee: Users \cup {Null}]
  <2>3. Life[version[e.item]] \in Step
    BY <2>2, LifeAssumption, ElementOfSeq
  <2>4. Life[version[e.item]].assignee \in Users \cup {Null}
    BY <2>3
  <2> QED BY <2>1, <2>4 DEF Recipients
<1> QED BY <1>1, <1>2

-----------------------------------------------------------------------------
(* The start, and what a step leaves alone *)

LEMMA NotifyInitially == Init => NotifyInv
<1> SUFFICES ASSUME Init PROVE NotifyInv
  OBVIOUS
<1>1. TypeOK
  BY GrantsAssumption, LifeAssumption, LenProperties DEF Init, TypeOK
<1>2. Locked /\ Addressed /\ InOrder
  BY LifeAssumption, LenProperties DEF Init, Locked, Addressed, InOrder, Events, WorkEvents
<1>3. ReceiptTellsDelivery
  <2> SUFFICES ASSUME NEW e \in Events
               PROVE  receipts[e] = Null /\ outbox[e] = Null /\ Told(e) = {}
    BY NullAssumption DEF ReceiptTellsDelivery, Outcomes
  <2>1. \A u \in Users : e \in WorkEvents => [of |-> e, user |-> u] \in Inbox
    BY DEF Inbox
  <2> QED BY <2>1 DEF Init, Told
<1>4. NotesHaveTheirEvents
  BY DEF Init, NotesHaveTheirEvents, Events, NoteEvents
<1>5. OneReading
  BY DEF Init, OneReading, FirstReadings
<1> QED BY <1>1, <1>2, <1>3, <1>4, <1>5 DEF NotifyInv

\* A step that writes none of these tables keeps what they tell.
LEMMA StoryKept ==
  ASSUME NotifyInv, UNCHANGED <<version, outbox, receipts, notes, records>>
  PROVE  InOrder' /\ ReceiptTellsDelivery' /\ NotesHaveTheirEvents' /\ OneReading'
  BY DEF NotifyInv, InOrder, ReceiptTellsDelivery, Told, Policy, NotesHaveTheirEvents,
         OneReading, FirstReadings

-----------------------------------------------------------------------------
(* The transactions that fill the outbox *)

LEMMA BeginKeeps ==
  ASSUME NotifyInv, NEW t \in Mutations, BeginMutation(t)
  PROVE  NotifyInv'
<1>1. PICK i \in Items : mutation' = [mutation EXCEPT ![t] = [item |-> i, stamp |-> Stamp]]
  BY DEF BeginMutation
<1>2. [item |-> i, stamp |-> Stamp] \in Mutation
  BY StampType DEF Mutation
<1>3. TypeOK' /\ Locked' /\ Addressed'
  BY <1>1, <1>2 DEF BeginMutation, consumer, inbox, NotifyInv, TypeOK, Locked, Addressed
<1> QED BY <1>3, StoryKept DEF BeginMutation, consumer, inbox, NotifyInv

LEMMA RollbackKeeps ==
  ASSUME NotifyInv, NEW t \in Mutations, RollbackMutation(t)
  PROVE  NotifyInv'
<1>1. TypeOK' /\ Locked' /\ Addressed'
  BY DEF RollbackMutation, consumer, inbox, NotifyInv, TypeOK, Locked, Addressed
<1> QED BY <1>1, StoryKept DEF RollbackMutation, consumer, inbox, NotifyInv

LEMMA RevokeKeeps ==
  ASSUME NotifyInv, NEW g \in Revocable, RevokeGrant(g)
  PROVE  NotifyInv'
<1>1. TypeOK' /\ Locked' /\ Addressed'
  BY DEF RevokeGrant, work, consumer, inbox, NotifyInv, TypeOK, Locked, Addressed
<1> QED BY <1>1, StoryKept DEF RevokeGrant, work, consumer, inbox, NotifyInv

\* The event of the next version is not there yet, so nobody has it locked.
LEMMA CommitKeeps ==
  ASSUME NotifyInv, NEW t \in Mutations, CommitMutation(t)
  PROVE  NotifyInv'
<1> DEFINE i == mutation[t].item
           next == version[i] + 1
           e == [item |-> i, version |-> next]
           row == Row(mutation[t].stamp)
<1>1. /\ i \in Items /\ mutation[t].stamp \in Nat
      /\ version[i] \in Nat /\ next \in 1 .. Len(Life)
  BY LifeAssumption, LenProperties DEF CommitMutation, NotifyInv, TypeOK, Mutation
<1>2. e \in WorkEvents /\ e \in Events /\ e.item = i /\ e.version = next
  BY <1>1 DEF WorkEvents, Events
<1>3. row \in OutboxRow /\ row # Null /\ row.status = "PENDING"
  BY <1>1, RowType
<1>4. /\ version' = [version EXCEPT ![i] = next]
      /\ outbox' = [outbox EXCEPT ![e] = row]
      /\ mutation' = [mutation EXCEPT ![t] = Null]
      /\ UNCHANGED <<receipts, notes, grants, pc, claim, recipients, reading, records>>
  BY DEF CommitMutation, consumer, inbox
<1>5. outbox[e] = Null
  BY <1>1, <1>2 DEF NotifyInv, InOrder
<1> HIDE DEF e, row
<1>6. outbox' \in [Events -> OutboxRow \cup {Null}] /\ version' \in [Items -> 0 .. Len(Life)]
  BY <1>1, <1>2, <1>3, <1>4, LifeAssumption, LenProperties DEF NotifyInv, TypeOK
<1>7. TypeOK'
  BY <1>4, <1>6 DEF NotifyInv, TypeOK
<1>8. outbox'[e] = row /\ \A d \in Events \ {e} : outbox'[d] = outbox[d]
  BY <1>2, <1>4 DEF NotifyInv, TypeOK
<1>9. \A r \in Runs : claim[r] # Null => claim[r].event \in Events
  BY DEF NotifyInv, TypeOK, Claimed
<1>10. Locked'
  BY <1>4, <1>5, <1>8, <1>9 DEF NotifyInv, Locked
<1>11. Addressed'
  BY <1>4 DEF NotifyInv, Addressed
<1>12. InOrder'
  <2> SUFFICES ASSUME NEW d \in WorkEvents
               PROVE  (outbox'[d] # Null) <=> (d.version <= version'[d.item])
    BY DEF InOrder
  <2>1. d \in Events /\ d.item \in Items /\ d.version \in Nat /\ version[d.item] \in Nat
    BY LifeAssumption, LenProperties DEF Events, WorkEvents, NotifyInv, TypeOK
  <2>2. CASE d = e
    BY <1>1, <1>2, <1>3, <1>4, <1>8, <2>2 DEF NotifyInv, TypeOK
  <2>3. CASE d # e
    <3>1. (outbox'[d] # Null) <=> (d.version <= version[d.item])
      BY <1>8, <2>1, <2>3 DEF NotifyInv, InOrder
    <3>2. CASE d.item # i
      BY <1>1, <1>4, <2>1, <3>1, <3>2 DEF NotifyInv, TypeOK
    <3>3. CASE d.item = i
      <4>1. d.version # next
        BY <2>3, <3>3 DEF WorkEvents, e
      <4> QED BY <1>1, <1>4, <2>1, <3>1, <3>3, <4>1 DEF NotifyInv, TypeOK
    <3> QED BY <3>2, <3>3
  <2> QED BY <2>2, <2>3
<1>13. ReceiptTellsDelivery'
  BY <1>2, <1>3, <1>4, <1>5, <1>8 DEF NotifyInv, ReceiptTellsDelivery, Told, Policy
<1>14. NotesHaveTheirEvents'
  <2>1. \A n \in Inbox, v \in {1, 2} : [note |-> n, version |-> v] \in Events \ {e}
    BY <1>2, WorkOrNote DEF Events, NoteEvents
  <2> QED BY <1>4, <1>8, <2>1 DEF NotifyInv, NotesHaveTheirEvents
<1>15. OneReading'
  BY <1>4 DEF NotifyInv, OneReading, FirstReadings
<1> QED BY <1>7, <1>10, <1>11, <1>12, <1>13, <1>14, <1>15 DEF NotifyInv

-----------------------------------------------------------------------------
(* The consumer *)

LEMMA TickKeepsNotes ==
  ASSUME NotifyInv, NEW r \in Runs, Tick(r)
  PROVE  NotifyInv'
<1>1. TypeOK' /\ Locked' /\ Addressed'
  BY DEF Tick, work, inbox, NotifyInv, TypeOK, Locked, Addressed
<1> QED BY <1>1, StoryKept DEF Tick, work, inbox, NotifyInv

LEMMA FinishKeeps ==
  ASSUME NotifyInv, NEW r \in Runs, Finish(r)
  PROVE  NotifyInv'
<1>1. TypeOK' /\ Locked' /\ Addressed'
  BY DEF Finish, work, inbox, NotifyInv, TypeOK, Locked, Addressed
<1> QED BY <1>1, StoryKept DEF Finish, work, inbox, NotifyInv

\* SKIP LOCKED: the event is locked by no other run.
LEMMA ClaimKeeps ==
  ASSUME NotifyInv, NEW r \in Runs, Claim(r)
  PROVE  NotifyInv'
<1>1. PICK e \in Free : claim' = [claim EXCEPT ![r] = [event |-> e, stamp |-> Stamp]]
  BY DEF Claim
<1> DEFINE c == [event |-> e, stamp |-> Stamp]
<1>2. /\ e \in Events /\ outbox[e] # Null /\ outbox[e].status = "PENDING"
      /\ \A o \in Runs : claim[o] # Null => claim[o].event # e
  BY <1>1 DEF Free, Pending, Unlocked
<1>3. c \in Claimed /\ c # Null /\ c.event = e
  BY <1>2, StampType, NullAssumption DEF Claimed
<1>4. /\ claim' = [claim EXCEPT ![r] = c]
      /\ pc[r] = "looking" /\ pc' = [pc EXCEPT ![r] = "claimed"]
      /\ UNCHANGED <<version, mutation, outbox, receipts, notes, grants, recipients,
                     reading, records>>
  BY <1>1 DEF Claim, work, inbox
<1> HIDE DEF c
<1>5. TypeOK'
  BY <1>3, <1>4 DEF NotifyInv, TypeOK
<1>6. Locked'
  BY <1>2, <1>3, <1>4 DEF NotifyInv, TypeOK, Locked
<1>7. Addressed'
  BY <1>4 DEF NotifyInv, TypeOK, Addressed
<1> QED BY <1>4, <1>5, <1>6, <1>7, StoryKept DEF NotifyInv

LEMMA ResolveKeeps ==
  ASSUME NotifyInv, NEW r \in Runs, Resolve(r)
  PROVE  NotifyInv'
<1> DEFINE e == claim[r].event
           whom == Recipients(e)
<1>1. claim[r] # Null /\ e \in Events /\ outbox[e] # Null
  BY DEF Resolve, NotifyInv, TypeOK, Locked, Claimed
<1>2. whom \in SUBSET Users /\ (whom # {} => e \in WorkEvents)
  BY <1>1, RecipientsType DEF NotifyInv
<1>3. /\ recipients' = [recipients EXCEPT ![r] = whom]
      /\ pc[r] = "claimed" /\ pc' = [pc EXCEPT ![r] = "resolved"]
      /\ UNCHANGED <<version, mutation, outbox, receipts, notes, grants, claim, reading, records>>
  BY DEF Resolve, work, inbox
<1> HIDE DEF whom
<1>4. TypeOK'
  BY <1>2, <1>3 DEF NotifyInv, TypeOK
<1>5. Locked' /\ Addressed'
  BY <1>2, <1>3 DEF NotifyInv, TypeOK, Locked, Addressed
<1> QED BY <1>3, <1>4, <1>5, StoryKept DEF NotifyInv

LEMMA FailRunKeeps ==
  ASSUME NotifyInv, NEW r \in Runs, FailRun(r)
  PROVE  NotifyInv'
<1>1. TypeOK' /\ Locked' /\ Addressed'
  BY DEF FailRun, work, inbox, NotifyInv, TypeOK, Locked, Addressed
<1> QED BY <1>1, StoryKept DEF FailRun, work, inbox, NotifyInv

\* The notifications that Deliver inserts.
Inserted(r) ==
  {n \in [of: {claim[r].event} \cap WorkEvents, user: recipients[r]] : notes[n] = 0}

\* Of an event that is locked and PENDING nobody has been notified, so that every
\* notification that Deliver inserts is new, and its event with it.
LEMMA DeliverInserts ==
  ASSUME NotifyInv, NEW r \in Runs, Deliver(r)
  PROVE  /\ claim[r].event \in Events /\ claim[r].stamp \in Nat
         /\ outbox[claim[r].event] \in OutboxRow
         /\ outbox[claim[r].event].status = "PENDING"
         /\ receipts[claim[r].event] = Null /\ Told(claim[r].event) = {}
         /\ Inserted(r) \subseteq Inbox
         /\ \A n \in Inbox :
              n \in Inserted(r) <=> n.of = claim[r].event /\ n.user \in recipients[r]
         /\ \A n \in Inserted(r) : notes[n] = 0
         /\ recipients[r] # {} => claim[r].event \in WorkEvents
<1> DEFINE e == claim[r].event
           new == Inserted(r)
<1>1. claim[r] # Null /\ claim[r] \in Claimed
  BY DEF Deliver, NotifyInv, TypeOK, Locked
<1>2. /\ e \in Events /\ claim[r].stamp \in Nat
      /\ outbox[e] \in OutboxRow /\ outbox[e].status = "PENDING"
  BY <1>1 DEF NotifyInv, TypeOK, Locked, Claimed
<1>3. receipts[e] = Null /\ Told(e) = {}
  <2>1. receipts[e] = Null
    BY <1>2 DEF NotifyInv, ReceiptTellsDelivery
  <2> QED BY <1>2, <2>1, NullAssumption DEF NotifyInv, ReceiptTellsDelivery, Outcomes
<1>4. recipients[r] \subseteq Users /\ (recipients[r] # {} => e \in WorkEvents)
  BY DEF NotifyInv, TypeOK, Addressed
<1>5. new \subseteq Inbox
  BY <1>4 DEF Inbox, Inserted
<1>6. ASSUME NEW n \in Inbox, n.of = e, n.user \in recipients[r] PROVE n \in new
  <2>1. e \in WorkEvents /\ n.user \in Users
    BY <1>4, <1>6
  <2>2. n = [of |-> e, user |-> n.user]
    BY <1>6 DEF Inbox
  <2>3. notes[n] \in 0 .. 2 /\ ~(notes[n] > 0)
    BY <1>3, <2>1, <2>2 DEF Told, NotifyInv, TypeOK
  <2>4. n \in [of: {e} \cap WorkEvents, user: recipients[r]]
    BY <1>6, <2>1, <2>2
  <2> QED BY <2>3, <2>4 DEF Inserted
<1>7. \A n \in new : n.of = e /\ n.user \in recipients[r] /\ notes[n] = 0
  BY DEF Inserted
<1> QED BY <1>2, <1>3, <1>4, <1>5, <1>6, <1>7

LEMMA DeliverKeeps ==
  ASSUME NotifyInv, NEW r \in Runs, Deliver(r)
  PROVE  NotifyInv'
<1> DEFINE e == claim[r].event
           new == Inserted(r)
           created == [note: new, version: {1}]
           done == [outbox[e] EXCEPT !.status = "PROCESSED"]
           row == Row(claim[r].stamp)
           outcome == Outcome(e, recipients[r])
<1>1. /\ e \in Events /\ claim[r].stamp \in Nat
      /\ outbox[e] \in OutboxRow /\ outbox[e] # Null /\ outbox[e].status = "PENDING"
      /\ receipts[e] = Null /\ Told(e) = {}
      /\ new \subseteq Inbox
      /\ \A n \in Inbox : n \in new <=> n.of = e /\ n.user \in recipients[r]
      /\ \A n \in new : notes[n] = 0
      /\ recipients[r] # {} => e \in WorkEvents
  BY DeliverInserts, NullAssumption
<1>2. /\ receipts' = [receipts EXCEPT ![e] = outcome]
      /\ notes' = [n \in Inbox |-> IF n \in new THEN 1 ELSE notes[n]]
      /\ outbox' = [d \in Events |->
           IF d = e THEN done ELSE IF d \in created THEN row ELSE outbox[d]]
      /\ claim' = [claim EXCEPT ![r] = Null]
      /\ recipients' = [recipients EXCEPT ![r] = {}]
      /\ pc[r] = "resolved" /\ pc' = [pc EXCEPT ![r] = "looking"]
      /\ UNCHANGED <<version, mutation, grants, reading, records>>
  BY <1>1 DEF Deliver, work, inbox, Inserted
<1>3. done \in OutboxRow /\ done.status = "PROCESSED" /\ done # Null
  BY <1>1, NullAssumption DEF OutboxRow
<1>4. row \in OutboxRow /\ row # Null /\ row.status = "PENDING"
  BY <1>1, RowType
<1>5. /\ outcome \in Outcomes /\ outcome # Null
      /\ recipients[r] # {} => outcome = "APPLIED"
      /\ (outcome = "APPLIED" /\ Policy(e) # "NONE") => recipients[r] # {}
  BY NullAssumption DEF Outcome, Outcomes
<1>6. \A d \in created : /\ d \in NoteEvents /\ d \in Events /\ d # e
                         /\ d.note \in new /\ d.version = 1
                         /\ outbox[d] = Null /\ receipts[d] = Null
  <2> SUFFICES ASSUME NEW d \in created
               PROVE  /\ d \in NoteEvents /\ d \in Events /\ d # e
                      /\ d.note \in new /\ d.version = 1
                      /\ outbox[d] = Null /\ receipts[d] = Null
    OBVIOUS
  <2>1. d = [note |-> d.note, version |-> 1] /\ d.note \in new /\ d.version = 1
    OBVIOUS
  <2>2. d \in NoteEvents /\ d \in Events
    BY <1>1, <2>1 DEF NoteEvents, Events
  <2>3. outbox[d] = Null
    <3>1. ~(notes[d.note] >= 1) /\ d.note \in Inbox
      BY <1>1, <2>1
    <3> QED BY <2>1, <3>1 DEF NotifyInv, NotesHaveTheirEvents
  <2>4. receipts[d] = Null
    BY <2>2, <2>3 DEF NotifyInv, ReceiptTellsDelivery
  <2> QED BY <1>1, <2>1, <2>2, <2>3, <2>4
<1>7. \A n \in new : [note |-> n, version |-> 1] \in created
  OBVIOUS
<1> HIDE DEF e, new, created, done, row, outcome
<1>8. /\ outbox'[e] = done
      /\ \A d \in created : outbox'[d] = row
      /\ \A d \in Events : d # e /\ d \notin created => outbox'[d] = outbox[d]
  BY <1>1, <1>2, <1>6
<1>9. \A n \in Inbox : notes'[n] = IF n \in new THEN 1 ELSE notes[n]
  BY <1>2
<1>10. receipts'[e] = outcome /\ \A d \in Events : d # e => receipts'[d] = receipts[d]
  BY <1>1, <1>2 DEF NotifyInv, TypeOK
<1>11. TypeOK'
  <2>1. outbox' \in [Events -> OutboxRow \cup {Null}]
    BY <1>2, <1>3, <1>4 DEF NotifyInv, TypeOK
  <2>2. notes' \in [Inbox -> 0 .. 2]
    BY <1>2 DEF NotifyInv, TypeOK
  <2>3. receipts' \in [Events -> Outcomes \cup {Null}]
    BY <1>1, <1>2, <1>5 DEF NotifyInv, TypeOK
  <2> QED BY <1>2, <2>1, <2>2, <2>3 DEF NotifyInv, TypeOK
<1>12. Locked'
  <2>1. \A o \in Runs : o # r /\ claim[o] # Null =>
          /\ claim[o].event \in Events /\ claim[o].event # e
          /\ outbox[claim[o].event] # Null
    BY <1>2 DEF NotifyInv, Locked, TypeOK, Claimed, e
  <2>2. \A o \in Runs : o # r /\ claim[o] # Null =>
          outbox'[claim[o].event] = outbox[claim[o].event]
    BY <1>6, <1>8, <2>1
  <2>3. \A o \in Runs : claim'[o] # Null => o # r /\ claim'[o] = claim[o]
    BY <1>2 DEF NotifyInv, TypeOK
  <2> QED BY <1>2, <2>2, <2>3 DEF NotifyInv, TypeOK, Locked
<1>13. Addressed'
  BY <1>2 DEF NotifyInv, TypeOK, Addressed
<1>14. InOrder'
  <2>1. \A d \in WorkEvents : d \in Events /\ (outbox'[d] # Null <=> outbox[d] # Null)
    BY <1>1, <1>3, <1>6, <1>8, WorkOrNote DEF Events
  <2> QED BY <1>2, <2>1 DEF NotifyInv, InOrder
<1>15. ReceiptTellsDelivery'
  <2> SUFFICES ASSUME NEW d \in Events
               PROVE /\ (receipts'[d] # Null) <=> (outbox'[d] # Null /\ outbox'[d].status = "PROCESSED")
                     /\ Told(d)' # {} => receipts'[d] = "APPLIED"
                     /\ (receipts'[d] = "APPLIED" /\ Policy(d) # "NONE") => Told(d)' # {}
    BY DEF ReceiptTellsDelivery, Policy
  <2>0. \A u \in Users : d \in WorkEvents =>
          /\ [of |-> d, user |-> u] \in Inbox
          /\ [of |-> d, user |-> u] \in new <=> d = e /\ u \in recipients[r]
    BY <1>1 DEF Inbox
  <2>1. CASE d = e
    <3>1. Told(d)' # {} <=> recipients[r] # {}
      <4>1. \A u \in Users : d \in WorkEvents => ~(notes[[of |-> d, user |-> u]] > 0)
        BY <1>1, <2>1 DEF Told
      <4>2. Told(d)' = {u \in recipients[r] : d \in WorkEvents}
        BY <1>9, <2>0, <2>1, <4>1 DEF Told, NotifyInv, TypeOK
      <4> QED BY <1>1, <2>1, <4>2
    <3> QED BY <1>3, <1>5, <1>8, <1>10, <2>1, <3>1
  <2>2. CASE d \in created
    <3>1. d \notin WorkEvents /\ receipts'[d] = Null /\ outbox'[d] = row
      BY <1>6, <1>8, <1>10, <2>2, WorkOrNote
    <3> QED BY <1>4, <3>1, NullAssumption DEF Told, Outcomes
  <2>3. CASE d # e /\ d \notin created
    <3>1. Told(d)' = Told(d)
      BY <1>9, <2>0, <2>3 DEF Told
    <3> QED BY <1>8, <1>10, <2>3, <3>1 DEF NotifyInv, ReceiptTellsDelivery
  <2> QED BY <2>1, <2>2, <2>3
<1>16. NotesHaveTheirEvents'
  <2> SUFFICES ASSUME NEW n \in Inbox, NEW v \in {1, 2}
               PROVE (notes'[n] >= v) <=> (outbox'[[note |-> n, version |-> v]] # Null)
    BY DEF NotesHaveTheirEvents
  <2> DEFINE d == [note |-> n, version |-> v]
  <2>1. d \in NoteEvents /\ d \in Events /\ d.note = n /\ d.version = v
    BY DEF NoteEvents, Events
  <2>2. (notes[n] >= v) <=> (outbox[d] # Null)
    BY DEF NotifyInv, NotesHaveTheirEvents
  <2>3. CASE n \in new
    <3>1. e \in WorkEvents /\ notes[n] = 0
      BY <1>1, <2>3
    <3>2. d # e /\ outbox[d] = Null
      BY <2>1, <2>2, <3>1, WorkOrNote
    <3>3. CASE v = 1
      <4>1. d \in created
        BY <1>7, <2>3, <3>3
      <4> QED BY <1>4, <1>8, <1>9, <2>3, <3>3, <4>1
    <3>4. CASE v = 2
      <4>1. d \notin created
        BY <1>6, <2>1, <3>4
      <4> QED BY <1>8, <1>9, <2>1, <2>3, <3>2, <3>4, <4>1
    <3> QED BY <3>3, <3>4
  <2>4. CASE n \notin new
    <3>1. d \notin created
      BY <1>6, <2>1, <2>4
    <3>2. outbox'[d] # Null <=> outbox[d] # Null
      BY <1>1, <1>3, <1>8, <2>1, <3>1
    <3> QED BY <1>9, <2>2, <2>4, <3>2
  <2> QED BY <2>3, <2>4
<1>17. OneReading'
  <2>1. \A n \in Inbox : notes'[n] = 2 <=> notes[n] = 2
    BY <1>1, <1>9
  <2> QED BY <1>2, <2>1 DEF NotifyInv, OneReading, FirstReadings
<1> QED BY <1>11, <1>12, <1>13, <1>14, <1>15, <1>16, <1>17 DEF NotifyInv

-----------------------------------------------------------------------------
(* The readers *)

\* Most steps of a reader change his request and nothing else.
LEMMA OnlyReading ==
  ASSUME NotifyInv, NEW d \in Readers, NEW q \in Reading \cup {Null},
         reading' = [reading EXCEPT ![d] = q],
         UNCHANGED <<work, outbox, receipts, notes, grants, consumer, records>>
  PROVE  NotifyInv'
<1>1. TypeOK' /\ Locked' /\ Addressed'
  BY DEF work, consumer, NotifyInv, TypeOK, Locked, Addressed
<1> QED BY <1>1, StoryKept DEF work, consumer, NotifyInv

LEMMA ReplyType ==
  ASSUME NotifyInv, NEW d \in Readers, reading[d] # Null,
         NEW code \in {"sent", "authorized"} \cup Replies, ReplyTo(d, code)
  PROVE  \E q \in Reading : reading' = [reading EXCEPT ![d] = q]
<1>1. reading[d] \in Reading
  BY DEF NotifyInv, TypeOK
<1>2. [reading[d] EXCEPT !.step = code] \in Reading
  BY <1>1 DEF Reading
<1>3. reading' = [reading EXCEPT ![d] = [reading[d] EXCEPT !.step = code]]
  BY DEF ReplyTo
<1> QED BY <1>2, <1>3

LEMMA SendReadKeeps ==
  ASSUME NotifyInv, NEW d \in Readers, SendRead(d)
  PROVE  NotifyInv'
<1>1. PICK n \in Inbox, k \in Keys :
        /\ notes[n] > 0
        /\ reading' = [reading EXCEPT ![d] =
             [note |-> n, key |-> k, expected |-> notes[n], step |-> "sent",
              granted |-> FALSE, stamp |-> 0]]
  BY DEF SendRead
<1>2. notes[n] \in {1, 2}
  BY <1>1 DEF NotifyInv, TypeOK
<1>3. [note |-> n, key |-> k, expected |-> notes[n], step |-> "sent",
       granted |-> FALSE, stamp |-> 0] \in Reading
  BY <1>2 DEF Reading
<1> QED BY <1>1, <1>3, OnlyReading DEF SendRead

LEMMA ReadGrantsKeeps ==
  ASSUME NotifyInv, NEW d \in Readers, ReadGrants(d)
  PROVE  NotifyInv'
<1> DEFINE seen == \E role \in Roles : <<reading[d].note.user, role>> \in grants
           now == Stamp
           q == [reading[d] EXCEPT !.step = "authorized", !.granted = seen, !.stamp = now]
<1>1. reading[d] \in Reading /\ now \in Nat /\ seen \in BOOLEAN
  BY StampType DEF ReadGrants, NotifyInv, TypeOK
<1>2. reading' = [reading EXCEPT ![d] = q]
  BY DEF ReadGrants
<1> HIDE DEF seen, now
<1>3. q \in Reading
  BY <1>1 DEF Reading
<1> HIDE DEF q
<1> QED BY <1>2, <1>3, OnlyReading DEF ReadGrants

LEMMA AnswerReadKeeps ==
  ASSUME NotifyInv, NEW d \in Readers, AnswerRead(d)
  PROVE  NotifyInv'
<1>1. \E code \in Replies : ReplyTo(d, code)
  BY DEF AnswerRead, Replies
<1>2. reading[d] # Null
  BY DEF AnswerRead
<1>3. \E q \in Reading : reading' = [reading EXCEPT ![d] = q]
  BY <1>1, <1>2, ReplyType
<1> QED BY <1>3, OnlyReading DEF AnswerRead

LEMMA FailReadKeeps ==
  ASSUME NotifyInv, NEW d \in Readers, FailRead(d)
  PROVE  NotifyInv'
<1>1. ReplyTo(d, "UNAVAILABLE") /\ reading[d] # Null /\ "UNAVAILABLE" \in Replies
  BY DEF FailRead, Replies
<1>2. \E q \in Reading : reading' = [reading EXCEPT ![d] = q]
  BY <1>1, ReplyType
<1> QED BY <1>2, OnlyReading DEF FailRead

LEMMA RetryReadKeeps ==
  ASSUME NotifyInv, NEW d \in Readers, RetryRead(d)
  PROVE  NotifyInv'
<1> DEFINE q == [reading[d] EXCEPT !.step = "sent", !.granted = FALSE, !.stamp = 0]
<1>1. reading[d] \in Reading
  BY DEF RetryRead, NotifyInv, TypeOK
<1>2. q \in Reading
  BY <1>1 DEF Reading
<1>3. reading' = [reading EXCEPT ![d] = q]
  BY DEF RetryRead
<1> HIDE DEF q
<1> QED BY <1>2, <1>3, OnlyReading DEF RetryRead

LEMMA ReceiveReadKeeps ==
  ASSUME NotifyInv, NEW d \in Readers, ReceiveRead(d)
  PROVE  NotifyInv'
  BY OnlyReading DEF ReceiveRead

\* A reader who finds the version that he saw, and not yet read, finds the version 1.
LEMMA MarkReadWrites ==
  ASSUME NotifyInv, NEW q \in Reading, notes[q.note] = q.expected,
         ~AlreadyRead(q.note), MarkRead(q)
  PROVE  LET e == [note |-> q.note, version |-> 2]
         IN  /\ q.note \in Inbox /\ notes[q.note] = 1 /\ q.expected = 1
             /\ e \in NoteEvents /\ e \in Events /\ outbox[e] = Null /\ receipts[e] = Null
             /\ notes' = [notes EXCEPT ![q.note] = 2]
             /\ outbox' = [outbox EXCEPT ![e] = Row(q.stamp)]
<1>1. q.note \in Inbox /\ notes[q.note] = 1 /\ q.expected = 1
  BY DEF Reading, AlreadyRead
<1>2. notes' = [notes EXCEPT ![q.note] = 2] /\ notes'[q.note] = 2
  BY <1>1 DEF MarkRead, NotifyInv, TypeOK
<1> DEFINE e == [note |-> q.note, version |-> 2]
<1>3. e \in NoteEvents /\ e \in Events
  BY <1>1 DEF NoteEvents, Events
<1>4. outbox[e] = Null
  <2>1. (notes[q.note] >= 2) <=> (outbox[e] # Null)
    BY <1>1 DEF NotifyInv, NotesHaveTheirEvents
  <2> QED BY <1>1, <2>1
<1>5. receipts[e] = Null
  BY <1>3, <1>4 DEF NotifyInv, ReceiptTellsDelivery
<1>6. outbox' = [outbox EXCEPT ![e] = Row(q.stamp)]
  BY <1>2 DEF MarkRead
<1> QED BY <1>1, <1>2, <1>3, <1>4, <1>5, <1>6

LEMMA ReadKeeps ==
  ASSUME NotifyInv, NEW d \in Readers, ReadNotification(d)
  PROVE  NotifyInv'
<1> DEFINE q == reading[d]
           k == <<q.note.user, q.key>>
           record == [note |-> q.note, expected |-> q.expected]
<1>1. /\ q \in Reading /\ q.note \in Inbox /\ q.expected \in {1, 2} /\ q.stamp \in Nat
      /\ k \in Users \X Keys /\ record \in ReadRecord /\ record # Null
      /\ record.note = q.note /\ record.expected = q.expected
  BY NullAssumption DEF ReadNotification, NotifyInv, TypeOK, Reading, Inbox, ReadRecord
<1>2. /\ records[k] = Null /\ notes[q.note] = q.expected
      /\ records' = [records EXCEPT ![k] = record]
      /\ UNCHANGED <<version, mutation, receipts, grants, pc, claim, recipients>>
  BY DEF ReadNotification, MayRead, Saved, work, consumer
<1>3. \E z \in Reading : reading' = [reading EXCEPT ![d] = z]
  BY ReplyType DEF ReadNotification, Replies
<1> HIDE DEF k, record
<1>4. /\ records'[k] = record
      /\ DOMAIN records' = Users \X Keys /\ DOMAIN records = Users \X Keys
      /\ \A o \in Users \X Keys : o # k => records'[o] = records[o]
  BY <1>1, <1>2 DEF NotifyInv, TypeOK
<1>5. /\ reading' \in [Readers -> Reading \cup {Null}]
      /\ records' \in [Users \X Keys -> ReadRecord \cup {Null}]
  BY <1>1, <1>2, <1>3 DEF NotifyInv, TypeOK
<1>6. CASE AlreadyRead(q.note)
  <2>1. UNCHANGED <<notes, outbox>>
    BY <1>6 DEF ReadNotification
  <2>2. TypeOK'
    BY <1>2, <1>5, <2>1 DEF NotifyInv, TypeOK
  <2>3. Locked' /\ Addressed' /\ InOrder' /\ ReceiptTellsDelivery' /\ NotesHaveTheirEvents'
    BY <1>2, <2>1 DEF NotifyInv, Locked, Addressed, InOrder, ReceiptTellsDelivery, Told, Policy,
                      NotesHaveTheirEvents
  <2>4. q.expected # 1
    BY <1>2, <1>6 DEF AlreadyRead
  <2>5. \A n \in Inbox : FirstReadings(n)' = FirstReadings(n)
    BY <1>1, <1>2, <1>4, <2>4 DEF FirstReadings
  <2>6. OneReading'
    BY <1>4, <2>1, <2>5 DEF NotifyInv, OneReading
  <2> QED BY <2>2, <2>3, <2>6 DEF NotifyInv
<1>7. CASE ~AlreadyRead(q.note)
  <2> DEFINE e == [note |-> q.note, version |-> 2]
             row == Row(q.stamp)
  <2>1. /\ notes[q.note] = 1 /\ q.expected = 1
        /\ e \in NoteEvents /\ e \in Events /\ outbox[e] = Null /\ receipts[e] = Null
        /\ notes' = [notes EXCEPT ![q.note] = 2]
        /\ outbox' = [outbox EXCEPT ![e] = row]
    BY <1>1, <1>2, <1>7, MarkReadWrites DEF ReadNotification
  <2>2. row \in OutboxRow /\ row # Null /\ row.status = "PENDING"
    BY <1>1, RowType
  <2>3. e.note = q.note /\ e.version = 2
    OBVIOUS
  <2> HIDE DEF e, row
  <2>4. outbox'[e] = row /\ \A o \in Events : o # e => outbox'[o] = outbox[o]
    BY <2>1 DEF NotifyInv, TypeOK
  <2>5. notes'[q.note] = 2 /\ \A n \in Inbox : n # q.note => notes'[n] = notes[n]
    BY <1>1, <2>1 DEF NotifyInv, TypeOK
  <2>6. TypeOK'
    <3>1. outbox' \in [Events -> OutboxRow \cup {Null}] /\ notes' \in [Inbox -> 0 .. 2]
      BY <1>1, <2>1, <2>2 DEF NotifyInv, TypeOK
    <3> QED BY <1>2, <1>5, <3>1 DEF NotifyInv, TypeOK
  <2>7. Locked'
    <3>1. \A r \in Runs : claim[r] # Null => claim[r].event \in Events
      BY DEF NotifyInv, TypeOK, Claimed
    <3> QED BY <1>2, <2>1, <2>4, <3>1 DEF NotifyInv, Locked
  <2>8. Addressed'
    BY <1>2 DEF NotifyInv, Addressed
  <2>9. InOrder'
    BY <1>2, <2>1, <2>4, WorkOrNote DEF NotifyInv, InOrder, Events
  <2>10. ReceiptTellsDelivery'
    <3>1. \A o \in Events : Told(o)' = Told(o)
      <4>1. \A n \in Inbox : notes'[n] > 0 <=> notes[n] > 0
        BY <2>1, <2>5
      <4>2. \A o \in WorkEvents, u \in Users : [of |-> o, user |-> u] \in Inbox
        BY DEF Inbox
      <4> QED BY <4>1, <4>2 DEF Told
    <3> QED BY <1>2, <2>1, <2>2, <2>4, <3>1 DEF NotifyInv, ReceiptTellsDelivery, Policy
  <2>11. NotesHaveTheirEvents'
    <3> SUFFICES ASSUME NEW n \in Inbox, NEW v \in {1, 2}
                 PROVE (notes'[n] >= v) <=> (outbox'[[note |-> n, version |-> v]] # Null)
      BY DEF NotesHaveTheirEvents
    <3> DEFINE o == [note |-> n, version |-> v]
    <3>1. o \in Events /\ o.note = n /\ o.version = v
      BY DEF NoteEvents, Events
    <3>2. (notes[n] >= v) <=> (outbox[o] # Null)
      BY DEF NotifyInv, NotesHaveTheirEvents
    <3>3. CASE n # q.note
      BY <2>3, <2>4, <2>5, <3>1, <3>2, <3>3
    <3>4. CASE n = q.note
      <4>1. CASE v = 1
        BY <2>1, <2>3, <2>4, <2>5, <3>1, <3>2, <3>4, <4>1
      <4>2. CASE v = 2
        <5>1. o = e
          BY <3>4, <4>2 DEF e
        <5> QED BY <2>2, <2>4, <2>5, <3>4, <4>2, <5>1
      <4> QED BY <4>1, <4>2
    <3> QED BY <3>3, <3>4
  <2>12. OneReading'
    <3>0. PICK note \in Inbox : note = q.note
      BY <1>1
    <3>1. FirstReadings(note) = {}
      BY <2>1, <3>0 DEF NotifyInv, OneReading
    <3>2. \E x \in DOMAIN records' : FirstReadings(note)' = {x}
      <4>1. \A o \in Users \X Keys : o # k =>
              ~(records'[o] # Null /\ records'[o].note = note /\ records'[o].expected = 1)
        BY <1>4, <3>1 DEF FirstReadings
      <4>2. records'[k] # Null /\ records'[k].note = note /\ records'[k].expected = 1
        BY <1>1, <1>4, <2>1, <3>0
      <4> QED BY <1>1, <1>4, <4>1, <4>2 DEF FirstReadings
    <3>3. \A n \in Inbox : n # q.note => FirstReadings(n)' = FirstReadings(n)
      BY <1>1, <1>2, <1>4 DEF FirstReadings
    <3> QED BY <1>4, <2>5, <3>0, <3>2, <3>3 DEF NotifyInv, OneReading
  <2> QED BY <2>6, <2>7, <2>8, <2>9, <2>10, <2>11, <2>12 DEF NotifyInv
<1> QED BY <1>6, <1>7

-----------------------------------------------------------------------------
(* The invariant *)

LEMMA NotifyStep == NotifyInv /\ [Next]_vars => NotifyInv'
<1> SUFFICES ASSUME NotifyInv, [Next]_vars PROVE NotifyInv'
  OBVIOUS
<1>1. CASE UNCHANGED vars
  <2>1. TypeOK' /\ Locked' /\ Addressed'
    BY <1>1 DEF vars, work, consumer, inbox, NotifyInv, TypeOK, Locked, Addressed
  <2> QED BY <1>1, <2>1, StoryKept DEF vars, work, consumer, inbox, NotifyInv
<1>2. CASE \E t \in Mutations : BeginMutation(t) \/ CommitMutation(t) \/ RollbackMutation(t)
  BY <1>2, BeginKeeps, CommitKeeps, RollbackKeeps
<1>3. CASE \E g \in Revocable : RevokeGrant(g)
  BY <1>3, RevokeKeeps
<1>4. ASSUME NEW r \in Runs,
             Tick(r) \/ Claim(r) \/ Finish(r) \/ Resolve(r) \/ Deliver(r) \/ FailRun(r)
      PROVE  NotifyInv'
  BY <1>4, TickKeepsNotes, ClaimKeeps, FinishKeeps, ResolveKeeps, DeliverKeeps, FailRunKeeps
<1>5. ASSUME NEW d \in Readers,
             SendRead(d) \/ ReadGrants(d) \/ AnswerRead(d) \/ ReadNotification(d)
               \/ FailRead(d) \/ RetryRead(d) \/ ReceiveRead(d)
      PROVE  NotifyInv'
  BY <1>5, SendReadKeeps, ReadGrantsKeeps, AnswerReadKeeps, ReadKeeps, FailReadKeeps,
     RetryReadKeeps, ReceiveReadKeeps
<1> QED BY <1>1, <1>2, <1>3, <1>4, <1>5 DEF Next

LEMMA NotifyAlways == Spec => []NotifyInv
  BY NotifyInitially, NotifyStep, PTL DEF Spec

LEMMA InvReadOnce == NotifyInv => ReadOnce
<1> SUFFICES ASSUME NotifyInv, NEW n \in Inbox
             PROVE  Cardinality(FirstReadings(n)) = IF notes[n] = 2 THEN 1 ELSE 0
  BY DEF ReadOnce, FirstReadings
<1> QED BY FS_EmptySet, FS_Singleton DEF NotifyInv, OneReading

-----------------------------------------------------------------------------
(* The outbox gives out every event once *)

\* Whom a run has found are users the event may be told to.
Destined ==
  \A r \in Runs : \A u \in recipients[r] :
    claim[r] # Null /\ u \in MayConcern(claim[r].event)

\* The item may be in other hands when the run looks than at the event, but the row it
\* looks at is never that of an earlier version.
LEMMA RecipientsMayConcern ==
  ASSUME NotifyInv, NEW e \in Events, outbox[e] # Null, NEW u \in Recipients(e)
  PROVE  u \in MayConcern(e)
<1>1. Policy(e) # "NONE" /\ e \in WorkEvents
  BY RecipientsType DEF NotifyInv, Recipients
<1>2. /\ e.item \in Items /\ e.version \in 1 .. Len(Life)
      /\ version[e.item] \in e.version .. Len(Life)
  BY <1>1, LifeAssumption, LenProperties DEF NotifyInv, InOrder, WorkEvents, TypeOK
<1>3. u \in Users /\ u # Life[e.version].actor
  BY <1>1, RecipientsType DEF NotifyInv, Recipients
<1>4. grants \subseteq InitialGrants
  BY DEF NotifyInv, TypeOK
<1>5. IF Policy(e) = "ASSIGNEE"
        THEN Life[version[e.item]].assignee = u /\ <<u, "RF">> \in InitialGrants
        ELSE Life[version[e.item]].assignee # u /\ <<u, "REGIONAL_MANAGER">> \in InitialGrants
  BY <1>1, <1>4 DEF Recipients
<1> QED BY <1>1, <1>2, <1>3, <1>5 DEF MayConcern

LEMMA DestinedInitially == Init => Destined
  BY DEF Init, Destined

LEMMA DestinedStep == NotifyInv /\ Destined /\ [Next]_vars => Destined'
<1> SUFFICES ASSUME NotifyInv, Destined, [Next]_vars, NEW o \in Runs, NEW u \in recipients'[o]
             PROVE  claim'[o] # Null /\ u \in MayConcern(claim'[o].event)
  BY DEF Destined, MayConcern, Policy
<1>1. CASE UNCHANGED <<claim, recipients>>
  BY <1>1 DEF Destined
<1>2. ASSUME NEW r \in Runs, Claim(r)
      PROVE  claim'[o] # Null /\ u \in MayConcern(claim'[o].event)
  <2>1. recipients' = recipients /\ pc[r] = "looking"
    BY <1>2 DEF Claim
  <2>2. o # r
    BY <2>1 DEF NotifyInv, Addressed
  <2>3. claim'[o] = claim[o]
    BY <1>2, <2>2 DEF Claim, NotifyInv, TypeOK
  <2> QED BY <2>1, <2>3 DEF Destined
<1>3. ASSUME NEW r \in Runs, Deliver(r) \/ FailRun(r)
      PROVE  claim'[o] # Null /\ u \in MayConcern(claim'[o].event)
  <2>1. /\ recipients' = [recipients EXCEPT ![r] = {}]
        /\ claim' = [claim EXCEPT ![r] = Null]
    BY <1>3 DEF Deliver, FailRun
  <2>2. o # r /\ u \in recipients[o] /\ claim'[o] = claim[o]
    BY <2>1 DEF NotifyInv, TypeOK
  <2> QED BY <2>2 DEF Destined
<1>4. ASSUME NEW r \in Runs, Resolve(r)
      PROVE  claim'[o] # Null /\ u \in MayConcern(claim'[o].event)
  <2>1. /\ recipients' = [recipients EXCEPT ![r] = Recipients(claim[r].event)]
        /\ claim' = claim /\ pc[r] = "claimed"
    BY <1>4 DEF Resolve
  <2>2. CASE o # r
    BY <2>1, <2>2 DEF NotifyInv, TypeOK, Destined
  <2>3. CASE o = r
    <3>1. claim[r] # Null /\ claim[r].event \in Events /\ outbox[claim[r].event] # Null
      BY <2>1 DEF NotifyInv, Locked, TypeOK, Claimed
    <3>2. u \in Recipients(claim[r].event)
      BY <2>1, <2>3 DEF NotifyInv, TypeOK
    <3> QED BY <2>1, <2>3, <3>1, <3>2, RecipientsMayConcern
  <2> QED BY <2>2, <2>3
<1> QED BY <1>1, <1>2, <1>3, <1>4
        DEF Next, vars, consumer, BeginMutation, CommitMutation, RollbackMutation, RevokeGrant,
            Tick, Finish, SendRead, ReadGrants, AnswerRead, ReadNotification, FailRead,
            RetryRead, ReceiveRead

\* The values of the variables of EventDelivery.
ToldNotes == {n \in Inbox : notes[n] > 0}
ReadNotes == {n \in Inbox : notes[n] = 2}
UsedKeys == {k \in Users \X Keys : records[k] # Null}

LEMMA NothingShows ==
  ASSUME UNCHANGED <<outbox, receipts, notes, records>>
  PROVE  UNCHANGED Delivery!vars
  BY DEF Delivery!vars, Pending

\* The COMMIT of a mutation publishes the event of the next version.
LEMMA CommitPublishes ==
  ASSUME NotifyInv, NEW t \in Mutations, CommitMutation(t)
  PROVE  \E e \in WorkEvents : Delivery!Publish(e)
<1> DEFINE i == mutation[t].item
           next == version[i] + 1
           e == [item |-> i, version |-> next]
           row == Row(mutation[t].stamp)
<1>1. /\ i \in Items /\ mutation[t].stamp \in Nat
      /\ version[i] \in Nat /\ next \in 1 .. Len(Life)
  BY LifeAssumption, LenProperties DEF CommitMutation, NotifyInv, TypeOK, Mutation
<1>2. e \in WorkEvents /\ e \in Events /\ e.item = i /\ e.version = next
  BY <1>1 DEF WorkEvents, Events
<1>3. row # Null /\ row.status = "PENDING"
  BY <1>1, RowType
<1>4. /\ outbox' = [outbox EXCEPT ![e] = row]
      /\ UNCHANGED <<receipts, notes, records>>
  BY DEF CommitMutation, consumer, inbox
<1>5. outbox[e] = Null /\ receipts[e] = Null
  BY <1>1, <1>2 DEF NotifyInv, InOrder, ReceiptTellsDelivery
<1>6. ASSUME e.version > 1
      PROVE  LET d == [item |-> e.item, version |-> e.version - 1]
             IN  d \in Pending \/ receipts[d] # Null
  <2> DEFINE d == [item |-> e.item, version |-> e.version - 1]
  <2>1. d \in WorkEvents /\ d.item = i /\ d.version = version[i]
    BY <1>1, <1>2, <1>6, LifeAssumption, LenProperties DEF WorkEvents
  <2>2. d \in Events /\ outbox[d] # Null
    BY <1>1, <2>1 DEF NotifyInv, InOrder, Events
  <2> HIDE DEF d
  <2>3. outbox[d].status \in {"PENDING", "PROCESSED"}
    BY <2>2 DEF NotifyInv, TypeOK, OutboxRow
  <2>4. d \in Pending \/ receipts[d] # Null
    BY <2>2, <2>3 DEF NotifyInv, ReceiptTellsDelivery, Pending
  <2> QED BY <2>4 DEF d
<1> HIDE DEF e, row
<1>7. Pending' = Pending \cup {e}
  BY <1>2, <1>3, <1>4 DEF NotifyInv, TypeOK, Pending
<1>8. e \notin Pending
  BY <1>5 DEF Pending
<1>9. Delivery!Publish(e)
  BY <1>4, <1>5, <1>6, <1>7, <1>8 DEF Delivery!Publish, Delivery!Published
<1> QED BY <1>2, <1>9

\* The COMMIT of a delivery gives one waiting event to the users it was addressed to.
LEMMA DeliverDelivers ==
  ASSUME NotifyInv, Destined, NEW r \in Runs, Deliver(r)
  PROVE  \E e \in Pending : \E users \in SUBSET MayConcern(e) : Delivery!Deliver(e, users)
<1>0. PICK e \in Events, users \in SUBSET Users : e = claim[r].event /\ users = recipients[r]
  BY DeliverInserts DEF NotifyInv, TypeOK
<1> DEFINE new == Inserted(r)
           created == [note: new, version: {1}]
           done == [outbox[e] EXCEPT !.status = "PROCESSED"]
           row == Row(claim[r].stamp)
<1>1. /\ e \in Events /\ claim[r].stamp \in Nat
      /\ outbox[e] \in OutboxRow /\ outbox[e] # Null /\ outbox[e].status = "PENDING"
      /\ receipts[e] = Null /\ Told(e) = {}
      /\ new \subseteq Inbox
      /\ \A n \in Inbox : n \in new <=> n.of = e /\ n.user \in users
      /\ \A n \in new : notes[n] = 0
      /\ users # {} => e \in WorkEvents
  BY <1>0, DeliverInserts, NullAssumption
<1>2. /\ receipts' = [receipts EXCEPT ![e] = Outcome(e, users)]
      /\ notes' = [n \in Inbox |-> IF n \in new THEN 1 ELSE notes[n]]
      /\ outbox' = [d \in Events |->
           IF d = e THEN done ELSE IF d \in created THEN row ELSE outbox[d]]
      /\ records' = records
  BY <1>0, <1>1 DEF Deliver, inbox, Inserted
<1>3. done.status = "PROCESSED" /\ done # Null
  BY <1>1, NullAssumption DEF OutboxRow
<1>4. row # Null /\ row.status = "PENDING"
  BY <1>1, RowType
<1>5. users \subseteq MayConcern(e) /\ users \subseteq Users
  BY <1>0 DEF Destined
<1>6. new = [of: {e}, user: users]
  <2>1. [of: {e}, user: users] \subseteq Inbox
    BY <1>1, <1>5 DEF Inbox
  <2>2. \A n \in [of: {e}, user: users] : n.of = e /\ n.user \in users
    OBVIOUS
  <2>3. \A n \in Inbox : n.of = e /\ n.user \in users => n \in [of: {e}, user: users]
    BY DEF Inbox
  <2> QED BY <1>1, <2>1, <2>2, <2>3
<1>7. created \subseteq Events /\ e \notin created
  <2>1. created \subseteq NoteEvents
    BY <1>1 DEF NoteEvents
  <2>2. CASE new = {}
    BY <2>2
  <2>3. CASE new # {}
    BY <1>1, <2>1, <2>3, WorkOrNote DEF Events
  <2> QED BY <2>2, <2>3
<1>8. created = {Delivery!Came(n) : n \in new}
  <2>1. \A d \in created : d.note \in new /\ d = Delivery!Came(d.note)
    BY DEF Delivery!Came
  <2>2. \A n \in new : Delivery!Came(n) \in created
    BY DEF Delivery!Came
  <2> QED BY <2>1, <2>2
<1>9. Delivery!Outcome(e, users) = Outcome(e, users)
  BY <1>1 DEF Delivery!Outcome, Outcome
<1> HIDE DEF new, created, done, row
<1>10. Pending' = (Pending \ {e}) \cup created
  BY <1>2, <1>3, <1>4, <1>7 DEF Pending
<1>11. e \in Pending
  BY <1>1 DEF Pending
<1>12. ToldNotes \cap new = {} /\ ToldNotes' = ToldNotes \cup new /\ ReadNotes' = ReadNotes
  BY <1>1, <1>2 DEF ToldNotes, ReadNotes
<1>13. Delivery!Deliver(e, users)
  BY <1>1, <1>2, <1>6, <1>8, <1>9, <1>10, <1>11, <1>12
     DEF Delivery!Deliver, ToldNotes, ReadNotes
<1> QED BY <1>5, <1>11, <1>13

\* The COMMIT of a reading opens a notification under a key that was not used.
LEMMA ReadOpens ==
  ASSUME NotifyInv, NEW d \in Readers, ReadNotification(d)
  PROVE  \E n \in ToldNotes, key \in Keys : Delivery!Open(n, key)
<1>0. PICK q \in Reading : q = reading[d]
  BY DEF ReadNotification, NotifyInv, TypeOK
<1> DEFINE n == q.note
           k == <<n.user, q.key>>
           record == [note |-> n, expected |-> q.expected]
<1>1. /\ n \in Inbox /\ q.expected \in {1, 2} /\ q.stamp \in Nat
      /\ q.key \in Keys /\ k \in Users \X Keys /\ record \in ReadRecord /\ record # Null
  BY NullAssumption DEF Reading, Inbox, ReadRecord
<1>2. /\ records[k] = Null /\ notes[n] = q.expected
      /\ records' = [records EXCEPT ![k] = record]
      /\ receipts' = receipts
  BY <1>0 DEF ReadNotification, MayRead, Saved
<1>3. n \in ToldNotes /\ k \notin UsedKeys
  BY <1>1, <1>2 DEF ToldNotes, UsedKeys
<1> HIDE DEF record
<1>4. UsedKeys' = UsedKeys \cup {k}
  BY <1>1, <1>2 DEF UsedKeys, NotifyInv, TypeOK
<1>5. CASE AlreadyRead(n)
  <2>1. UNCHANGED <<notes, outbox>>
    BY <1>0, <1>5 DEF ReadNotification
  <2>2. n \in ReadNotes
    BY <1>1, <1>5 DEF AlreadyRead, ReadNotes
  <2>3. Pending' = Pending /\ ToldNotes' = ToldNotes /\ ReadNotes' = ReadNotes \cup {n}
    BY <2>1, <2>2 DEF Pending, ToldNotes, ReadNotes
  <2>4. Delivery!Open(n, q.key)
    BY <1>2, <1>3, <1>4, <2>2, <2>3 DEF Delivery!Open, ToldNotes, ReadNotes, UsedKeys
  <2> QED BY <1>1, <1>3, <2>4
<1>6. CASE ~AlreadyRead(n)
  <2> DEFINE e == [note |-> n, version |-> 2]
             row == Row(q.stamp)
  <2>1. /\ notes[n] = 1 /\ e \in Events
        /\ notes' = [notes EXCEPT ![n] = 2]
        /\ outbox' = [outbox EXCEPT ![e] = row]
    BY <1>0, <1>1, <1>2, <1>6, MarkReadWrites DEF ReadNotification
  <2>2. row # Null /\ row.status = "PENDING"
    BY <1>1, RowType
  <2>3. n \notin ReadNotes
    BY <2>1 DEF ReadNotes
  <2>4. e = Delivery!Opened(n)
    BY DEF Delivery!Opened
  <2> HIDE DEF e, row
  <2>5. Pending' = Pending \cup {e}
    BY <2>1, <2>2 DEF Pending, NotifyInv, TypeOK
  <2>6. ToldNotes' = ToldNotes /\ ReadNotes' = ReadNotes \cup {n}
    BY <1>1, <2>1 DEF ToldNotes, ReadNotes, NotifyInv, TypeOK
  <2>7. Delivery!Open(n, q.key)
    BY <1>2, <1>3, <1>4, <2>3, <2>4, <2>5, <2>6 DEF Delivery!Open, ToldNotes, ReadNotes, UsedKeys
  <2> QED BY <1>1, <1>3, <2>7
<1> QED BY <1>5, <1>6

LEMMA DeliveryStart == Init => Delivery!Init
<1> SUFFICES ASSUME Init PROVE Delivery!Init
  OBVIOUS
<1>1. Pending = {} /\ ToldNotes = {} /\ ReadNotes = {} /\ UsedKeys = {}
  BY DEF Init, Pending, ToldNotes, ReadNotes, UsedKeys
<1> QED BY <1>1 DEF Init, Delivery!Init, ToldNotes, ReadNotes, UsedKeys

LEMMA DeliveryStep ==
  NotifyInv /\ Destined /\ [Next]_vars => [Delivery!Next]_(Delivery!vars)
<1> SUFFICES ASSUME NotifyInv, Destined, [Next]_vars
             PROVE  Delivery!Next \/ UNCHANGED Delivery!vars
  OBVIOUS
<1>1. CASE UNCHANGED <<outbox, receipts, notes, records>>
  BY <1>1, NothingShows
<1>2. ASSUME NEW t \in Mutations, CommitMutation(t) PROVE Delivery!Next
  BY <1>2, CommitPublishes DEF Delivery!Next
<1>3. ASSUME NEW r \in Runs, Deliver(r) PROVE Delivery!Next
  <2>1. PICK e \in Pending : \E users \in SUBSET MayConcern(e) : Delivery!Deliver(e, users)
    BY <1>3, DeliverDelivers
  <2>2. [d \in Events |-> MayConcern(d)][e] = MayConcern(e)
    BY DEF Pending
  <2> QED BY <2>1, <2>2 DEF Delivery!Next
<1>4. ASSUME NEW d \in Readers, ReadNotification(d) PROVE Delivery!Next
  BY <1>4, ReadOpens DEF Delivery!Next, ToldNotes
<1> QED BY <1>1, <1>2, <1>3, <1>4
        DEF Next, vars, work, inbox, BeginMutation, RollbackMutation, RevokeGrant, Tick, Claim,
            Finish, Resolve, FailRun, SendRead, ReadGrants, AnswerRead, FailRead, RetryRead,
            ReceiveRead

-----------------------------------------------------------------------------
(* The theorems *)

\* Every variable of the outbox, the consumer and the inbox keeps its type.
THEOREM NotificationsWellFormed == Spec => []TypeOK
<1>1. NotifyInv => TypeOK
  BY DEF NotifyInv
<1> QED BY <1>1, NotifyAlways, PTL

\* However many runs overlap, fail and start again: an event is PROCESSED if and only
\* if it has its receipt, and the receipt says whether anybody was notified.
THEOREM ReceiptsTellDelivery == Spec => []ReceiptTellsDelivery
<1>1. NotifyInv => ReceiptTellsDelivery
  BY DEF NotifyInv
<1> QED BY <1>1, NotifyAlways, PTL

\* A notification has one event for its creation and one for its reading.
THEOREM NotesKeepTheirEvents == Spec => []NotesHaveTheirEvents
<1>1. NotifyInv => NotesHaveTheirEvents
  BY DEF NotifyInv
<1> QED BY <1>1, NotifyAlways, PTL

\* Of all requests that saw a notification unread, with any keys, one takes effect.
THEOREM NotificationsReadOnce == Spec => []ReadOnce
  BY InvReadOnce, NotifyAlways, PTL

\* The outbox is a queue that gives out every event once, to users it may concern,
\* whatever runs overlap, fail and start again: Notifications implements EventDelivery.
THEOREM DeliveryCorrect == Spec => DeliveryRefined
<1>1. Spec => []Destined
  BY NotifyAlways, DestinedInitially, DestinedStep, PTL DEF Spec
<1> QED BY <1>1, NotifyAlways, DeliveryStart, DeliveryStep, PTL
        DEF Spec, DeliveryRefined, Delivery!Spec

=============================================================================
