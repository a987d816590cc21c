-------------------------- MODULE WorkItemsRefinement --------------------------
(***************************************************************************)
(* WorkItems implements WorkItemLifecycle, for all users, items, keys,     *)
(* requests and grants: behind transactions, locks and retries the card of *)
(* a work item takes one step of its life cycle at a time.                 *)
(*                                                                         *)
(* A COMMIT writes what was computed while others committed. The invariant *)
(* WritesMove says that it is still the next step of the card as it is     *)
(* now; it rests on WritesFollow, hence on the locks.                      *)
(*                                                                         *)
(* From the cards to their reviews: a decision is about the latest         *)
(* submission, by somebody else than who made it, and no submission is     *)
(* decided twice. Both count rows of the history. The invariant Counted    *)
(* ties the columns revision and rework of a card to these counts, and     *)
(* says that nothing is decided yet of a submission under review. What is  *)
(* checked before a COMMIT has to be known of the pending writes too       *)
(* (WritesTell), about the card as it is now.                              *)
(*                                                                         *)
(* At the end: whoever makes a write holds the grant for it at that moment.*)
(***************************************************************************)
EXTENDS WorkItemsSafety, FiniteSetTheorems
-----------------------------------------------------------------------------
(* One step of the life cycle, of a card and its submissions *)

Card(status, org, assignee, version, revision, rework, value, fieldVersion) ==
  [status |-> status, org |-> org, assignee |-> assignee, version |-> version,
   revision |-> revision, rework |-> rework, value |-> value, fieldVersion |-> fieldVersion]

NewCard(org) == Card("DRAFT", org, Null, 1, 0, 0, Null, 1)

\* The next version of the card w.
NextCard(w, status, assignee, revision, rework, value, fieldVersion) ==
  Card(status, w.org, assignee, w.version + 1, revision, rework, value, fieldVersion)

NextStatus(w, status) ==
  NextCard(w, status, w.assignee, w.revision, w.rework, w.value, w.fieldVersion)

StatusMoves ==
  ({"ASSIGNED"} \X {"IN_PROGRESS"}) \cup ({"SUBMITTED"} \X {"COMPLETED"})
    \cup ({"COMPLETED"} \X {"IN_PROGRESS"})
    \cup ({"DRAFT", "ASSIGNED", "IN_PROGRESS", "SUBMITTED"} \X {"CANCELLED"})

Snapshot(w) ==
  [value |-> w.value, fieldVersion |-> w.fieldVersion, version |-> w.version + 1, by |-> w.assignee]

\* From the card w with submissions s to the card new with submissions subs.
Moves(w, s, new, subs) ==
  \/ /\ w = Null
     /\ subs = s
     /\ \E org \in Orgs : new = NewCard(org)
  \/ /\ w \in Row
     /\ w.status = "DRAFT"
     /\ subs = s
     /\ \E u \in Users :
          new = NextCard(w, "ASSIGNED", u, w.revision, w.rework, w.value, w.fieldVersion)
  \/ /\ w \in Row
     /\ w.status \in {"ASSIGNED", "IN_PROGRESS"}
     /\ subs = s
     /\ \E text \in Values :
          new = NextCard(w, w.status, w.assignee, w.revision, w.rework, text, w.fieldVersion + 1)
  \/ /\ w \in Row
     /\ w.status \in {"ASSIGNED", "IN_PROGRESS"}
     /\ w.value # Null
     /\ subs = Append(s, Snapshot(w))
     /\ new = NextCard(w, "SUBMITTED", w.assignee, w.revision + 1, w.rework, w.value, w.fieldVersion)
  \/ /\ w \in Row
     /\ w.status = "SUBMITTED"
     /\ subs = s
     /\ new = NextCard(w, "IN_PROGRESS", w.assignee, w.revision, w.rework + 1, w.value, w.fieldVersion)
  \/ /\ w \in Row
     /\ subs = s
     /\ \E status \in Statuses : <<w.status, status>> \in StatusMoves /\ new = NextStatus(w, status)

WritesMove ==
  \A r \in Requests : pc[r] = "applied" =>
    Moves(items[pending[r].item], submissions[pending[r].item],
          pending[r].row, pending[r].submissions)

NothingSubmittedYet == \A i \in Items : items[i] = Null => submissions[i] = <<>>

-----------------------------------------------------------------------------
(* Rows *)

\* An update of one column.
LEMMA CardWith ==
  ASSUME NEW s, NEW o, NEW a, NEW v, NEW r, NEW k, NEW t, NEW f,
         NEW w, w = Card(s, o, a, v, r, k, t, f)
  PROVE  /\ \A x : [w EXCEPT !.status = x] = Card(x, o, a, v, r, k, t, f)
         /\ \A x : [w EXCEPT !.assignee = x] = Card(s, o, x, v, r, k, t, f)
         /\ \A x : [w EXCEPT !.version = x] = Card(s, o, a, x, r, k, t, f)
         /\ \A x : [w EXCEPT !.revision = x] = Card(s, o, a, v, x, k, t, f)
         /\ \A x : [w EXCEPT !.rework = x] = Card(s, o, a, v, r, x, t, f)
         /\ \A x : [w EXCEPT !.value = x] = Card(s, o, a, v, r, k, x, f)
         /\ \A x : [w EXCEPT !.fieldVersion = x] = Card(s, o, a, v, r, k, t, x)
         /\ w.version = v /\ w.revision = r /\ w.rework = k /\ w.fieldVersion = f
BY DEF Card

LEMMA RowIsCard ==
  ASSUME NEW w \in Row
  PROVE  w = Card(w.status, w.org, w.assignee, w.version, w.revision, w.rework, w.value, w.fieldVersion)
BY DEF Row, Card

\* What the operations write, column by column.
LEMMA RowsWritten ==
  ASSUME NEW w \in Row
  PROVE  /\ \A status : Changed(w, status) = NextStatus(w, status)
         /\ \A u : [Changed(w, "ASSIGNED") EXCEPT !.assignee = u]
              = NextCard(w, "ASSIGNED", u, w.revision, w.rework, w.value, w.fieldVersion)
         /\ \A text : [Changed(w, w.status) EXCEPT !.value = text, !.fieldVersion = @ + 1]
              = NextCard(w, w.status, w.assignee, w.revision, w.rework, text, w.fieldVersion + 1)
         /\ [Changed(w, "SUBMITTED") EXCEPT !.revision = @ + 1]
              = NextCard(w, "SUBMITTED", w.assignee, w.revision + 1, w.rework, w.value, w.fieldVersion)
         /\ [Changed(w, "IN_PROGRESS") EXCEPT !.rework = @ + 1]
              = NextCard(w, "IN_PROGRESS", w.assignee, w.revision, w.rework + 1, w.value, w.fieldVersion)
<1>1. ASSUME NEW status
      PROVE  Changed(w, status) = NextStatus(w, status)
  <2> DEFINE x == [w EXCEPT !.status = status]
  <2>1. x = Card(status, w.org, w.assignee, w.version, w.revision, w.rework, w.value, w.fieldVersion)
    BY DEF Card, Row
  <2>2. Changed(w, status) = [x EXCEPT !.version = x.version + 1]
    BY DEF Changed, Row
  <2> HIDE DEF x
  <2>3. x.version = w.version
    BY <2>1, CardWith
  <2>4. [x EXCEPT !.version = w.version + 1] = NextStatus(w, status)
    BY <2>1 DEF NextStatus, NextCard, Card
  <2> QED BY <2>2, <2>3, <2>4
<1>2. ASSUME NEW u
      PROVE  [Changed(w, "ASSIGNED") EXCEPT !.assignee = u]
               = NextCard(w, "ASSIGNED", u, w.revision, w.rework, w.value, w.fieldVersion)
  <2> DEFINE x == Changed(w, "ASSIGNED")
  <2>1. x = NextStatus(w, "ASSIGNED")
    BY <1>1
  <2> HIDE DEF x
  <2> QED BY <2>1 DEF x, NextStatus, NextCard, Card
<1>3. ASSUME NEW text
      PROVE  [Changed(w, w.status) EXCEPT !.value = text, !.fieldVersion = @ + 1]
               = NextCard(w, w.status, w.assignee, w.revision, w.rework, text, w.fieldVersion + 1)
  <2> DEFINE x == Changed(w, w.status)
             y == [x EXCEPT !.value = text]
  <2>1. x = NextStatus(w, w.status)
    BY <1>1
  <2> HIDE DEF x
  <2>2. y = NextCard(w, w.status, w.assignee, w.revision, w.rework, text, w.fieldVersion)
    BY <2>1 DEF NextStatus, NextCard, Card
  <2>3. [x EXCEPT !.value = text, !.fieldVersion = @ + 1] = [y EXCEPT !.fieldVersion = y.fieldVersion + 1]
    BY <2>1 DEF NextStatus, NextCard, Card
  <2> HIDE DEF y
  <2>4. [y EXCEPT !.fieldVersion = y.fieldVersion + 1]
          = NextCard(w, w.status, w.assignee, w.revision, w.rework, text, w.fieldVersion + 1)
    BY <2>2 DEF NextCard, Card
  <2> QED BY <2>3, <2>4 DEF x
<1>4. [Changed(w, "SUBMITTED") EXCEPT !.revision = @ + 1]
        = NextCard(w, "SUBMITTED", w.assignee, w.revision + 1, w.rework, w.value, w.fieldVersion)
  <2> DEFINE x == Changed(w, "SUBMITTED")
  <2>1. x = NextStatus(w, "SUBMITTED")
    BY <1>1
  <2> HIDE DEF x
  <2>2. [x EXCEPT !.revision = @ + 1]
          = NextCard(w, "SUBMITTED", w.assignee, w.revision + 1, w.rework, w.value, w.fieldVersion)
    BY <2>1 DEF NextStatus, NextCard, Card
  <2> QED BY <2>2 DEF x
<1>5. [Changed(w, "IN_PROGRESS") EXCEPT !.rework = @ + 1]
        = NextCard(w, "IN_PROGRESS", w.assignee, w.revision, w.rework + 1, w.value, w.fieldVersion)
  <2> DEFINE x == Changed(w, "IN_PROGRESS")
  <2>1. x = NextStatus(w, "IN_PROGRESS")
    BY <1>1
  <2> HIDE DEF x
  <2>2. [x EXCEPT !.rework = @ + 1]
          = NextCard(w, "IN_PROGRESS", w.assignee, w.revision, w.rework + 1, w.value, w.fieldVersion)
    BY <2>1 DEF NextStatus, NextCard, Card
  <2> QED BY <2>2 DEF x
<1> QED BY <1>1, <1>2, <1>3, <1>4, <1>5

\* The same rows as the steps of the life cycle make them of a card.
LEMMA CardsMoved ==
  ASSUME NEW w \in Row
  PROVE  /\ \A status : [[w EXCEPT !.status = status] EXCEPT !.version = w.version + 1]
              = NextStatus(w, status)
         /\ \A u : [[w EXCEPT !.status = "ASSIGNED", !.assignee = u] EXCEPT !.version = w.version + 1]
              = NextCard(w, "ASSIGNED", u, w.revision, w.rework, w.value, w.fieldVersion)
         /\ \A text : [[w EXCEPT !.value = text, !.fieldVersion = @ + 1] EXCEPT !.version = w.version + 1]
              = NextCard(w, w.status, w.assignee, w.revision, w.rework, text, w.fieldVersion + 1)
         /\ [[w EXCEPT !.status = "SUBMITTED", !.revision = @ + 1] EXCEPT !.version = w.version + 1]
              = NextCard(w, "SUBMITTED", w.assignee, w.revision + 1, w.rework, w.value, w.fieldVersion)
         /\ [[w EXCEPT !.status = "IN_PROGRESS", !.rework = @ + 1] EXCEPT !.version = w.version + 1]
              = NextCard(w, "IN_PROGRESS", w.assignee, w.revision, w.rework + 1, w.value, w.fieldVersion)
<1>0. w = Card(w.status, w.org, w.assignee, w.version, w.revision, w.rework, w.value, w.fieldVersion)
  BY RowIsCard
<1>1. ASSUME NEW x, NEW s, NEW a, NEW r, NEW k, NEW t, NEW f,
             x = Card(s, w.org, a, w.version, r, k, t, f)
      PROVE  [x EXCEPT !.version = w.version + 1] = NextCard(w, s, a, r, k, t, f)
  BY <1>1 DEF NextCard, Card
<1>2. ASSUME NEW status
      PROVE  [[w EXCEPT !.status = status] EXCEPT !.version = w.version + 1] = NextStatus(w, status)
  <2> DEFINE x == [w EXCEPT !.status = status]
  <2>1. x = Card(status, w.org, w.assignee, w.version, w.revision, w.rework, w.value, w.fieldVersion)
    BY <1>0 DEF Card
  <2> HIDE DEF x
  <2>2. [x EXCEPT !.version = w.version + 1] = NextStatus(w, status)
    BY <1>1, <2>1 DEF NextStatus
  <2> QED BY <2>2 DEF x
<1>3. ASSUME NEW u
      PROVE  [[w EXCEPT !.status = "ASSIGNED", !.assignee = u] EXCEPT !.version = w.version + 1]
               = NextCard(w, "ASSIGNED", u, w.revision, w.rework, w.value, w.fieldVersion)
  <2> DEFINE y == [w EXCEPT !.status = "ASSIGNED"]
             x == [w EXCEPT !.status = "ASSIGNED", !.assignee = u]
  <2>1. y = Card("ASSIGNED", w.org, w.assignee, w.version, w.revision, w.rework, w.value, w.fieldVersion)
    BY <1>0 DEF Card
  <2>2. x = [y EXCEPT !.assignee = u]
    BY <1>0 DEF Card
  <2> HIDE DEF y
  <2>3. [y EXCEPT !.assignee = u] = Card("ASSIGNED", w.org, u, w.version, w.revision, w.rework, w.value, w.fieldVersion)
    BY <2>1 DEF Card
  <2>4. x = Card("ASSIGNED", w.org, u, w.version, w.revision, w.rework, w.value, w.fieldVersion)
    BY <2>2, <2>3
  <2> HIDE DEF x
  <2>5. [x EXCEPT !.version = w.version + 1]
          = NextCard(w, "ASSIGNED", u, w.revision, w.rework, w.value, w.fieldVersion)
    BY <1>1, <2>4
  <2> QED BY <2>5 DEF x
<1>4. ASSUME NEW text
      PROVE  [[w EXCEPT !.value = text, !.fieldVersion = @ + 1] EXCEPT !.version = w.version + 1]
               = NextCard(w, w.status, w.assignee, w.revision, w.rework, text, w.fieldVersion + 1)
  <2> DEFINE y == [w EXCEPT !.value = text]
             x == [w EXCEPT !.value = text, !.fieldVersion = @ + 1]
  <2>1. y = Card(w.status, w.org, w.assignee, w.version, w.revision, w.rework, text, w.fieldVersion)
    BY <1>0 DEF Card
  <2>2. x = [y EXCEPT !.fieldVersion = y.fieldVersion + 1]
    BY DEF Row
  <2> HIDE DEF y
  <2>3. [y EXCEPT !.fieldVersion = y.fieldVersion + 1]
          = Card(w.status, w.org, w.assignee, w.version, w.revision, w.rework, text, w.fieldVersion + 1)
    BY <2>1 DEF Card
  <2>4. x = Card(w.status, w.org, w.assignee, w.version, w.revision, w.rework, text, w.fieldVersion + 1)
    BY <2>2, <2>3
  <2> HIDE DEF x
  <2>5. [x EXCEPT !.version = w.version + 1]
          = NextCard(w, w.status, w.assignee, w.revision, w.rework, text, w.fieldVersion + 1)
    BY <1>1, <2>4
  <2> QED BY <2>5 DEF x
<1>5. [[w EXCEPT !.status = "SUBMITTED", !.revision = @ + 1] EXCEPT !.version = w.version + 1]
        = NextCard(w, "SUBMITTED", w.assignee, w.revision + 1, w.rework, w.value, w.fieldVersion)
  <2> DEFINE y == [w EXCEPT !.status = "SUBMITTED"]
             x == [w EXCEPT !.status = "SUBMITTED", !.revision = @ + 1]
  <2>1. y = Card("SUBMITTED", w.org, w.assignee, w.version, w.revision, w.rework, w.value, w.fieldVersion)
    BY <1>0 DEF Card
  <2>2. x = [y EXCEPT !.revision = y.revision + 1]
    BY DEF Row
  <2> HIDE DEF y
  <2>3. [y EXCEPT !.revision = y.revision + 1]
          = Card("SUBMITTED", w.org, w.assignee, w.version, w.revision + 1, w.rework, w.value, w.fieldVersion)
    BY <2>1 DEF Card
  <2>4. x = Card("SUBMITTED", w.org, w.assignee, w.version, w.revision + 1, w.rework, w.value, w.fieldVersion)
    BY <2>2, <2>3
  <2> HIDE DEF x
  <2>5. [x EXCEPT !.version = w.version + 1]
          = NextCard(w, "SUBMITTED", w.assignee, w.revision + 1, w.rework, w.value, w.fieldVersion)
    BY <1>1, <2>4
  <2> QED BY <2>5 DEF x
<1>6. [[w EXCEPT !.status = "IN_PROGRESS", !.rework = @ + 1] EXCEPT !.version = w.version + 1]
        = NextCard(w, "IN_PROGRESS", w.assignee, w.revision, w.rework + 1, w.value, w.fieldVersion)
  <2> DEFINE y == [w EXCEPT !.status = "IN_PROGRESS"]
             x == [w EXCEPT !.status = "IN_PROGRESS", !.rework = @ + 1]
  <2>1. y = Card("IN_PROGRESS", w.org, w.assignee, w.version, w.revision, w.rework, w.value, w.fieldVersion)
    BY <1>0 DEF Card
  <2>2. x = [y EXCEPT !.rework = y.rework + 1]
    BY DEF Row
  <2> HIDE DEF y
  <2>3. [y EXCEPT !.rework = y.rework + 1]
          = Card("IN_PROGRESS", w.org, w.assignee, w.version, w.revision, w.rework + 1, w.value, w.fieldVersion)
    BY <2>1 DEF Card
  <2>4. x = Card("IN_PROGRESS", w.org, w.assignee, w.version, w.revision, w.rework + 1, w.value, w.fieldVersion)
    BY <2>2, <2>3
  <2> HIDE DEF x
  <2>5. [x EXCEPT !.version = w.version + 1]
          = NextCard(w, "IN_PROGRESS", w.assignee, w.revision, w.rework + 1, w.value, w.fieldVersion)
    BY <1>1, <2>4
  <2> QED BY <2>5 DEF x
<1> QED BY <1>2, <1>3, <1>4, <1>5, <1>6
-----------------------------------------------------------------------------
(* Every operation writes a step *)

LEMMA WriteEffect ==
  ASSUME TypeOK, NEW r \in Requests, NEW i, NEW new, NEW subs, NEW before, NEW revision,
         Write(r, i, new, subs, before, revision)
  PROVE  /\ pending'[r].item = i
         /\ pending'[r].row = new
         /\ pending'[r].submissions = subs
BY DEF Write, TypeOK

\* The writes of an operation are a step of the card its transaction has locked.
LEMMA OperationMoves ==
  ASSUME TypeOK, WritesFollow, NothingSubmittedYet, NEW r \in Requests, Operation(r)
  PROVE  Moves(items[pending'[r].item], submissions[pending'[r].item],
               pending'[r].row, pending'[r].submissions)
<1> DEFINE w == row[r]
           t == request[r].target
           s == submissions[t]
<1>1. CASE CreateWorkItem(r)
  <2>1. request[r].arg \in Orgs
    BY <1>1, ConstantsAssumption DEF CreateWorkItem, HasGrant, TypeOK
  <2>2. PICK i \in Items : /\ items[i] = Null
                           /\ Write(r, i, NewCard(request[r].arg), <<>>, Null, 0)
    BY <1>1 DEF CreateWorkItem, NewCard, Card
  <2>3. submissions[i] = <<>>
    BY <2>2 DEF NothingSubmittedYet
  <2> QED
    BY <2>1, <2>2, <2>3, WriteEffect DEF Moves
<1>2. CASE ~CreateWorkItem(r)
  <2>1. w = items[t] /\ w \in Row
    BY <1>2, OperationWrites DEF WritesFollow, LockedIsCurrent, TypeOK, SlotOK
  <2>2. ASSUME NEW new, NEW subs, NEW before, NEW revision,
               Write(r, t, new, subs, before, revision), Moves(w, s, new, subs)
        PROVE  Moves(items[pending'[r].item], submissions[pending'[r].item],
                     pending'[r].row, pending'[r].submissions)
    BY <2>1, <2>2, WriteEffect
  <2>3. CASE AssignWorkItem(r)
    <3> DEFINE new == [Changed(w, "ASSIGNED") EXCEPT !.assignee = request[r].arg]
    <3>1. request[r].arg \in Users /\ w.status = "DRAFT"
      BY <2>3, ConstantsAssumption DEF AssignWorkItem, MayAssign, EligibleRf, HasGrant, TypeOK
    <3>2. Write(r, t, new, s, w.status, 0)
      BY <2>3 DEF AssignWorkItem
    <3>3. new = NextCard(w, "ASSIGNED", request[r].arg, w.revision, w.rework, w.value, w.fieldVersion)
      BY <2>1, RowsWritten
    <3> HIDE DEF new
    <3>4. Moves(w, s, new, s)
      BY <2>1, <3>1, <3>3 DEF Moves
    <3> QED BY <2>2, <3>2, <3>4
  <2>4. CASE PatchWorkItemFields(r)
    <3> DEFINE new == [Changed(w, w.status) EXCEPT !.value = request[r].arg, !.fieldVersion = @ + 1]
    <3>1. request[r].arg \in Values /\ w.status \in {"ASSIGNED", "IN_PROGRESS"}
      BY <2>4 DEF PatchWorkItemFields, MayPatch, Runs, TypeOK, SlotOK
    <3>2. Write(r, t, new, s, w.status, 0)
      BY <2>4 DEF PatchWorkItemFields
    <3>3. new = NextCard(w, w.status, w.assignee, w.revision, w.rework, request[r].arg, w.fieldVersion + 1)
      BY <2>1, RowsWritten
    <3> HIDE DEF new
    <3>4. Moves(w, s, new, s)
      BY <2>1, <3>1, <3>3 DEF Moves
    <3> QED BY <2>2, <3>2, <3>4
  <2>5. CASE SubmitWorkItem(r)
    <3> DEFINE new == [Changed(w, "SUBMITTED") EXCEPT !.revision = @ + 1]
    <3>1. w.value # Null /\ w.status \in {"ASSIGNED", "IN_PROGRESS"} /\ w.assignee = request[r].actor
      BY <2>5 DEF SubmitWorkItem, MaySubmit, IsOwnRf
    <3>2. Write(r, t, new, Append(s, Snapshot(w)), w.status, w.revision + 1)
      BY <2>5, <3>1 DEF SubmitWorkItem, Snapshot
    <3>3. new = NextCard(w, "SUBMITTED", w.assignee, w.revision + 1, w.rework, w.value, w.fieldVersion)
      BY <2>1, RowsWritten
    <3> HIDE DEF new
    <3>4. Moves(w, s, new, Append(s, Snapshot(w)))
      BY <2>1, <3>1, <3>3 DEF Moves
    <3> QED BY <2>2, <3>2, <3>4
  <2>6. CASE ReworkWorkItem(r)
    <3> DEFINE new == [Changed(w, "IN_PROGRESS") EXCEPT !.rework = @ + 1]
    <3>1. w.status = "SUBMITTED"
      BY <2>6 DEF ReworkWorkItem, MayReview
    <3>2. Write(r, t, new, s, w.status, w.revision)
      BY <2>6 DEF ReworkWorkItem
    <3>3. new = NextCard(w, "IN_PROGRESS", w.assignee, w.revision, w.rework + 1, w.value, w.fieldVersion)
      BY <2>1, RowsWritten
    <3> HIDE DEF new
    <3>4. Moves(w, s, new, s)
      BY <2>1, <3>1, <3>3 DEF Moves
    <3> QED BY <2>2, <3>2, <3>4
  <2>7. CASE StartWorkItem(r) \/ AcceptWorkItem(r) \/ CancelWorkItem(r) \/ ReopenWorkItem(r)
    <3>1. \E status \in Statuses, revision \in {0, w.revision} :
            /\ <<w.status, status>> \in StatusMoves
            /\ Write(r, t, Changed(w, status), s, w.status, revision)
      BY <2>7 DEF StartWorkItem, MayStart, AcceptWorkItem, MayReview, CancelWorkItem, MayCancel,
                  ReopenWorkItem, MayReopen, StatusMoves, Statuses
    <3>2. PICK status \in Statuses, revision \in {0, w.revision} :
            /\ <<w.status, status>> \in StatusMoves
            /\ Write(r, t, Changed(w, status), s, w.status, revision)
      BY <3>1
    <3>3. Changed(w, status) = NextStatus(w, status)
      BY <2>1, RowsWritten
    <3>4. Moves(w, s, Changed(w, status), s)
      BY <2>1, <3>2, <3>3 DEF Moves
    <3> QED BY <2>2, <3>2, <3>4
  <2> QED BY <1>2, <2>3, <2>4, <2>5, <2>6, <2>7 DEF Operation
<1> QED BY <1>1, <1>2

LEMMA NextWritesMove ==
  ASSUME TypeOK, WritesFollow, NothingSubmittedYet, WritesMove, [Next]_vars
  PROVE  WritesMove' /\ NothingSubmittedYet'
<1>1. ASSUME NEW r \in Requests, Commit(r)
      PROVE  WritesMove' /\ NothingSubmittedYet'
  <2> DEFINE p == pending[r]
  <2>1. /\ p.item \in Items
        /\ p.row \in Row
        /\ items' = [items EXCEPT ![p.item] = p.row]
        /\ submissions' = [submissions EXCEPT ![p.item] = p.submissions]
        /\ pc[r] = "applied"
    BY <1>1, CommitEffect
  <2>2. /\ pc'[r] = "replied"
        /\ \A o \in Requests \ {r} : pc'[o] = pc[o] /\ pending'[o] = pending[o]
    BY <1>1 DEF Commit, Answer, TypeOK
  <2>3. ASSUME NEW o \in Requests, pc'[o] = "applied"
        PROVE  Moves(items[pending[o].item], submissions[pending[o].item],
                     pending[o].row, pending[o].submissions)'
    <3>1. o # r /\ pc[o] = "applied" /\ pending'[o] = pending[o]
      BY <2>2, <2>3
    <3>2. pending[o].item # p.item /\ pending[o].item \in Items
      BY <2>1, <3>1 DEF WritesFollow, TypeOK, SlotOK, Writes
    <3>3. items'[pending[o].item] = items[pending[o].item]
          /\ submissions'[pending[o].item] = submissions[pending[o].item]
      BY <2>1, <3>2 DEF TypeOK
    <3>4. Moves(items[pending[o].item], submissions[pending[o].item],
                pending[o].row, pending[o].submissions)
      BY <3>1 DEF WritesMove
    <3> QED BY <3>1, <3>3, <3>4 DEF Moves, Snapshot
  <2>4. ASSUME NEW i \in Items, items'[i] = Null
        PROVE  submissions'[i] = <<>>
    <3>1. i # p.item
      BY <2>1, <2>4, ConstantsAssumption DEF TypeOK
    <3> QED BY <2>1, <2>4, <3>1 DEF TypeOK, NothingSubmittedYet
  <2> QED BY <2>3, <2>4 DEF WritesMove, NothingSubmittedYet
<1>2. CASE \A r \in Requests : ~Commit(r)
  <2>1. items' = items /\ submissions' = submissions
    BY <1>2, OnlyCommitsChangeTables DEF tables
  <2>2. NothingSubmittedYet'
    BY <2>1 DEF NothingSubmittedYet
  <2>3. ASSUME NEW o \in Requests, pc'[o] = "applied"
        PROVE  Moves(items[pending'[o].item], submissions[pending'[o].item],
                     pending'[o].row, pending'[o].submissions)
    <3>1. CASE \E r \in Requests : Operation(r)
      <4>1. PICK r \in Requests : Operation(r)
        BY <3>1
      <4>2. CASE o = r
        BY <4>1, <4>2, OperationMoves
      <4>3. CASE o # r
        <5>1. pc'[o] = pc[o] /\ pending'[o] = pending[o]
          BY <4>1, <4>3 DEF TypeOK, Operation, Write, CreateWorkItem, AssignWorkItem,
             StartWorkItem, PatchWorkItemFields, SubmitWorkItem, AcceptWorkItem,
             ReworkWorkItem, CancelWorkItem, ReopenWorkItem
        <5> QED BY <2>3, <5>1 DEF WritesMove
      <4> QED BY <4>2, <4>3
    <3>2. CASE \E r \in Requests : LockWorkItem(r)
      <4>1. pc[o] = "applied" /\ pending'[o] = pending[o]
        BY <2>3, <3>2 DEF LockWorkItem, TypeOK
      <4> QED BY <4>1 DEF WritesMove
    <3>3. CASE \/ UNCHANGED vars
               \/ \E g \in Revocable : RevokeGrant(g)
               \/ \E r \in Requests : \/ Send(r) \/ BeginIdempotent(r) \/ Refuse(r)
                                      \/ Fail(r) \/ Receive(r) \/ Retry(r)
      <4>1. pc[o] = "applied" /\ pending'[o] = pending[o]
        BY <2>3, <3>3, QuietSteps
      <4> QED BY <4>1 DEF WritesMove
    <3> QED BY <1>2, <3>1, <3>2, <3>3 DEF Next
  <2>4. \A o \in Requests : pc'[o] = "applied" =>
          Moves(items'[pending'[o].item], submissions'[pending'[o].item],
                pending'[o].row, pending'[o].submissions)
    BY <2>1, <2>3
  <2> QED BY <2>2, <2>4 DEF WritesMove, Moves, Snapshot
<1> QED BY <1>1, <1>2

-----------------------------------------------------------------------------
(* The refinement *)

\* A step of a card is one of the life cycle.
LEMMA MovesAreSteps ==
  ASSUME TypeOK, NEW i \in Items, NEW new, NEW subs,
         Moves(items[i], submissions[i], new, subs),
         items' = [items EXCEPT ![i] = new],
         submissions' = [submissions EXCEPT ![i] = subs]
  PROVE  \/ Lifecycle!Create(i) \/ Lifecycle!Assign(i) \/ Lifecycle!Start(i)
         \/ Lifecycle!Edit(i) \/ Lifecycle!Submit(i) \/ Lifecycle!Accept(i)
         \/ Lifecycle!Rework(i) \/ Lifecycle!Reopen(i) \/ Lifecycle!Cancel(i)
<1> DEFINE w == items[i]
<1>0. w \in Row => w # Null
  BY ConstantsAssumption
<1>1. subs = submissions[i] => submissions' = submissions
  BY DEF TypeOK
<1>2. CASE w = Null /\ subs = submissions[i] /\ \E org \in Orgs : new = NewCard(org)
  BY <1>1, <1>2 DEF Lifecycle!Create, NewCard, Card
<1>3. CASE /\ w \in Row
           /\ w.status = "DRAFT"
           /\ subs = submissions[i]
           /\ \E u \in Users :
                new = NextCard(w, "ASSIGNED", u, w.revision, w.rework, w.value, w.fieldVersion)
  <2>1. PICK u \in Users :
          new = NextCard(w, "ASSIGNED", u, w.revision, w.rework, w.value, w.fieldVersion)
    BY <1>3
  <2>2. new = [[w EXCEPT !.status = "ASSIGNED", !.assignee = u] EXCEPT !.version = w.version + 1]
    BY <1>3, <2>1, CardsMoved, Zenon
  <2> QED BY <1>0, <1>1, <1>3, <2>2, Zenon DEF Lifecycle!Assign, Lifecycle!Step
<1>4. CASE /\ w \in Row
           /\ w.status \in {"ASSIGNED", "IN_PROGRESS"}
           /\ subs = submissions[i]
           /\ \E text \in Values :
                new = NextCard(w, w.status, w.assignee, w.revision, w.rework, text, w.fieldVersion + 1)
  <2>1. PICK text \in Values :
          new = NextCard(w, w.status, w.assignee, w.revision, w.rework, text, w.fieldVersion + 1)
    BY <1>4
  <2>2. new = [[w EXCEPT !.value = text, !.fieldVersion = @ + 1] EXCEPT !.version = w.version + 1]
    BY <1>4, <2>1, CardsMoved, Zenon
  <2> QED BY <1>0, <1>1, <1>4, <2>2, Zenon DEF Lifecycle!Edit, Lifecycle!Step
<1>5. CASE /\ w \in Row
           /\ w.status \in {"ASSIGNED", "IN_PROGRESS"}
           /\ w.value # Null
           /\ subs = Append(submissions[i], Snapshot(w))
           /\ new = NextCard(w, "SUBMITTED", w.assignee, w.revision + 1, w.rework, w.value, w.fieldVersion)
  <2>1. new = [[w EXCEPT !.status = "SUBMITTED", !.revision = @ + 1] EXCEPT !.version = w.version + 1]
    BY <1>5, CardsMoved, Zenon
  <2> QED BY <1>0, <1>5, <2>1, Zenon DEF Lifecycle!Submit, Lifecycle!Step, Snapshot
<1>6. CASE /\ w \in Row
           /\ w.status = "SUBMITTED"
           /\ subs = submissions[i]
           /\ new = NextCard(w, "IN_PROGRESS", w.assignee, w.revision, w.rework + 1, w.value, w.fieldVersion)
  <2>1. new = [[w EXCEPT !.status = "IN_PROGRESS", !.rework = @ + 1] EXCEPT !.version = w.version + 1]
    BY <1>6, CardsMoved, Zenon
  <2> QED BY <1>0, <1>1, <1>6, <2>1, Zenon DEF Lifecycle!Rework, Lifecycle!Step
<1>7. CASE /\ w \in Row
           /\ subs = submissions[i]
           /\ \E status \in Statuses : <<w.status, status>> \in StatusMoves /\ new = NextStatus(w, status)
  <2>1. PICK status \in Statuses : <<w.status, status>> \in StatusMoves /\ new = NextStatus(w, status)
    BY <1>7
  <2>2. new = [[w EXCEPT !.status = status] EXCEPT !.version = w.version + 1]
    BY <1>7, <2>1, CardsMoved, Zenon
  <2>3. \/ w.status \in {"ASSIGNED"} /\ status = "IN_PROGRESS"
        \/ w.status \in {"SUBMITTED"} /\ status = "COMPLETED"
        \/ w.status \in {"COMPLETED"} /\ status = "IN_PROGRESS"
        \/ w.status \in {"DRAFT", "ASSIGNED", "IN_PROGRESS", "SUBMITTED"} /\ status = "CANCELLED"
    BY <2>1 DEF StatusMoves
  <2> QED
    BY <1>0, <1>1, <1>7, <2>2, <2>3, Zenon
       DEF Lifecycle!Start, Lifecycle!Accept, Lifecycle!Reopen, Lifecycle!Cancel, Lifecycle!Step
<1> QED BY <1>2, <1>3, <1>4, <1>5, <1>6, <1>7 DEF Moves

\* A COMMIT is one step of the life cycle, by a key that is used for it alone.
LEMMA CommitRefines ==
  ASSUME TypeOK, WritesFollow, KeysUnused, WritesMove, NEW r \in Requests, Commit(r)
  PROVE  Lifecycle!Next
<1> DEFINE p == pending[r]
           k == KeyOf(request[r])
<1>1. /\ p.item \in Items
      /\ request[r] \in Request
      /\ items' = [items EXCEPT ![p.item] = p.row]
      /\ submissions' = [submissions EXCEPT ![p.item] = p.submissions]
      /\ pc[r] = "applied"
  BY CommitEffect
<1>2. Moves(items[p.item], submissions[p.item], p.row, p.submissions)
  BY <1>1 DEF WritesMove
<1>3. k \in Users \X Ops \X Keys /\ records[k] = Null
  BY <1>1 DEF KeysUnused, Holding, KeyOf, Request
<1>4. PICK rec \in Record : records' = [records EXCEPT ![k] = rec]
  BY <1>1 DEF Commit, Record, TypeOK, SlotOK, Writes, Row
<1>5. rec # Null
  BY ConstantsAssumption
<1>6. {c \in Users \X Ops \X Keys : records'[c] # Null}
        = {c \in Users \X Ops \X Keys : records[c] # Null} \cup {k}
  BY <1>3, <1>4, <1>5 DEF TypeOK
<1> HIDE DEF p, k
<1>7. \E c \in (Users \X Ops \X Keys) \ {c \in Users \X Ops \X Keys : records[c] # Null} :
        {c1 \in Users \X Ops \X Keys : records'[c1] # Null}
          = {c1 \in Users \X Ops \X Keys : records[c1] # Null} \cup {c}
  BY <1>3, <1>6
<1>8. \E i \in Items :
        \/ Lifecycle!Create(i) \/ Lifecycle!Assign(i) \/ Lifecycle!Start(i)
        \/ Lifecycle!Edit(i) \/ Lifecycle!Submit(i) \/ Lifecycle!Accept(i)
        \/ Lifecycle!Rework(i) \/ Lifecycle!Reopen(i) \/ Lifecycle!Cancel(i)
  BY <1>1, <1>2, MovesAreSteps
<1> QED BY <1>7, <1>8 DEF Lifecycle!Next

LEMMA NextRefines ==
  ASSUME TypeOK, WritesFollow, KeysUnused, WritesMove, [Next]_vars
  PROVE  [Lifecycle!Next]_(Lifecycle!vars)
<1>1. CASE \E r \in Requests : Commit(r)
  BY <1>1, CommitRefines
<1>2. CASE \A r \in Requests : ~Commit(r)
  BY <1>2, OnlyCommitsChangeTables DEF tables, Lifecycle!vars
<1> QED BY <1>1, <1>2

\* Behind transactions, locks and retries, for any users, items, keys and requests,
\* the work items live as WorkItemLifecycle says: each COMMIT is one of its steps, by
\* a key not used before, and nothing else changes a card or a submission.
THEOREM LifecycleCorrect == Spec => LifecycleRefined
<1>1. Init => Lifecycle!Init
  BY DEF Init, Lifecycle!Init
<1>2. Init => WritesMove /\ NothingSubmittedYet
  BY DEF Init, WritesMove, NothingSubmittedYet
<1>3. TypeOK /\ WritesFollow /\ WritesMove /\ NothingSubmittedYet /\ [Next]_vars
        => WritesMove' /\ NothingSubmittedYet'
  BY NextWritesMove
<1>4. Spec => [](WritesMove /\ NothingSubmittedYet)
  BY <1>2, <1>3, TypeCorrect, WritesCorrect, PTL DEF Spec
<1>5. TypeOK /\ WritesFollow /\ KeysUnused /\ WritesMove /\ [Next]_vars
        => [Lifecycle!Next]_(Lifecycle!vars)
  BY NextRefines
<1> QED
  BY <1>1, <1>4, <1>5, TypeCorrect, WritesCorrect, KeysCorrect, PTL
     DEF Spec, LifecycleRefined, Lifecycle!Spec

-----------------------------------------------------------------------------
(* The invariant behind the reviews *)

\* The first n rows of h that record op.
With(h, op, n) == {m \in 1 .. n : h[m].op = op}

RevisionOf(w) == IF w = Null THEN 0 ELSE w.revision

ReworkOf(w) == IF w = Null THEN 0 ELSE w.rework

\* What a write by actor on behalf of op, of the card new with submissions subs,
\* says of the card w with submissions s that it replaces.
Tells(op, actor, decided, new, subs, w, s) ==
  /\ op = "submitWorkItem" =>
       new.revision = RevisionOf(w) + 1 /\ \E x \in Submission : subs = Append(s, x)
  /\ op # "submitWorkItem" =>
       new.revision = RevisionOf(w) /\ subs = s /\ new.status # "SUBMITTED"
  /\ new.rework = ReworkOf(w) + (IF op = "reworkWorkItem" THEN 1 ELSE 0)
  /\ op \in ReviewOps =>
       /\ w # Null
       /\ w.status = "SUBMITTED"
       /\ w.revision > 0
       /\ decided = w.revision
       /\ s[w.revision].by # actor

WriteTells(p) ==
  Tells(p.entry.op, p.entry.actor, p.entry.revision, p.row, p.submissions,
        items[p.item], submissions[p.item])

WritesTell == \A r \in Requests : pc[r] = "applied" => WriteTells(pending[r])

Counted ==
  \A i \in Items :
    LET h == history[i]
    IN  /\ RevisionOf(items[i]) = Cardinality(With(h, "submitWorkItem", Len(h)))
        /\ ReworkOf(items[i]) = Cardinality(With(h, "reworkWorkItem", Len(h)))
        /\ \A n \in Decisions(i) : h[n].revision \in 1 .. RevisionOf(items[i])
        /\ items[i] # Null /\ items[i].status = "SUBMITTED" =>
             \A n \in Decisions(i) : h[n].revision # items[i].revision

-----------------------------------------------------------------------------
(* Counting *)

LEMMA CountsGrow ==
  ASSUME NEW h \in Seq(Entry), NEW e \in Entry, NEW op
  PROVE  /\ Len(h) \in Nat
         /\ Len(Append(h, e)) = Len(h) + 1
         /\ Append(h, e)[Len(h) + 1] = e
         /\ \A n \in 1 .. Len(h) : Append(h, e)[n] = h[n]
         /\ \A n \in 0 .. Len(h) : With(Append(h, e), op, n) = With(h, op, n)
         /\ e.op # op => With(Append(h, e), op, Len(h) + 1) = With(h, op, Len(h))
         /\ Cardinality(With(Append(h, e), op, Len(h) + 1))
              = Cardinality(With(h, op, Len(h))) + (IF e.op = op THEN 1 ELSE 0)
<1> DEFINE g == Append(h, e)
<1>1. /\ Len(h) \in Nat
      /\ Len(g) = Len(h) + 1
      /\ g[Len(h) + 1] = e
      /\ \A n \in 1 .. Len(h) : g[n] = h[n]
  OBVIOUS
<1> HIDE DEF g
<1>2. \A n \in 0 .. Len(h) : With(g, op, n) = With(h, op, n)
  BY <1>1 DEF With
<1>3. e.op # op => With(g, op, Len(h) + 1) = With(h, op, Len(h))
  BY <1>1 DEF With
<1>4. e.op = op => With(g, op, Len(h) + 1) = With(h, op, Len(h)) \cup {Len(h) + 1}
  BY <1>1 DEF With
<1>5. IsFiniteSet(With(h, op, Len(h)))
  <2>1. IsFiniteSet(1 .. Len(h))
    BY <1>1, FS_Interval
  <2> QED BY <2>1, FS_Subset DEF With
<1>6. Cardinality(With(h, op, Len(h))) \in Nat
  BY <1>5, FS_CardinalityType
<1>7. Len(h) + 1 \notin With(h, op, Len(h))
  BY <1>1 DEF With
<1>8. e.op = op => Cardinality(With(g, op, Len(h) + 1)) = Cardinality(With(h, op, Len(h))) + 1
  BY <1>4, <1>5, <1>7, FS_AddElement
<1>9. Cardinality(With(g, op, Len(h) + 1)) = Cardinality(With(h, op, Len(h))) + (IF e.op = op THEN 1 ELSE 0)
  BY <1>3, <1>6, <1>8
<1> QED BY <1>1, <1>2, <1>3, <1>9 DEF g

-----------------------------------------------------------------------------
(* Every operation writes what its check has seen *)

LEMMA WriteEntry ==
  ASSUME TypeOK, NEW r \in Requests, NEW i, NEW new, NEW subs, NEW before, NEW revision,
         Write(r, i, new, subs, before, revision)
  PROVE  /\ pending'[r].item = i
         /\ pending'[r].row = new
         /\ pending'[r].submissions = subs
         /\ pending'[r].entry.op = request[r].op
         /\ pending'[r].entry.actor = request[r].actor
         /\ pending'[r].entry.revision = revision
BY DEF Write, TypeOK

LEMMA NextCardColumns ==
  ASSUME NEW w, NEW s, NEW a, NEW v, NEW k, NEW t, NEW f
  PROVE  /\ NextCard(w, s, a, v, k, t, f).status = s
         /\ NextCard(w, s, a, v, k, t, f).revision = v
         /\ NextCard(w, s, a, v, k, t, f).rework = k
BY DEF NextCard, Card

LEMMA OperationTells ==
  ASSUME TypeOK, WritesFollow, NothingSubmittedYet, NEW r \in Requests, Operation(r)
  PROVE  Tells(pending'[r].entry.op, pending'[r].entry.actor, pending'[r].entry.revision,
               pending'[r].row, pending'[r].submissions,
               items[pending'[r].item], submissions[pending'[r].item])
<1> DEFINE w == row[r]
           t == request[r].target
           s == submissions[t]
           q == request[r]
<1>1. CASE CreateWorkItem(r)
  <2> DEFINE new == NewCard(q.arg)
  <2>1. PICK i \in Items : items[i] = Null /\ Write(r, i, new, <<>>, Null, 0)
    BY <1>1 DEF CreateWorkItem, NewCard, Card
  <2>2. submissions[i] = <<>>
    BY <2>1 DEF NothingSubmittedYet
  <2>3. new.status = "DRAFT" /\ new.revision = 0 /\ new.rework = 0
    BY DEF NewCard, Card
  <2>4. q.op = "createWorkItem"
    BY <1>1 DEF CreateWorkItem
  <2> HIDE DEF new, q
  <2>5. Tells(q.op, q.actor, 0, new, <<>>, items[i], submissions[i])
    BY <2>1, <2>2, <2>3, <2>4 DEF Tells, RevisionOf, ReworkOf, ReviewOps
  <2> QED BY <2>1, <2>5, WriteEntry DEF q
<1>2. CASE ~CreateWorkItem(r)
  <2>1. /\ w = items[t] /\ w \in Row /\ w # Null
        /\ w.revision \in Nat /\ w.rework \in Nat
        /\ RevisionOf(w) = w.revision /\ ReworkOf(w) = w.rework
    <3>1. w = items[t] /\ w \in Row
      BY <1>2, OperationWrites DEF WritesFollow, LockedIsCurrent, TypeOK, SlotOK
    <3> QED BY <3>1, ConstantsAssumption DEF RevisionOf, ReworkOf, Row
  <2>2. ASSUME NEW new, NEW subs, NEW before, NEW revision,
               Write(r, t, new, subs, before, revision),
               Tells(q.op, q.actor, revision, new, subs, w, s)
        PROVE  Tells(pending'[r].entry.op, pending'[r].entry.actor, pending'[r].entry.revision,
                     pending'[r].row, pending'[r].submissions,
                     items[pending'[r].item], submissions[pending'[r].item])
    BY <2>1, <2>2, WriteEntry
  <2>3. CASE AssignWorkItem(r)
    <3> DEFINE new == [Changed(w, "ASSIGNED") EXCEPT !.assignee = q.arg]
    <3>1. q.op = "assignWorkItem" /\ Write(r, t, new, s, w.status, 0)
      BY <2>3 DEF AssignWorkItem, Runs
    <3>2. new = NextCard(w, "ASSIGNED", q.arg, w.revision, w.rework, w.value, w.fieldVersion)
      BY <2>1, RowsWritten
    <3> HIDE DEF new, w, s, q
    <3>3. new.revision = w.revision /\ new.rework = w.rework /\ new.status # "SUBMITTED"
      BY <3>1, <3>2, NextCardColumns
    <3>4. Tells(q.op, q.actor, 0, new, s, w, s)
      BY <2>1, <3>1, <3>3 DEF Tells, ReviewOps
    <3> QED BY <2>2, <3>1, <3>4
  <2>4. CASE PatchWorkItemFields(r)
    <3> DEFINE new == [Changed(w, w.status) EXCEPT !.value = q.arg, !.fieldVersion = @ + 1]
    <3>1. q.op = "patchWorkItemFields" /\ Write(r, t, new, s, w.status, 0) /\ w.status # "SUBMITTED"
      BY <2>4 DEF PatchWorkItemFields, MayPatch, Runs
    <3>2. new = NextCard(w, w.status, w.assignee, w.revision, w.rework, q.arg, w.fieldVersion + 1)
      BY <2>1, RowsWritten
    <3> HIDE DEF new, w, s, q
    <3>3. new.revision = w.revision /\ new.rework = w.rework /\ new.status # "SUBMITTED"
      BY <3>1, <3>2, NextCardColumns
    <3>4. Tells(q.op, q.actor, 0, new, s, w, s)
      BY <2>1, <3>1, <3>3 DEF Tells, ReviewOps
    <3> QED BY <2>2, <3>1, <3>4
  <2>5. CASE SubmitWorkItem(r)
    <3> DEFINE new == [Changed(w, "SUBMITTED") EXCEPT !.revision = @ + 1]
    <3>1. q.op = "submitWorkItem" /\ w.value # Null /\ w.assignee = q.actor
      BY <2>5 DEF SubmitWorkItem, MaySubmit, IsOwnRf, Runs
    <3>2. Write(r, t, new, Append(s, Snapshot(w)), w.status, w.revision + 1)
      BY <2>5, <3>1 DEF SubmitWorkItem, Snapshot
    <3>3. new = NextCard(w, "SUBMITTED", w.assignee, w.revision + 1, w.rework, w.value, w.fieldVersion)
      BY <2>1, RowsWritten
    <3>4. q \in Request
      BY <2>5, RunsType DEF SubmitWorkItem
    <3>5. Snapshot(w) \in Submission
      BY <2>1, <3>1, <3>4 DEF Snapshot, Submission, Row, Request
    <3> HIDE DEF new, w, s, q
    <3>6. Tells(q.op, q.actor, w.revision + 1, new, Append(s, Snapshot(w)), w, s)
      BY <2>1, <3>1, <3>3, <3>5, NextCardColumns DEF Tells, ReviewOps
    <3> QED BY <2>2, <3>2, <3>6
  <2>6. CASE ReworkWorkItem(r)
    <3> DEFINE new == [Changed(w, "IN_PROGRESS") EXCEPT !.rework = @ + 1]
    <3>1. /\ q.op = "reworkWorkItem" /\ Write(r, t, new, s, w.status, w.revision)
          /\ w.status = "SUBMITTED" /\ w.revision > 0 /\ q.actor # s[w.revision].by
      BY <2>6 DEF ReworkWorkItem, MayReview, Runs
    <3>2. new = NextCard(w, "IN_PROGRESS", w.assignee, w.revision, w.rework + 1, w.value, w.fieldVersion)
      BY <2>1, RowsWritten
    <3> HIDE DEF new, w, s, q
    <3>3. new.revision = w.revision /\ new.rework = w.rework + 1 /\ new.status # "SUBMITTED"
      BY <3>2, NextCardColumns
    <3>4. Tells(q.op, q.actor, w.revision, new, s, w, s)
      BY <2>1, <3>1, <3>3 DEF Tells, ReviewOps
    <3> QED BY <2>2, <3>1, <3>4
  <2>7. CASE AcceptWorkItem(r)
    <3> DEFINE new == Changed(w, "COMPLETED")
    <3>1. /\ q.op = "acceptWorkItem" /\ Write(r, t, new, s, w.status, w.revision)
          /\ w.status = "SUBMITTED" /\ w.revision > 0 /\ q.actor # s[w.revision].by
      BY <2>7 DEF AcceptWorkItem, MayReview, Runs
    <3>2. new = NextStatus(w, "COMPLETED")
      BY <2>1, RowsWritten
    <3> HIDE DEF new, w, s, q
    <3>3. new.revision = w.revision /\ new.rework = w.rework /\ new.status # "SUBMITTED"
      BY <3>2, NextCardColumns DEF NextStatus
    <3>4. Tells(q.op, q.actor, w.revision, new, s, w, s)
      BY <2>1, <3>1, <3>3 DEF Tells, ReviewOps
    <3> QED BY <2>2, <3>1, <3>4
  <2>8. CASE StartWorkItem(r) \/ CancelWorkItem(r) \/ ReopenWorkItem(r)
    <3>1. PICK status \in {"IN_PROGRESS", "CANCELLED"} : Write(r, t, Changed(w, status), s, w.status, 0)
      BY <2>8 DEF StartWorkItem, CancelWorkItem, ReopenWorkItem
    <3>2. q.op \in {"startWorkItem", "cancelWorkItem", "reopenWorkItem"}
      BY <2>8 DEF StartWorkItem, CancelWorkItem, ReopenWorkItem, Runs
    <3>3. Changed(w, status) = NextStatus(w, status)
      BY <2>1, RowsWritten
    <3> DEFINE new == NextStatus(w, status)
    <3>4. new.revision = w.revision /\ new.rework = w.rework /\ new.status # "SUBMITTED"
      BY NextCardColumns DEF NextStatus
    <3> HIDE DEF new, w, s, q
    <3>5. Tells(q.op, q.actor, 0, new, s, w, s)
      BY <2>1, <3>2, <3>4 DEF Tells, ReviewOps
    <3> QED BY <2>2, <3>1, <3>3, <3>5 DEF new
  <2> QED BY <1>2, <2>3, <2>4, <2>5, <2>6, <2>7, <2>8 DEF Operation
<1> QED BY <1>1, <1>2

LEMMA NextWritesTell ==
  ASSUME TypeOK, WritesFollow, NothingSubmittedYet, WritesTell, [Next]_vars
  PROVE  WritesTell'
<1>1. ASSUME NEW r \in Requests, Commit(r)
      PROVE  WritesTell'
  <2> DEFINE p == pending[r]
  <2>1. /\ p.item \in Items
        /\ items' = [items EXCEPT ![p.item] = p.row]
        /\ submissions' = [submissions EXCEPT ![p.item] = p.submissions]
        /\ pc[r] = "applied"
    BY <1>1, CommitEffect
  <2>2. /\ pc'[r] = "replied"
        /\ \A o \in Requests \ {r} : pc'[o] = pc[o] /\ pending'[o] = pending[o]
    BY <1>1 DEF Commit, Answer, TypeOK
  <2>3. ASSUME NEW o \in Requests, pc'[o] = "applied"
        PROVE  /\ WriteTells(pending[o])
               /\ pending'[o] = pending[o]
               /\ items'[pending[o].item] = items[pending[o].item]
               /\ submissions'[pending[o].item] = submissions[pending[o].item]
    <3>1. o # r /\ pc[o] = "applied" /\ pending'[o] = pending[o]
      BY <2>2, <2>3
    <3>2. pending[o].item # p.item /\ pending[o].item \in Items
      BY <2>1, <3>1 DEF WritesFollow, TypeOK, SlotOK, Writes
    <3> QED BY <2>1, <3>1, <3>2 DEF TypeOK, WritesTell
  <2>4. ASSUME NEW o \in Requests, pc'[o] = "applied"
        PROVE  Tells(pending'[o].entry.op, pending'[o].entry.actor, pending'[o].entry.revision,
                     pending'[o].row, pending'[o].submissions,
                     items'[pending'[o].item], submissions'[pending'[o].item])
    BY <2>3, <2>4 DEF WriteTells
  <2> QED BY <2>4 DEF WritesTell, WriteTells, Tells, RevisionOf, ReworkOf
<1>2. CASE \A r \in Requests : ~Commit(r)
  <2>1. items' = items /\ submissions' = submissions
    BY <1>2, OnlyCommitsChangeTables DEF tables
  <2>2. ASSUME NEW o \in Requests, pc'[o] = "applied"
        PROVE  Tells(pending'[o].entry.op, pending'[o].entry.actor, pending'[o].entry.revision,
                     pending'[o].row, pending'[o].submissions,
                     items[pending'[o].item], submissions[pending'[o].item])
    <3>1. CASE \E r \in Requests : Operation(r)
      <4>1. PICK r \in Requests : Operation(r)
        BY <3>1
      <4>2. CASE o = r
        BY <4>1, <4>2, OperationTells
      <4>3. CASE o # r
        <5>1. pc'[o] = pc[o] /\ pending'[o] = pending[o]
          BY <4>1, <4>3 DEF TypeOK, Operation, Write, CreateWorkItem, AssignWorkItem,
             StartWorkItem, PatchWorkItemFields, SubmitWorkItem, AcceptWorkItem,
             ReworkWorkItem, CancelWorkItem, ReopenWorkItem
        <5> QED BY <2>2, <5>1 DEF WritesTell, WriteTells
      <4> QED BY <4>2, <4>3
    <3>2. CASE \E r \in Requests : LockWorkItem(r)
      <4>1. pc[o] = "applied" /\ pending'[o] = pending[o]
        BY <2>2, <3>2 DEF LockWorkItem, TypeOK
      <4> QED BY <4>1 DEF WritesTell, WriteTells
    <3>3. CASE \/ UNCHANGED vars
               \/ \E g \in Revocable : RevokeGrant(g)
               \/ \E r \in Requests : \/ Send(r) \/ BeginIdempotent(r) \/ Refuse(r)
                                      \/ Fail(r) \/ Receive(r) \/ Retry(r)
      <4>1. pc[o] = "applied" /\ pending'[o] = pending[o]
        BY <2>2, <3>3, QuietSteps
      <4> QED BY <4>1 DEF WritesTell, WriteTells
    <3> QED BY <1>2, <3>1, <3>2, <3>3 DEF Next
  <2> QED BY <2>1, <2>2 DEF WritesTell, WriteTells, Tells, RevisionOf, ReworkOf
<1> QED BY <1>1, <1>2

-----------------------------------------------------------------------------
(* What a COMMIT adds to the history of its item *)

Known == TypeOK /\ WritesFollow /\ VersionsPositive /\ HistoryExplainsItem
           /\ ReviewedAsSubmitted /\ NothingSubmittedYet /\ WritesTell

\* The item that a COMMIT concerns: its card w, submissions s and history h, the
\* entry e it adds, and what they are after it.
LEMMA CommitTells ==
  ASSUME Known, Counted, NEW r \in Requests, Commit(r)
  PROVE  LET i == pending[r].item
             w == items[i]
             s == submissions[i]
             h == history[i]
             e == pending[r].entry
         IN  /\ i \in Items
             /\ h \in Seq(Entry) /\ e \in Entry /\ s \in Seq(Submission)
             /\ history'[i] = Append(h, e)
             /\ items'[i] \in Row /\ items'[i] # Null
             /\ Len(s) = RevisionOf(w)
             /\ Tells(e.op, e.actor, e.revision, items'[i], submissions'[i], w, s)
             /\ \A j \in Items \ {i} :
                  /\ items'[j] = items[j]
                  /\ submissions'[j] = submissions[j]
                  /\ history'[j] = history[j]
<1> DEFINE p == pending[r]
           i == p.item
<1>1. /\ i \in Items
      /\ p.row \in Row
      /\ pc[r] = "applied"
      /\ items' = [items EXCEPT ![i] = p.row]
      /\ submissions' = [submissions EXCEPT ![i] = p.submissions]
      /\ history' = [history EXCEPT ![i] = Append(@, p.entry)]
  BY CommitEffect DEF Known
<1>2. history[i] \in Seq(Entry) /\ p.entry \in Entry /\ history'[i] = Append(history[i], p.entry)
  BY CommitAppends DEF Known
<1>3. submissions[i] \in Seq(Submission)
  BY <1>1 DEF Known, TypeOK
<1>4. Len(submissions[i]) = RevisionOf(items[i])
  <2>1. CASE items[i] = Null
    <3>1. submissions[i] = <<>>
      BY <1>1, <2>1 DEF Known, NothingSubmittedYet
    <3> QED BY <2>1, <3>1 DEF RevisionOf
  <2>2. CASE items[i] # Null
    BY <1>1, <2>2 DEF Known, ReviewedAsSubmitted, Reviewed, RevisionOf
  <2> QED BY <2>1, <2>2
<1>5. items'[i] = p.row /\ submissions'[i] = p.submissions
  BY <1>1 DEF Known, TypeOK
<1>6. p.row # Null
  BY <1>1, ConstantsAssumption
<1>7. WriteTells(p)
  BY <1>1 DEF Known, WritesTell
<1>8. \A j \in Items \ {i} :
        items'[j] = items[j] /\ submissions'[j] = submissions[j] /\ history'[j] = history[j]
  BY <1>1 DEF Known, TypeOK
<1> QED BY <1>1, <1>2, <1>3, <1>4, <1>5, <1>6, <1>7, <1>8 DEF WriteTells

LEMMA NextCounted ==
  ASSUME Known, Counted, [Next]_vars
  PROVE  Counted'
<1>1. ASSUME NEW r \in Requests, Commit(r), NEW j \in Items
      PROVE  LET h == history'[j]
             IN  /\ RevisionOf(items'[j]) = Cardinality(With(h, "submitWorkItem", Len(h)))
                 /\ ReworkOf(items'[j]) = Cardinality(With(h, "reworkWorkItem", Len(h)))
                 /\ \A n \in DOMAIN h : h[n].op \in ReviewOps =>
                      h[n].revision \in 1 .. RevisionOf(items'[j])
                 /\ items'[j] # Null /\ items'[j].status = "SUBMITTED" =>
                      \A n \in DOMAIN h : h[n].op \in ReviewOps => h[n].revision # items'[j].revision
  <2> DEFINE i == pending[r].item
             h == history[i]
             e == pending[r].entry
             w == items[i]
             g == history'[i]
             new == items'[i]
  <2>1. CASE j # i
    BY <1>1, <2>1, CommitTells DEF Counted, Decisions
  <2>2. CASE j = i
    <3>1. /\ i \in Items
          /\ h \in Seq(Entry) /\ e \in Entry
          /\ g = Append(h, e)
          /\ new \in Row /\ new # Null
          /\ Tells(e.op, e.actor, e.revision, new, submissions'[i], w, submissions[i])
      BY <1>1, CommitTells
    <3>2. /\ Len(h) \in Nat /\ Len(g) = Len(h) + 1
          /\ g[Len(h) + 1] = e
          /\ \A n \in 1 .. Len(h) : g[n] = h[n]
          /\ \A op : Cardinality(With(g, op, Len(g)))
                       = Cardinality(With(h, op, Len(h))) + (IF e.op = op THEN 1 ELSE 0)
      BY <3>1, CountsGrow
    <3>3. /\ RevisionOf(w) = Cardinality(With(h, "submitWorkItem", Len(h)))
          /\ ReworkOf(w) = Cardinality(With(h, "reworkWorkItem", Len(h)))
      BY <3>1 DEF Counted
    <3>4. RevisionOf(new) = new.revision /\ ReworkOf(new) = new.rework /\ new.revision \in Nat
      BY <3>1 DEF RevisionOf, ReworkOf, Row
    <3>5. RevisionOf(w) \in Nat
      BY <3>1 DEF RevisionOf, Known, TypeOK, Row
    <3>6. new.revision = Cardinality(With(g, "submitWorkItem", Len(g)))
      <4>1. CASE e.op = "submitWorkItem"
        BY <3>1, <3>2, <3>3, <4>1 DEF Tells
      <4>2. CASE e.op # "submitWorkItem"
        BY <3>1, <3>2, <3>3, <3>5, <4>2 DEF Tells
      <4> QED BY <4>1, <4>2
    <3>7. new.rework = Cardinality(With(g, "reworkWorkItem", Len(g)))
      BY <3>1, <3>2, <3>3 DEF Tells
    <3>8. ASSUME NEW n \in 1 .. Len(h), h[n].op \in ReviewOps
          PROVE  h[n].revision \in 1 .. RevisionOf(w)
      BY <3>1, <3>8 DEF Counted, Decisions
    <3>9. new.revision \in {RevisionOf(w), RevisionOf(w) + 1}
      BY <3>1 DEF Tells
    <3>10. ASSUME NEW n \in DOMAIN g, g[n].op \in ReviewOps
           PROVE  g[n].revision \in 1 .. new.revision
      <4>1. CASE n = Len(h) + 1
        <5>1. /\ g[n].revision = w.revision
              /\ w.revision > 0
              /\ RevisionOf(w) = w.revision
              /\ new.revision = RevisionOf(w)
          BY <3>1, <3>2, <3>10, <4>1 DEF Tells, RevisionOf, ReviewOps
        <5> QED BY <3>5, <5>1
      <4>2. CASE n # Len(h) + 1
        <5>1. n \in 1 .. Len(h) /\ g[n] = h[n]
          BY <3>1, <3>2, <4>2
        <5>2. h[n].revision \in 1 .. RevisionOf(w)
          BY <3>8, <3>10, <5>1
        <5> QED BY <3>5, <3>9, <5>1, <5>2
      <4> QED BY <4>1, <4>2
    <3>11. ASSUME new.status = "SUBMITTED", NEW n \in DOMAIN g, g[n].op \in ReviewOps
           PROVE  g[n].revision # new.revision
      <4>1. e.op = "submitWorkItem" /\ new.revision = RevisionOf(w) + 1
        BY <3>1, <3>11 DEF Tells
      <4>2. n # Len(h) + 1
        BY <3>2, <3>11, <4>1 DEF ReviewOps
      <4>3. n \in 1 .. Len(h) /\ g[n] = h[n]
        BY <3>1, <3>2, <4>2
      <4>4. h[n].revision \in 1 .. RevisionOf(w)
        BY <3>8, <3>11, <4>3
      <4> QED BY <3>5, <4>1, <4>3, <4>4
    <3> HIDE DEF g, new
    <3> QED BY <2>2, <3>4, <3>6, <3>7, <3>10, <3>11 DEF g, new
  <2> QED BY <2>1, <2>2
<1>2. CASE \A r \in Requests : ~Commit(r)
  BY <1>2, OnlyCommitsChangeTables DEF tables, Counted, Decisions, RevisionOf, ReworkOf
<1> QED BY <1>1, <1>2 DEF Counted, Decisions, RevisionOf, ReworkOf

LEMMA NextIndependentReview ==
  ASSUME Known, Counted, IndependentReview, [Next]_vars
  PROVE  IndependentReview'
<1>1. ASSUME NEW r \in Requests, Commit(r), NEW j \in Items,
             NEW n \in DOMAIN history'[j], history'[j][n].op \in ReviewOps
      PROVE  LET e == history'[j][n]
             IN  /\ e.revision = Cardinality(With(history'[j], "submitWorkItem", n))
                 /\ e.revision \in DOMAIN submissions'[j]
                 /\ submissions'[j][e.revision].by # e.actor
  <2> DEFINE i == pending[r].item
             h == history[i]
             e == pending[r].entry
             w == items[i]
             s == submissions[i]
             g == history'[i]
             new == submissions'[i]
  <2>1. CASE j # i
    <3>1. history'[j] = history[j] /\ submissions'[j] = submissions[j]
      BY <1>1, <2>1, CommitTells
    <3> QED BY <1>1, <3>1 DEF IndependentReview, Decisions, With
  <2>2. CASE j = i
    <3>1. /\ i \in Items
          /\ h \in Seq(Entry) /\ e \in Entry /\ s \in Seq(Submission)
          /\ g = Append(h, e)
          /\ Len(s) = RevisionOf(w)
          /\ Tells(e.op, e.actor, e.revision, items'[i], new, w, s)
      BY <1>1, CommitTells
    <3>2. /\ Len(h) \in Nat /\ Len(g) = Len(h) + 1
          /\ g[Len(h) + 1] = e
          /\ \A k \in 1 .. Len(h) : g[k] = h[k]
      BY <3>1, CountsGrow
    <3> HIDE DEF g, h, e
    <3>3. /\ \A k \in 0 .. Len(h) : With(g, "submitWorkItem", k) = With(h, "submitWorkItem", k)
          /\ e.op # "submitWorkItem" =>
               With(g, "submitWorkItem", Len(h) + 1) = With(h, "submitWorkItem", Len(h))
      BY <3>1, <3>2 DEF With
    <3> USE DEF g, h, e
    <3>4. \A k \in 1 .. Len(s) : k \in DOMAIN new /\ new[k] = s[k]
      <4>1. new = s \/ \E x \in Submission : new = Append(s, x)
        BY <3>1 DEF Tells
      <4> QED BY <3>1, <4>1
    <3>5. CASE n = Len(h) + 1
      <4>1. /\ g[n] = e
            /\ e.op # "submitWorkItem"
            /\ w # Null
            /\ e.revision = w.revision
            /\ w.revision > 0
            /\ s[w.revision].by # e.actor
        BY <1>1, <2>2, <3>1, <3>2, <3>5 DEF Tells, ReviewOps
      <4>2. w.revision = Len(s) /\ w.revision \in 1 .. Len(s)
        BY <3>1, <4>1 DEF RevisionOf
      <4>3. w.revision = Cardinality(With(h, "submitWorkItem", Len(h)))
        BY <3>1, <4>1 DEF Counted, RevisionOf
      <4>4. With(g, "submitWorkItem", n) = With(h, "submitWorkItem", Len(h))
        BY <3>5, <3>3, <4>1
      <4> HIDE DEF g, new, s, h, e, w, i
      <4> QED BY <2>2, <3>4, <4>1, <4>2, <4>3, <4>4 DEF g, new
    <3>6. CASE n # Len(h) + 1
      <4>1. n \in 1 .. Len(h) /\ g[n] = h[n]
        BY <1>1, <2>2, <3>1, <3>2, <3>6
      <4>2. n \in Decisions(i)
        BY <1>1, <2>2, <3>1, <4>1 DEF Decisions
      <4>3. /\ h[n].revision = Cardinality(With(h, "submitWorkItem", n))
            /\ h[n].revision \in DOMAIN s
            /\ s[h[n].revision].by # h[n].actor
        BY <3>1, <4>2 DEF IndependentReview, With
      <4>4. h[n].revision \in 1 .. Len(s)
        BY <3>1, <4>3
      <4>5. With(g, "submitWorkItem", n) = With(h, "submitWorkItem", n)
        BY <3>2, <3>3, <4>1
      <4> HIDE DEF g, new, s, h, e, w, i
      <4> QED BY <2>2, <3>4, <4>1, <4>3, <4>4, <4>5 DEF g, new
    <3> QED BY <3>5, <3>6
  <2> QED BY <2>1, <2>2
<1>2. CASE \A r \in Requests : ~Commit(r)
  BY <1>2, OnlyCommitsChangeTables DEF tables, IndependentReview, Decisions
<1> QED BY <1>1, <1>2 DEF IndependentReview, Decisions, With

LEMMA NextOneDecision ==
  ASSUME Known, Counted, OneDecisionPerSubmission, [Next]_vars
  PROVE  OneDecisionPerSubmission'
<1>1. ASSUME NEW r \in Requests, Commit(r), NEW j \in Items,
             NEW m \in DOMAIN history'[j], history'[j][m].op \in ReviewOps,
             NEW n \in DOMAIN history'[j], history'[j][n].op \in ReviewOps,
             history'[j][m].revision = history'[j][n].revision
      PROVE  m = n
  <2> DEFINE i == pending[r].item
             h == history[i]
             e == pending[r].entry
             w == items[i]
             g == history'[i]
  <2>1. CASE j # i
    <3>1. history'[j] = history[j]
      BY <1>1, <2>1, CommitTells
    <3> QED BY <1>1, <3>1 DEF OneDecisionPerSubmission, Decisions
  <2>2. CASE j = i
    <3>1. /\ i \in Items
          /\ h \in Seq(Entry) /\ e \in Entry
          /\ g = Append(h, e)
          /\ Tells(e.op, e.actor, e.revision, items'[i], submissions'[i], w, submissions[i])
      BY <1>1, CommitTells
    <3>2. /\ Len(h) \in Nat /\ Len(g) = Len(h) + 1
          /\ g[Len(h) + 1] = e
          /\ \A k \in 1 .. Len(h) : g[k] = h[k]
      BY <3>1, CountsGrow
    <3>3. \A k \in DOMAIN g : k = Len(h) + 1 \/ (k \in 1 .. Len(h) /\ g[k] = h[k])
      BY <3>1, <3>2
    <3>4. \A k \in 1 .. Len(h) : h[k].op \in ReviewOps => k \in Decisions(i)
      BY <3>1 DEF Decisions
    <3>5. e.op \in ReviewOps => \A k \in Decisions(i) : h[k].revision # e.revision
      BY <3>1 DEF Tells, Counted
    <3>6. \A k, l \in Decisions(i) : h[k].revision = h[l].revision => k = l
      BY <3>1 DEF OneDecisionPerSubmission
    <3>7. /\ m \in DOMAIN g /\ g[m].op \in ReviewOps
          /\ n \in DOMAIN g /\ g[n].op \in ReviewOps
          /\ g[m].revision = g[n].revision
      BY <1>1, <2>2
    <3> HIDE DEF g, h, e, w, i
    <3> QED BY <3>2, <3>3, <3>4, <3>5, <3>6, <3>7
  <2> QED BY <2>1, <2>2
<1>2. \A i \in Items : items'[i] # Null =>
        items'[i].rework = Cardinality({n \in Decisions(i)' : history'[i][n].op = "reworkWorkItem"})
  <2>1. Counted' /\ history' \in [Items -> Seq(Entry)]
    BY NextCounted, NextTypeOK DEF Known, TypeOK
  <2>2. ASSUME NEW i \in Items
        PROVE  {n \in Decisions(i)' : history'[i][n].op = "reworkWorkItem"}
                 = With(history'[i], "reworkWorkItem", Len(history'[i]))
    <3>1. DOMAIN history'[i] = 1 .. Len(history'[i])
      BY <2>1
    <3> QED BY <3>1 DEF Decisions, With, ReviewOps
  <2> QED BY <2>1, <2>2 DEF Counted, ReworkOf
<1>3. ASSUME \A r \in Requests : ~Commit(r), NEW i \in Items, NEW m \in Decisions(i)', NEW n \in Decisions(i)',
             history'[i][m].revision = history'[i][n].revision
      PROVE  m = n
  <2>1. history' = history
    BY <1>3, OnlyCommitsChangeTables DEF tables
  <2> QED BY <1>3, <2>1 DEF OneDecisionPerSubmission, Decisions
<1> QED BY <1>1, <1>2, <1>3 DEF OneDecisionPerSubmission, Decisions

-----------------------------------------------------------------------------
(* Theorems *)

LEMMA KnownCorrect == Spec => []Known
<1> DEFINE Mine == VersionsPositive /\ HistoryExplainsItem /\ WritesReviewed
                     /\ ReviewedAsSubmitted /\ NothingSubmittedYet /\ WritesMove /\ WritesTell
<1>1. Init => Mine
  BY DEF Init, VersionsPositive, HistoryExplainsItem, WritesReviewed, ReviewedAsSubmitted,
         NothingSubmittedYet, WritesMove, WritesTell
<1>2. TypeOK /\ WritesFollow /\ Mine /\ [Next]_vars => Mine'
  BY NextVersionsPositive, NextHistoryExplainsItem, NextReviewed, NextWritesMove, NextWritesTell
<1>3. Spec => []Mine
  BY <1>1, <1>2, TypeCorrect, WritesCorrect, PTL DEF Spec
<1>4. TypeOK /\ WritesFollow /\ Mine => Known
  BY DEF Known
<1> QED BY <1>3, <1>4, TypeCorrect, WritesCorrect, PTL

LEMMA CountedCorrect == Spec => []Counted
<1>1. Init => Counted
  <2>1. ASSUME Init, NEW i \in Items
        PROVE  items[i] = Null /\ history[i] = <<>>
    BY <2>1 DEF Init
  <2>2. ASSUME NEW op
        PROVE  Cardinality(With(<<>>, op, Len(<<>>))) = 0
    <3>1. With(<<>>, op, Len(<<>>)) = {}
      BY DEF With
    <3> QED BY <3>1, FS_EmptySet
  <2>3. ASSUME Init, NEW i \in Items
        PROVE  /\ RevisionOf(items[i]) = 0 /\ ReworkOf(items[i]) = 0
               /\ Decisions(i) = {}
    BY <2>1, <2>3 DEF RevisionOf, ReworkOf, Decisions
  <2> QED BY <2>1, <2>2, <2>3 DEF Counted
<1>2. Known /\ Counted /\ [Next]_vars => Counted'
  BY NextCounted
<1> QED BY <1>1, <1>2, KnownCorrect, PTL DEF Spec

\* Every decision is about the submission that was the latest when it was made, and
\* not by who made that submission, whatever reviewers and executors interleave.
THEOREM ReviewsIndependent == Spec => []IndependentReview
<1>1. Init => IndependentReview
  BY DEF Init, IndependentReview, Decisions
<1>2. Known /\ Counted /\ IndependentReview /\ [Next]_vars => IndependentReview'
  BY NextIndependentReview
<1> QED BY <1>1, <1>2, KnownCorrect, CountedCorrect, PTL DEF Spec

\* Of any number of reviewers who race over a submission one decides it, and the
\* column rework_count of a card is the number of its returns.
THEOREM DecidedOnce == Spec => []OneDecisionPerSubmission
<1>1. Init => OneDecisionPerSubmission
  BY DEF Init, OneDecisionPerSubmission, Decisions
<1>2. Known /\ Counted /\ OneDecisionPerSubmission /\ [Next]_vars => OneDecisionPerSubmission'
  BY NextOneDecision
<1> QED BY <1>1, <1>2, KnownCorrect, CountedCorrect, PTL DEF Spec

-----------------------------------------------------------------------------
(* Grants *)

RoleFor(op) ==
  IF op \in {"startWorkItem", "patchWorkItemFields", "submitWorkItem"} THEN "RF" ELSE "REGIONAL_MANAGER"

\* An operation writes the row of an organisation its actor has the role in, now.
LEMMA OperationGranted ==
  ASSUME TypeOK, NEW r \in Requests, Operation(r)
  PROVE  HasGrant(request[r].actor, RoleFor(request[r].op), pending'[r].row.org)
<1> DEFINE w == row[r]
           q == request[r]
           t == q.target
           s == submissions[t]
<1>1. CASE CreateWorkItem(r)
  <2> DEFINE new == NewCard(q.arg)
  <2>1. PICK i \in Items : Write(r, i, new, <<>>, Null, 0)
    BY <1>1 DEF CreateWorkItem, NewCard, Card
  <2>2. new.org = q.arg
    BY DEF NewCard, Card
  <2>3. RoleFor(q.op) = "REGIONAL_MANAGER" /\ HasGrant(q.actor, "REGIONAL_MANAGER", q.arg)
    BY <1>1 DEF CreateWorkItem, RoleFor
  <2> HIDE DEF new
  <2> QED BY <2>1, <2>2, <2>3, WriteEffect
<1>2. CASE ~CreateWorkItem(r)
  <2>1. w \in Row
    BY <1>2, OperationWrites DEF TypeOK, SlotOK
  <2>2. \A status, a, v, k, x, f : NextCard(w, status, a, v, k, x, f).org = w.org
    BY DEF NextCard, Card
  <2>3. ASSUME NEW new, NEW subs, NEW before, NEW revision,
               Write(r, t, new, subs, before, revision), new.org = w.org,
               HasGrant(q.actor, RoleFor(q.op), w.org)
        PROVE  HasGrant(request[r].actor, RoleFor(request[r].op), pending'[r].row.org)
    BY <2>3, WriteEffect
  <2>4. CASE AssignWorkItem(r)
    <3> DEFINE new == [Changed(w, "ASSIGNED") EXCEPT !.assignee = q.arg]
    <3>1. Write(r, t, new, s, w.status, 0) /\ HasGrant(q.actor, RoleFor(q.op), w.org)
      BY <2>4 DEF AssignWorkItem, MayAssign, IsManager, Runs, RoleFor
    <3>2. new = NextCard(w, "ASSIGNED", q.arg, w.revision, w.rework, w.value, w.fieldVersion)
      BY <2>1, RowsWritten
    <3> HIDE DEF new, w, s, q
    <3>3. new.org = w.org
      BY <2>2, <3>2
    <3> QED BY <2>3, <3>1, <3>3
  <2>5. CASE PatchWorkItemFields(r)
    <3> DEFINE new == [Changed(w, w.status) EXCEPT !.value = q.arg, !.fieldVersion = @ + 1]
    <3>1. Write(r, t, new, s, w.status, 0) /\ HasGrant(q.actor, RoleFor(q.op), w.org)
      BY <2>5 DEF PatchWorkItemFields, MayPatch, IsOwnRf, Runs, RoleFor
    <3>2. new = NextCard(w, w.status, w.assignee, w.revision, w.rework, q.arg, w.fieldVersion + 1)
      BY <2>1, RowsWritten
    <3> HIDE DEF new, w, s, q
    <3>3. new.org = w.org
      BY <2>2, <3>2
    <3> QED BY <2>3, <3>1, <3>3
  <2>6. CASE SubmitWorkItem(r)
    <3> DEFINE new == [Changed(w, "SUBMITTED") EXCEPT !.revision = @ + 1]
    <3>1. HasGrant(q.actor, RoleFor(q.op), w.org) /\ w.assignee = q.actor
      BY <2>6 DEF SubmitWorkItem, MaySubmit, IsOwnRf, Runs, RoleFor
    <3>2. Write(r, t, new, Append(s, Snapshot(w)), w.status, w.revision + 1)
      BY <2>6, <3>1 DEF SubmitWorkItem, Snapshot
    <3>3. new = NextCard(w, "SUBMITTED", w.assignee, w.revision + 1, w.rework, w.value, w.fieldVersion)
      BY <2>1, RowsWritten
    <3> HIDE DEF new, w, s, q
    <3>4. new.org = w.org
      BY <2>2, <3>3
    <3> QED BY <2>3, <3>1, <3>2, <3>4
  <2>7. CASE ReworkWorkItem(r)
    <3> DEFINE new == [Changed(w, "IN_PROGRESS") EXCEPT !.rework = @ + 1]
    <3>1. Write(r, t, new, s, w.status, w.revision) /\ HasGrant(q.actor, RoleFor(q.op), w.org)
      BY <2>7 DEF ReworkWorkItem, MayReview, IsManager, Runs, RoleFor
    <3>2. new = NextCard(w, "IN_PROGRESS", w.assignee, w.revision, w.rework + 1, w.value, w.fieldVersion)
      BY <2>1, RowsWritten
    <3> HIDE DEF new, w, s, q
    <3>3. new.org = w.org
      BY <2>2, <3>2
    <3> QED BY <2>3, <3>1, <3>3
  <2>8. CASE StartWorkItem(r) \/ AcceptWorkItem(r) \/ CancelWorkItem(r) \/ ReopenWorkItem(r)
    <3>1. PICK status, revision : Write(r, t, Changed(w, status), s, w.status, revision)
      BY <2>8 DEF StartWorkItem, AcceptWorkItem, CancelWorkItem, ReopenWorkItem
    <3>2. HasGrant(q.actor, RoleFor(q.op), w.org)
      BY <2>8 DEF StartWorkItem, MayStart, AcceptWorkItem, MayReview, CancelWorkItem, MayCancel,
                  ReopenWorkItem, MayReopen, IsManager, IsOwnRf, Runs, RoleFor
    <3>3. Changed(w, status) = NextStatus(w, status)
      BY <2>1, RowsWritten
    <3> HIDE DEF w, s, q
    <3>4. NextStatus(w, status).org = w.org
      BY <2>2 DEF NextStatus
    <3> QED BY <2>3, <3>1, <3>2, <3>3, <3>4
  <2> QED BY <1>2, <2>4, <2>5, <2>6, <2>7, <2>8 DEF Operation
<1> QED BY <1>1, <1>2

\* An operation makes its writes only if its actor holds the role it asks for at that
\* moment, whenever grants are revoked while requests wait for keys and rows.
THEOREM RevocationsCaught == Spec => RevokedGrantIsCaught
<1> DEFINE Granted(r) ==
      HasGrant(request[r].actor, RoleFor(request[r].op), pending'[r].row.org)
<1>1. ASSUME TypeOK, [Next]_vars, NEW r \in Requests, pc[r] # "applied", pc'[r] = "applied"
      PROVE  Granted(r)
  <2>1. CASE Operation(r)
    BY <1>1, <2>1, OperationGranted
  <2>2. CASE \E o \in Requests \ {r} : Operation(o)
    <3>1. PICK o \in Requests \ {r} : pc' = [pc EXCEPT ![o] = "applied"]
      BY <2>2 DEF Operation, Write, CreateWorkItem, AssignWorkItem,
         StartWorkItem, PatchWorkItemFields, SubmitWorkItem, AcceptWorkItem,
         ReworkWorkItem, CancelWorkItem, ReopenWorkItem
    <3> QED BY <1>1, <3>1 DEF TypeOK
  <2>3. CASE \E o \in Requests : LockWorkItem(o) \/ Commit(o)
    BY <1>1, <2>3 DEF LockWorkItem, Commit, Answer, TypeOK
  <2>4. CASE \/ UNCHANGED vars
             \/ \E g \in Revocable : RevokeGrant(g)
             \/ \E o \in Requests : \/ Send(o) \/ BeginIdempotent(o) \/ Refuse(o)
                                    \/ Fail(o) \/ Receive(o) \/ Retry(o)
    BY <1>1, <2>4, QuietSteps
  <2> QED BY <1>1, <2>1, <2>2, <2>3, <2>4 DEF Next
<1>2. TypeOK /\ [Next]_vars
        => [\A r \in Requests : (pc[r] # "applied" /\ pc'[r] = "applied") => Granted(r)]_vars
  BY <1>1
<1>3. [\A r \in Requests : (pc[r] # "applied" /\ pc'[r] = "applied") => Granted(r)]_vars
        => [\A r \in Requests :
              (pc[r] # "applied" /\ pc'[r] = "applied") =>
                LET q == request[r]
                    role == IF q.op \in {"startWorkItem", "patchWorkItemFields", "submitWorkItem"}
                              THEN "RF" ELSE "REGIONAL_MANAGER"
                IN  HasGrant(q.actor, role, pending'[r].row.org)]_vars
  BY DEF RoleFor
<1> QED BY <1>2, <1>3, TypeCorrect, PTL DEF Spec, RevokedGrantIsCaught

================================================================================
