--------------------------- MODULE WorkItemsSafety ---------------------------
(***************************************************************************)
(* The types and the safety invariants of WorkItems, proved for all users, *)
(* items, keys, requests and grants and without the bounds TLC needs. The  *)
(* argument goes in layers, each resting on those before it:               *)
(*                                                                         *)
(*   TypeOK                                                                *)
(*   LocksExclude      no two transactions hold one lock                   *)
(*   WritesFollow      a locked row is the row of the table, and pending   *)
(*                     writes are the next step of the row they replace    *)
(*   HistoryExplainsItem, KeyAppliedOnce, ReviewedAsSubmitted              *)
(***************************************************************************)
EXTENDS WorkItems, TLAPS
-----------------------------------------------------------------------------
(* Type correctness *)

\* The requests a client can build from the card of i are well-formed.
LEMMA RequestsForType ==
  ASSUME NEW i \in Items, items[i] \in Row, NEW q \in RequestsFor(i)
  PROVE  /\ q \in Request
         /\ q.target = i
         /\ q.op # "createWorkItem"
         /\ q.op = "patchWorkItemFields" => q.arg \in Values
BY ConstantsAssumption DEF RequestsFor, Request, Row, Arguments

LEMMA CreateRequestsType ==
  ASSUME NEW q \in CreateRequests
  PROVE  q \in Request /\ q.target = Null /\ q.op = "createWorkItem"
BY ConstantsAssumption DEF CreateRequests, Request

LEMMA InitTypeOK == Init => TypeOK
BY DEF Init, TypeOK, SlotOK

LEMMA SendTypeOK ==
  ASSUME TypeOK, NEW r \in Requests, Send(r)
  PROVE  TypeOK'
<1> USE DEF TypeOK
<1>1. PICK q \in Request : /\ request' = [request EXCEPT ![r] = q]
                           /\ (q.target = Null) <=> (q.op = "createWorkItem")
                           /\ q.op = "patchWorkItemFields" => q.arg \in Values
                           /\ q.target # Null => items[q.target] # Null
  <2>1. CASE \E i \in Items :
               /\ items[i] # Null
               /\ \E q \in RequestsFor(i) : request' = [request EXCEPT ![r] = q]
    <3>1. PICK i \in Items :
            /\ items[i] # Null
            /\ \E q \in RequestsFor(i) : request' = [request EXCEPT ![r] = q]
      BY <2>1
    <3>2. items[i] \in Row
      BY <3>1
    <3> QED
      BY <3>1, <3>2, RequestsForType, ConstantsAssumption
  <2>2. CASE \E q \in CreateRequests : request' = [request EXCEPT ![r] = q]
    BY <2>2, CreateRequestsType
  <2> QED
    BY <2>1, <2>2 DEF Send
<1>2. pc' = [pc EXCEPT ![r] = "sent"]
  BY DEF Send
<1>3. UNCHANGED <<items, submissions, history, records, grants, row, pending, reply>>
  BY DEF Send, tables
<1>4. \A o \in Requests : SlotOK(o)'
  BY <1>1, <1>2, <1>3 DEF SlotOK
<1> QED
  BY <1>1, <1>2, <1>3, <1>4

LEMMA AnswerTypeOK ==
  ASSUME TypeOK, NEW r \in Requests, pc[r] # "idle",
         NEW code \in {"OK", "REPLAY", "IDEMPOTENCY_KEY_REUSED", "REFUSED", "UNAVAILABLE"},
         Answer(r, code), UNCHANGED tables
  PROVE  TypeOK'
BY DEF TypeOK, SlotOK, Answer, tables

LEMMA BeginIdempotentTypeOK ==
  ASSUME TypeOK, NEW r \in Requests, BeginIdempotent(r)
  PROVE  TypeOK'
<1>1. pc[r] = "sent" /\ UNCHANGED tables
  BY DEF BeginIdempotent
<1>2. CASE Answer(r, "REPLAY") \/ Answer(r, "IDEMPOTENCY_KEY_REUSED")
  BY <1>1, <1>2, AnswerTypeOK
<1>3. CASE /\ pc' = [pc EXCEPT ![r] = "begun"]
           /\ UNCHANGED <<grants, request, row, pending, reply>>
  BY <1>1, <1>3 DEF TypeOK, SlotOK, tables
<1> QED
  BY <1>2, <1>3 DEF BeginIdempotent

LEMMA LockWorkItemTypeOK ==
  ASSUME TypeOK, NEW r \in Requests, LockWorkItem(r)
  PROVE  TypeOK'
<1>1. request[r].target \in Items
  BY DEF TypeOK, SlotOK, LockWorkItem, Request
<1>2. items[request[r].target] \in Row
  BY <1>1 DEF TypeOK, SlotOK, LockWorkItem
<1> QED
  BY <1>1, <1>2 DEF TypeOK, SlotOK, LockWorkItem, tables

\* Writes of well-formed rows leave everything well-formed.
LEMMA WriteTypeOK ==
  ASSUME TypeOK, NEW r \in Requests, pc[r] # "idle",
         NEW i \in Items, NEW new \in Row, NEW subs \in Seq(Submission),
         NEW before \in Statuses \cup {Null}, NEW revision \in Nat,
         Write(r, i, new, subs, before, revision)
  PROVE  TypeOK'
<1> DEFINE w == [item |-> i, row |-> new, submissions |-> subs,
                 entry |-> [op |-> request[r].op, actor |-> request[r].actor,
                            key |-> request[r].key, version |-> new.version,
                            before |-> before, after |-> new.status,
                            revision |-> revision]]
<1>1. w \in Writes
  BY DEF TypeOK, SlotOK, Writes, Entry, Request, Row
<1>2. pending' = [pending EXCEPT ![r] = w] /\ pc' = [pc EXCEPT ![r] = "applied"]
  BY DEF Write
<1>3. UNCHANGED <<items, submissions, history, records, grants, request, row, reply>>
  BY DEF Write, tables
<1> HIDE DEF w
<1> QED
  BY <1>1, <1>2, <1>3 DEF TypeOK, SlotOK

LEMMA CreateWorkItemTypeOK ==
  ASSUME TypeOK, NEW r \in Requests, CreateWorkItem(r)
  PROVE  TypeOK'
<1> DEFINE new == [status |-> "DRAFT", org |-> request[r].arg, assignee |-> Null,
                   version |-> 1, revision |-> 0, rework |-> 0,
                   value |-> Null, fieldVersion |-> 1]
<1>1. new \in Row
  BY ConstantsAssumption DEF CreateWorkItem, TypeOK, SlotOK, HasGrant, Row, Statuses
<1>2. PICK i \in Items : Write(r, i, new, <<>>, Null, 0)
  BY DEF CreateWorkItem
<1>3. <<>> \in Seq(Submission) /\ pc[r] # "idle"
  BY DEF CreateWorkItem
<1> HIDE DEF new
<1> QED
  BY <1>1, <1>2, <1>3, WriteTypeOK

\* What an operation finds once it runs: the request, the row it locked and the
\* submissions of its work item, all well-formed.
LEMMA RunsType ==
  ASSUME TypeOK, NEW r \in Requests, NEW op, Runs(r, op)
  PROVE  /\ pc[r] # "idle"
         /\ request[r] \in Request
         /\ request[r].target \in Items
         /\ row[r] \in Row
         /\ submissions[request[r].target] \in Seq(Submission)
BY DEF TypeOK, SlotOK, Runs, Request

\* The rows that the operations write in place of a locked row w.
LEMMA ChangedType ==
  ASSUME NEW w \in Row, NEW status \in Statuses
  PROVE  /\ Changed(w, status) \in Row
         /\ Changed(w, status).version = w.version + 1
         /\ Changed(w, status).status = status
<1> DEFINE x == [w EXCEPT !.status = status]
<1>1. x \in Row /\ x.version \in Nat /\ x.version = w.version /\ x.status = status
  BY DEF Row
<1>2. Changed(w, status) = [x EXCEPT !.version = x.version + 1]
  BY DEF Changed, Row
<1> HIDE DEF x
<1>3. /\ Changed(w, status) \in Row
      /\ Changed(w, status).version = x.version + 1
      /\ Changed(w, status).status = x.status
  BY <1>1, <1>2 DEF Row
<1> QED
  BY <1>1, <1>3

LEMMA RowsType ==
  ASSUME NEW w \in Row
  PROVE  /\ w.status \in Statuses
         /\ w.status \in Statuses \cup {Null}
         /\ w.revision \in Nat
         /\ w.revision + 1 \in Nat
         /\ \A u \in Users : [w EXCEPT !.assignee = u] \in Row
         /\ \A text \in Values :
              [w EXCEPT !.value = text, !.fieldVersion = @ + 1] \in Row
         /\ [w EXCEPT !.revision = @ + 1] \in Row
         /\ [w EXCEPT !.rework = @ + 1] \in Row
<1>1. /\ w.status \in Statuses
      /\ w.revision \in Nat
      /\ w.rework \in Nat
      /\ w.fieldVersion \in Nat
  BY DEF Row
<1>2. \A u \in Users : [w EXCEPT !.assignee = u] \in Row
  BY DEF Row
<1>3. ASSUME NEW text \in Values
      PROVE  [w EXCEPT !.value = text, !.fieldVersion = @ + 1] \in Row
  <2> DEFINE x == [w EXCEPT !.value = text]
  <2>1. x \in Row /\ x.fieldVersion \in Nat
    BY DEF Row
  <2>2. [w EXCEPT !.value = text, !.fieldVersion = @ + 1]
          = [x EXCEPT !.fieldVersion = x.fieldVersion + 1]
    BY DEF Row
  <2> HIDE DEF x
  <2>3. [x EXCEPT !.fieldVersion = x.fieldVersion + 1] \in Row
    BY <2>1 DEF Row
  <2> QED
    BY <2>2, <2>3
<1>4. [w EXCEPT !.revision = @ + 1] \in Row
  BY <1>1 DEF Row
<1>5. [w EXCEPT !.rework = @ + 1] \in Row
  BY <1>1 DEF Row
<1>6. w.status \in Statuses \cup {Null} /\ w.revision + 1 \in Nat
  BY <1>1
<1> QED
  BY <1>1, <1>2, <1>3, <1>4, <1>5, <1>6, Zenon

LEMMA AssignWorkItemTypeOK ==
  ASSUME TypeOK, NEW r \in Requests, AssignWorkItem(r)
  PROVE  TypeOK'
<1> DEFINE new == [Changed(row[r], "ASSIGNED") EXCEPT !.assignee = request[r].arg]
           subs == submissions[request[r].target]
<1>1. request[r].arg \in Users
  BY ConstantsAssumption DEF AssignWorkItem, MayAssign, EligibleRf, HasGrant, TypeOK
<1>2. /\ pc[r] # "idle"
      /\ request[r].target \in Items
      /\ row[r] \in Row
      /\ subs \in Seq(Submission)
  BY RunsType DEF AssignWorkItem
<1>3. new \in Row
  BY <1>1, <1>2, ChangedType, RowsType DEF Statuses
<1>4. Write(r, request[r].target, new, subs, row[r].status, 0)
  BY DEF AssignWorkItem
<1> HIDE DEF new, subs
<1> QED
  BY <1>2, <1>3, <1>4, RowsType, WriteTypeOK

LEMMA PatchWorkItemFieldsTypeOK ==
  ASSUME TypeOK, NEW r \in Requests, PatchWorkItemFields(r)
  PROVE  TypeOK'
<1> DEFINE new == [Changed(row[r], row[r].status)
                     EXCEPT !.value = request[r].arg, !.fieldVersion = @ + 1]
           subs == submissions[request[r].target]
<1>1. request[r].arg \in Values
  BY DEF PatchWorkItemFields, Runs, TypeOK, SlotOK
<1>2. /\ pc[r] # "idle"
      /\ request[r].target \in Items
      /\ row[r] \in Row
      /\ subs \in Seq(Submission)
  BY RunsType DEF PatchWorkItemFields
<1>3. new \in Row
  BY <1>1, <1>2, ChangedType, RowsType
<1>4. Write(r, request[r].target, new, subs, row[r].status, 0)
  BY DEF PatchWorkItemFields
<1> HIDE DEF new, subs
<1> QED
  BY <1>2, <1>3, <1>4, RowsType, WriteTypeOK

LEMMA ReworkWorkItemTypeOK ==
  ASSUME TypeOK, NEW r \in Requests, ReworkWorkItem(r)
  PROVE  TypeOK'
<1> DEFINE new == [Changed(row[r], "IN_PROGRESS") EXCEPT !.rework = @ + 1]
           subs == submissions[request[r].target]
<1>1. /\ pc[r] # "idle"
      /\ request[r].target \in Items
      /\ row[r] \in Row
      /\ subs \in Seq(Submission)
  BY RunsType DEF ReworkWorkItem
<1>2. new \in Row
  BY <1>1, ChangedType, RowsType DEF Statuses
<1>3. Write(r, request[r].target, new, subs, row[r].status, row[r].revision)
  BY DEF ReworkWorkItem
<1> HIDE DEF new, subs
<1> QED
  BY <1>1, <1>2, <1>3, RowsType, WriteTypeOK

\* The operations that change nothing but the status.
LEMMA StatusOperationTypeOK ==
  ASSUME TypeOK, NEW r \in Requests,
         StartWorkItem(r) \/ AcceptWorkItem(r) \/ CancelWorkItem(r) \/ ReopenWorkItem(r)
  PROVE  TypeOK'
<1> DEFINE subs == submissions[request[r].target]
<1>1. /\ pc[r] # "idle"
      /\ request[r].target \in Items
      /\ row[r] \in Row
      /\ subs \in Seq(Submission)
  BY RunsType DEF StartWorkItem, AcceptWorkItem, CancelWorkItem, ReopenWorkItem
<1>2. row[r].status \in Statuses \cup {Null} /\ row[r].revision \in Nat
  BY <1>1, RowsType
<1>3. \A status \in Statuses : Changed(row[r], status) \in Row
  BY <1>1, ChangedType
<1>4. ASSUME NEW status \in {"IN_PROGRESS", "COMPLETED", "CANCELLED"},
             NEW revision \in Nat,
             Write(r, request[r].target, Changed(row[r], status), subs,
                   row[r].status, revision)
      PROVE  TypeOK'
  <2>1. Changed(row[r], status) \in Row
    BY <1>3 DEF Statuses
  <2> HIDE DEF subs
  <2> QED
    BY <1>1, <1>2, <1>4, <2>1, WriteTypeOK
<1> QED
  BY <1>2, <1>4 DEF StartWorkItem, AcceptWorkItem, CancelWorkItem, ReopenWorkItem

LEMMA SubmitWorkItemTypeOK ==
  ASSUME TypeOK, NEW r \in Requests, SubmitWorkItem(r)
  PROVE  TypeOK'
<1> DEFINE w == row[r]
           t == request[r].target
           snapshot == [value |-> w.value, fieldVersion |-> w.fieldVersion,
                        version |-> w.version + 1, by |-> request[r].actor]
           new == [Changed(w, "SUBMITTED") EXCEPT !.revision = @ + 1]
           subs == Append(submissions[t], snapshot)
<1>1. /\ w \in Row
      /\ t \in Items
      /\ pc[r] # "idle"
      /\ submissions[t] \in Seq(Submission)
      /\ request[r] \in Request
  BY RunsType DEF SubmitWorkItem
<1>2. snapshot \in Submission
  BY <1>1 DEF SubmitWorkItem, MaySubmit, Row, Submission, Request
<1>3. new \in Row /\ w.status \in Statuses \cup {Null} /\ w.revision + 1 \in Nat
  BY <1>1, ChangedType, RowsType DEF Statuses
<1>4. subs \in Seq(Submission)
  BY <1>1, <1>2
<1>5. Write(r, t, new, subs, w.status, w.revision + 1)
  BY DEF SubmitWorkItem
<1> HIDE DEF w, t, new, subs, snapshot
<1> QED
  BY <1>1, <1>3, <1>4, <1>5, WriteTypeOK

LEMMA CommitTypeOK ==
  ASSUME TypeOK, NEW r \in Requests, Commit(r)
  PROVE  TypeOK'
<1> DEFINE p == pending[r]
<1>1. /\ p \in Writes
      /\ request[r] \in Request
      /\ pc[r] # "idle"
  BY DEF Commit, TypeOK, SlotOK
<1>2. /\ p.item \in Items
      /\ p.row \in Row
      /\ p.submissions \in Seq(Submission)
      /\ p.entry \in Entry
      /\ p.row.version \in Nat
  BY <1>1 DEF Writes, Row
<1>3. items' = [items EXCEPT ![p.item] = p.row] /\ items' \in [Items -> Row \cup {Null}]
  BY <1>2 DEF Commit, TypeOK
<1>4. submissions' \in [Items -> Seq(Submission)]
  BY <1>2 DEF Commit, TypeOK
<1>5. history' \in [Items -> Seq(Entry)]
  <2>1. Append(history[p.item], p.entry) \in Seq(Entry)
    BY <1>2 DEF TypeOK
  <2> QED
    BY <2>1 DEF Commit, TypeOK
<1>6. records' \in [Users \X Ops \X Keys -> Record \cup {Null}]
  <2>1. [request |-> request[r], item |-> p.item, version |-> p.row.version] \in Record
    BY <1>1, <1>2 DEF Record
  <2> QED
    BY <2>1 DEF Commit, TypeOK
<1>7. PICK code \in {"OK", "UNAVAILABLE"} : Answer(r, code)
  BY DEF Commit
<1>8. \A o \in Requests : SlotOK(o)'
  BY <1>1, <1>2, <1>3, <1>7, ConstantsAssumption DEF TypeOK, SlotOK, Answer
<1> QED
  BY <1>3, <1>4, <1>5, <1>6, <1>7, <1>8 DEF TypeOK, Answer

LEMMA NextTypeOK ==
  ASSUME TypeOK, [Next]_vars
  PROVE  TypeOK'
<1>1. CASE UNCHANGED vars
  BY <1>1 DEF TypeOK, SlotOK, vars
<1>2. ASSUME NEW g \in Revocable, RevokeGrant(g)
      PROVE  TypeOK'
  BY <1>2 DEF RevokeGrant, TypeOK, SlotOK, tables
<1>3. ASSUME NEW r \in Requests, Operation(r)
      PROVE  TypeOK'
  BY <1>3, CreateWorkItemTypeOK, AssignWorkItemTypeOK, PatchWorkItemFieldsTypeOK,
     SubmitWorkItemTypeOK, ReworkWorkItemTypeOK, StatusOperationTypeOK DEF Operation
<1>4. ASSUME NEW r \in Requests, Refuse(r) \/ Fail(r)
      PROVE  TypeOK'
  BY <1>4, AnswerTypeOK DEF Refuse, Fail
<1>5. ASSUME NEW r \in Requests, Receive(r)
      PROVE  TypeOK'
  BY <1>5 DEF Receive, TypeOK, SlotOK, tables
<1>6. ASSUME NEW r \in Requests, Retry(r)
      PROVE  TypeOK'
  BY <1>6 DEF Retry, TypeOK, SlotOK, tables
<1> QED
  BY <1>1, <1>2, <1>3, <1>4, <1>5, <1>6, SendTypeOK, BeginIdempotentTypeOK, LockWorkItemTypeOK,
     CommitTypeOK DEF Next

\* In every reachable state every table and every request slot holds well-formed
\* rows, for any number of clients, work items and requests in flight.
THEOREM TypeCorrect == Spec => []TypeOK
<1>1. Init => TypeOK
  BY InitTypeOK
<1>2. TypeOK /\ [Next]_vars => TypeOK'
  BY NextTypeOK
<1> QED
  BY <1>1, <1>2, PTL DEF Spec

-----------------------------------------------------------------------------
(* The invariant *)

Holding == {"begun", "locked", "applied"}

LocksExclude ==
  \A r, o \in Requests : r # o =>
    /\ (pc[r] \in Holding /\ pc[o] \in Holding) => KeyOf(request[r]) # KeyOf(request[o])
    /\ (/\ pc[r] \in {"locked", "applied"}
        /\ pc[o] \in {"locked", "applied"}
        /\ request[r].target # Null) => request[r].target # request[o].target

LockedIsCurrent(r) == pc[r] = "locked" => row[r] = items[request[r].target]

\* The writes p of the request q are the next step of the item they are about.
Follows(p, q) ==
  /\ KeyOf(p.entry) = KeyOf(q)
  /\ p.entry.version = p.row.version
  /\ p.entry.after = p.row.status
  /\ IF q.target = Null
       THEN /\ items[p.item] = Null
            /\ p.row.version = 1
            /\ p.entry.before = Null
       ELSE /\ p.item = q.target
            /\ p.row.version = items[p.item].version + 1
            /\ p.entry.before = items[p.item].status

WritesFollow ==
  /\ \A r \in Requests : LockedIsCurrent(r)
  /\ \A r \in Requests : pc[r] = "applied" => Follows(pending[r], request[r])
  /\ \A r, o \in Requests :
       (r # o /\ pc[r] = "applied" /\ pc[o] = "applied") => pending[r].item # pending[o].item

KeysUnused ==
  \A r \in Requests : pc[r] \in Holding => records[KeyOf(request[r])] = Null

VersionsPositive == \A i \in Items : items[i] # Null => items[i].version >= 1

WritesReviewed ==
  \A r \in Requests : pc[r] = "applied" => Reviewed(pending[r].row, pending[r].submissions)

-----------------------------------------------------------------------------
(* The locks *)

\* Every step does one of these things to the locks: nothing; it ends or has not yet
\* begun the transaction of a request r; or it takes a key, a row, or goes on with them.
LEMMA LockSteps ==
  ASSUME TypeOK, [Next]_vars
  PROVE  \/ UNCHANGED <<pc, request>>
         \/ \E r \in Requests :
              /\ pc'[r] \notin Holding
              /\ \A o \in Requests \ {r} : pc'[o] = pc[o] /\ request'[o] = request[o]
         \/ \E r \in Requests :
              /\ pc' = [pc EXCEPT ![r] = "begun"]
              /\ request' = request
              /\ \A o \in Requests \ {r} : ~HoldsKey(o, KeyOf(request[r]))
              /\ records[KeyOf(request[r])] = Null
         \/ \E r \in Requests :
              /\ pc[r] = "begun"
              /\ pc' = [pc EXCEPT ![r] = "locked"]
              /\ request' = request
              /\ \A o \in Requests \ {r} : ~HoldsRow(o, request[r].target)
         \/ \E r \in Requests :
              /\ pc[r] = "locked" \/ (pc[r] = "begun" /\ request[r].target = Null)
              /\ pc' = [pc EXCEPT ![r] = "applied"]
              /\ request' = request
<1> USE DEF Holding
<1>0. pc \in [Requests -> {"idle", "sent", "begun", "locked", "applied", "replied"}]
      /\ request \in [Requests -> Request \cup {Null}]
  BY DEF TypeOK
<1>1. CASE UNCHANGED vars
  BY <1>1 DEF vars
<1>2. ASSUME NEW g \in Revocable, RevokeGrant(g)
      PROVE  UNCHANGED <<pc, request>>
  BY <1>2 DEF RevokeGrant
<1>3. ASSUME NEW r \in Requests,
             Send(r) \/ Refuse(r) \/ Commit(r) \/ Fail(r) \/ Receive(r) \/ Retry(r)
      PROVE  /\ pc'[r] \notin Holding
             /\ \A o \in Requests \ {r} : pc'[o] = pc[o] /\ request'[o] = request[o]
  BY <1>0, <1>3 DEF Send, Refuse, Commit, Fail, Receive, Retry, Answer
<1>4. ASSUME NEW r \in Requests, BeginIdempotent(r)
      PROVE  \/ /\ pc'[r] \notin Holding
                /\ \A o \in Requests \ {r} : pc'[o] = pc[o] /\ request'[o] = request[o]
             \/ /\ pc' = [pc EXCEPT ![r] = "begun"]
                /\ request' = request
                /\ \A o \in Requests \ {r} : ~HoldsKey(o, KeyOf(request[r]))
                /\ records[KeyOf(request[r])] = Null
  BY <1>0, <1>4 DEF BeginIdempotent, Answer
<1>5. ASSUME NEW r \in Requests, LockWorkItem(r)
      PROVE  /\ pc[r] = "begun"
             /\ pc' = [pc EXCEPT ![r] = "locked"]
             /\ request' = request
             /\ \A o \in Requests \ {r} : ~HoldsRow(o, request[r].target)
  BY <1>5 DEF LockWorkItem
<1>6. ASSUME NEW r \in Requests, Operation(r)
      PROVE  /\ pc[r] = "locked" \/ (pc[r] = "begun" /\ request[r].target = Null)
             /\ pc' = [pc EXCEPT ![r] = "applied"]
             /\ request' = request
  <2>1. CASE CreateWorkItem(r)
    BY <2>1 DEF CreateWorkItem, Write, TypeOK, SlotOK
  <2>2. CASE ~CreateWorkItem(r)
    BY <1>6, <2>2 DEF Operation, Runs, Write, AssignWorkItem, StartWorkItem,
       PatchWorkItemFields, SubmitWorkItem, AcceptWorkItem, ReworkWorkItem,
       CancelWorkItem, ReopenWorkItem
  <2> QED
    BY <2>1, <2>2
<1> QED
  BY <1>1, <1>2, <1>3, <1>4, <1>5, <1>6 DEF Next

LEMMA NextLocksExclude ==
  ASSUME TypeOK, LocksExclude, [Next]_vars
  PROVE  LocksExclude'
<1> USE DEF LocksExclude, Holding
<1>0. pc \in [Requests -> {"idle", "sent", "begun", "locked", "applied", "replied"}]
  BY DEF TypeOK
<1>1. CASE UNCHANGED <<pc, request>>
  BY <1>1 DEF KeyOf
<1>2. CASE \E r \in Requests :
             /\ pc'[r] \notin Holding
             /\ \A o \in Requests \ {r} : pc'[o] = pc[o] /\ request'[o] = request[o]
  BY <1>2 DEF KeyOf
<1>3. CASE \E r \in Requests :
             /\ pc' = [pc EXCEPT ![r] = "begun"]
             /\ request' = request
             /\ \A o \in Requests \ {r} : ~HoldsKey(o, KeyOf(request[r]))
             /\ records[KeyOf(request[r])] = Null
  BY <1>0, <1>3 DEF KeyOf, HoldsKey
<1>4. CASE \E r \in Requests :
             /\ pc[r] = "begun"
             /\ pc' = [pc EXCEPT ![r] = "locked"]
             /\ request' = request
             /\ \A o \in Requests \ {r} : ~HoldsRow(o, request[r].target)
  BY <1>0, <1>4 DEF KeyOf, HoldsRow
<1>5. CASE \E r \in Requests :
             /\ pc[r] = "locked" \/ (pc[r] = "begun" /\ request[r].target = Null)
             /\ pc' = [pc EXCEPT ![r] = "applied"]
             /\ request' = request
  BY <1>0, <1>5 DEF KeyOf
<1> QED
  BY <1>1, <1>2, <1>3, <1>4, <1>5, LockSteps

\* No two transactions hold the advisory lock of one key or the lock of one row.
THEOREM LocksCorrect == Spec => []LocksExclude
<1>1. Init => LocksExclude
  BY DEF Init, LocksExclude, Holding
<1>2. TypeOK /\ LocksExclude /\ [Next]_vars => LocksExclude'
  BY NextLocksExclude
<1> QED
  BY <1>1, <1>2, TypeCorrect, PTL DEF Spec

-----------------------------------------------------------------------------
(* The writes *)

\* Writing other columns leaves the version and the status alone.
LEMMA RowsKeepVersion ==
  ASSUME NEW w \in Row
  PROVE  /\ \A u : [w EXCEPT !.assignee = u].version = w.version
         /\ \A text, n : [w EXCEPT !.value = text, !.fieldVersion = n].version = w.version
         /\ \A n : [w EXCEPT !.revision = n].version = w.version
         /\ \A n : [w EXCEPT !.rework = n].version = w.version
BY DEF Row

\* An operation on a locked row writes a row of the next version.
LEMMA OperationWrites ==
  ASSUME TypeOK, NEW r \in Requests, Operation(r), ~CreateWorkItem(r)
  PROVE  /\ pc[r] = "locked"
         /\ \E new \in Row, subs \in Seq(Submission), revision \in Nat :
              /\ Write(r, request[r].target, new, subs, row[r].status, revision)
              /\ new.version = row[r].version + 1
<1> DEFINE w == row[r]
           t == request[r].target
<1>1. /\ pc[r] = "locked"
      /\ w \in Row
      /\ t \in Items
      /\ submissions[t] \in Seq(Submission)
      /\ request[r] \in Request
  <2>1. \E op : Runs(r, op)
    BY DEF Operation, AssignWorkItem, StartWorkItem, PatchWorkItemFields, SubmitWorkItem,
       AcceptWorkItem, ReworkWorkItem, CancelWorkItem, ReopenWorkItem
  <2> QED
    BY <2>1, RunsType DEF Runs
<1>2. w.revision \in Nat /\ w.revision + 1 \in Nat /\ 0 \in Nat /\ w.version \in Nat
  BY <1>1 DEF Row
<1>3. \A status \in Statuses :
        Changed(w, status) \in Row /\ Changed(w, status).version = w.version + 1
  BY <1>1, ChangedType
<1>4. CASE AssignWorkItem(r)
  <2> DEFINE new == [Changed(w, "ASSIGNED") EXCEPT !.assignee = request[r].arg]
  <2>1. request[r].arg \in Users
    BY <1>4, ConstantsAssumption DEF AssignWorkItem, MayAssign, EligibleRf, HasGrant, TypeOK
  <2>2. new \in Row /\ new.version = w.version + 1
    BY <1>3, <2>1, RowsType, RowsKeepVersion DEF Statuses
  <2>3. Write(r, t, new, submissions[t], w.status, 0)
    BY <1>4 DEF AssignWorkItem
  <2> HIDE DEF new, w, t
  <2> QED
    BY <1>1, <1>2, <2>2, <2>3 DEF w, t
<1>5. CASE PatchWorkItemFields(r)
  <2> DEFINE x == Changed(w, w.status)
             new == [x EXCEPT !.value = request[r].arg, !.fieldVersion = @ + 1]
  <2>1. request[r].arg \in Values
    BY <1>5 DEF PatchWorkItemFields, Runs, TypeOK, SlotOK
  <2>2. x \in Row /\ x.version = w.version + 1
    BY <1>1, <1>3, RowsType
  <2>3. new \in Row
    BY <2>1, <2>2, RowsType
  <2>4. new.version = x.version
    BY <2>2, RowsKeepVersion
  <2>5. Write(r, t, new, submissions[t], w.status, 0)
    BY <1>5 DEF PatchWorkItemFields
  <2> HIDE DEF x, new, w, t
  <2> QED
    BY <1>1, <1>2, <2>2, <2>3, <2>4, <2>5 DEF w, t
<1>6. CASE SubmitWorkItem(r)
  <2> DEFINE snapshot == [value |-> w.value, fieldVersion |-> w.fieldVersion,
                          version |-> w.version + 1, by |-> request[r].actor]
             new == [Changed(w, "SUBMITTED") EXCEPT !.revision = @ + 1]
             subs == Append(submissions[t], snapshot)
  <2>1. snapshot \in Submission
    BY <1>1, <1>6 DEF SubmitWorkItem, MaySubmit, Row, Submission, Request
  <2>2. new \in Row /\ new.version = w.version + 1
    BY <1>3, RowsType, RowsKeepVersion DEF Statuses
  <2>3. subs \in Seq(Submission)
    BY <1>1, <2>1
  <2>4. Write(r, t, new, subs, w.status, w.revision + 1)
    BY <1>6 DEF SubmitWorkItem
  <2> HIDE DEF snapshot, new, subs, w, t
  <2> QED
    BY <1>1, <1>2, <2>2, <2>3, <2>4 DEF w, t
<1>7. CASE ReworkWorkItem(r)
  <2> DEFINE new == [Changed(w, "IN_PROGRESS") EXCEPT !.rework = @ + 1]
  <2>1. new \in Row /\ new.version = w.version + 1
    BY <1>3, RowsType, RowsKeepVersion DEF Statuses
  <2>2. Write(r, t, new, submissions[t], w.status, w.revision)
    BY <1>7 DEF ReworkWorkItem
  <2> HIDE DEF new, w, t
  <2> QED
    BY <1>1, <1>2, <2>1, <2>2 DEF w, t
<1>8. CASE StartWorkItem(r) \/ AcceptWorkItem(r) \/ CancelWorkItem(r) \/ ReopenWorkItem(r)
  <2>1. PICK status \in {"IN_PROGRESS", "COMPLETED", "CANCELLED"}, revision \in Nat :
          Write(r, t, Changed(w, status), submissions[t], w.status, revision)
    BY <1>2, <1>8 DEF StartWorkItem, AcceptWorkItem, CancelWorkItem, ReopenWorkItem
  <2>2. Changed(w, status) \in Row /\ Changed(w, status).version = w.version + 1
    BY <1>3 DEF Statuses
  <2> HIDE DEF w, t
  <2> QED
    BY <1>1, <2>1, <2>2 DEF w, t
<1> QED
  BY <1>4, <1>5, <1>6, <1>7, <1>8 DEF Operation

\* The writes of an operation on the row of the table are the next step of its item.
LEMMA OperationFollows ==
  ASSUME TypeOK, LocksExclude, WritesFollow, NEW r \in Requests, Operation(r)
  PROVE  /\ Follows(pending'[r], request[r])
         /\ \A o \in Requests \ {r} : pc[o] = "applied" => pending'[r].item # pending[o].item
<1>0. pending \in [Requests -> Writes \cup {Null}]
  BY DEF TypeOK
<1>1. CASE CreateWorkItem(r)
  <2> DEFINE new == [status |-> "DRAFT", org |-> request[r].arg, assignee |-> Null,
                     version |-> 1, revision |-> 0, rework |-> 0,
                     value |-> Null, fieldVersion |-> 1]
  <2>1. PICK i \in Items : /\ items[i] = Null
                           /\ \A o \in Requests : pc[o] = "applied" => pending[o].item # i
                           /\ Write(r, i, new, <<>>, Null, 0)
    BY <1>1 DEF CreateWorkItem
  <2>2. request[r].target = Null
    BY <1>1 DEF CreateWorkItem, TypeOK, SlotOK
  <2>3. new.version = 1
    OBVIOUS
  <2> HIDE DEF new
  <2> QED
    BY <1>0, <2>1, <2>2, <2>3 DEF Write, Follows, KeyOf
<1>2. CASE ~CreateWorkItem(r)
  <2>1. PICK new \in Row, subs \in Seq(Submission), revision \in Nat :
          /\ Write(r, request[r].target, new, subs, row[r].status, revision)
          /\ new.version = row[r].version + 1
    BY <1>2, OperationWrites
  <2>2. /\ pc[r] = "locked"
        /\ row[r] = items[request[r].target]
        /\ request[r].target # Null
    BY <1>2, OperationWrites DEF WritesFollow, LockedIsCurrent, TypeOK, SlotOK
  <2>3. Follows(pending'[r], request[r])
    BY <1>0, <2>1, <2>2 DEF Write, Follows, KeyOf
  <2>4. ASSUME NEW o \in Requests \ {r}, pc[o] = "applied"
        PROVE  pending[o].item # request[r].target
    <3>1. Follows(pending[o], request[o])
      BY <2>4 DEF WritesFollow
    <3>2. CASE request[o].target = Null
      BY <2>2, <3>1, <3>2 DEF Follows, TypeOK, SlotOK
    <3>3. CASE request[o].target # Null
      BY <2>2, <2>4, <3>1, <3>3 DEF Follows, LocksExclude
    <3> QED
      BY <3>2, <3>3
  <2>5. pending'[r].item = request[r].target
    BY <1>0, <2>1 DEF Write
  <2> QED
    BY <2>3, <2>4, <2>5
<1> QED
  BY <1>1, <1>2

\* A step that ends no transaction with a COMMIT and makes no write leaves items alone,
\* and a request that has a row or writes after it had the same before it.
LEMMA QuietSteps ==
  ASSUME TypeOK,
         \/ UNCHANGED vars
         \/ \E g \in Revocable : RevokeGrant(g)
         \/ \E r \in Requests : \/ Send(r) \/ BeginIdempotent(r) \/ Refuse(r)
                                \/ Fail(r) \/ Receive(r) \/ Retry(r)
  PROVE  /\ items' = items
         /\ \A o \in Requests : pc'[o] \in {"locked", "applied"} =>
              /\ pc'[o] = pc[o]
              /\ request'[o] = request[o]
              /\ row'[o] = row[o]
              /\ pending'[o] = pending[o]
<1> USE DEF TypeOK
<1>1. CASE UNCHANGED vars
  BY <1>1 DEF vars
<1>2. CASE \E g \in Revocable : RevokeGrant(g)
  BY <1>2 DEF RevokeGrant, tables
<1>3. ASSUME NEW r \in Requests, Send(r) \/ Receive(r) \/ Retry(r)
      PROVE  /\ items' = items
             /\ row' = row /\ pending' = pending
             /\ pc'[r] \notin {"locked", "applied"}
             /\ \A o \in Requests \ {r} : pc'[o] = pc[o] /\ request'[o] = request[o]
  BY <1>3 DEF Send, Receive, Retry, tables
<1>4. ASSUME NEW r \in Requests, BeginIdempotent(r) \/ Refuse(r) \/ Fail(r)
      PROVE  /\ items' = items
             /\ pc'[r] \notin {"locked", "applied"}
             /\ \A o \in Requests \ {r} :
                  /\ pc'[o] = pc[o] /\ request'[o] = request[o]
                  /\ row'[o] = row[o] /\ pending'[o] = pending[o]
  BY <1>4 DEF BeginIdempotent, Refuse, Fail, Answer, tables
<1> QED
  BY <1>1, <1>2, <1>3, <1>4

LEMMA CommitWritesFollow ==
  ASSUME TypeOK, LocksExclude, WritesFollow, NEW r \in Requests, Commit(r)
  PROVE  WritesFollow'
<1> DEFINE i == pending[r].item
<1>1. /\ pc[r] = "applied"
      /\ items' = [items EXCEPT ![i] = pending[r].row]
      /\ pc'[r] = "replied"
      /\ request' = request
      /\ \A o \in Requests \ {r} :
           pc'[o] = pc[o] /\ row'[o] = row[o] /\ pending'[o] = pending[o]
  BY DEF Commit, Answer, TypeOK
<1>2. Follows(pending[r], request[r]) /\ items \in [Items -> Row \cup {Null}]
  BY <1>1 DEF WritesFollow, TypeOK
<1>3. ASSUME NEW o \in Requests \ {r}, pc[o] \in {"locked", "applied"},
             request[o].target # Null
      PROVE  request[o].target # i
  <2>1. items[request[o].target] # Null
    BY <1>3 DEF TypeOK, SlotOK
  <2>2. CASE request[r].target = Null
    BY <1>2, <2>1, <2>2 DEF Follows
  <2>3. CASE request[r].target # Null
    BY <1>1, <1>2, <1>3, <2>3 DEF Follows, LocksExclude
  <2> QED
    BY <2>2, <2>3
<1>4. ASSUME NEW o \in Requests, pc'[o] = "locked"
      PROVE  row'[o] = items'[request'[o].target]
  <2>1. /\ o # r
        /\ pc[o] = "locked"
        /\ row[o] = items[request[o].target]
        /\ request[o].target # Null
    BY <1>1, <1>4 DEF WritesFollow, LockedIsCurrent, TypeOK, SlotOK
  <2>2. items'[request[o].target] = items[request[o].target]
    BY <1>1, <1>2, <1>3, <2>1
  <2> QED
    BY <1>1, <2>1, <2>2
<1>5. ASSUME NEW o \in Requests, pc'[o] = "applied"
      PROVE  Follows(pending[o], request[o])'
  <2>1. /\ o # r
        /\ pc[o] = "applied"
        /\ Follows(pending[o], request[o])
        /\ pending[o].item # i
    BY <1>1, <1>5 DEF WritesFollow
  <2>2. items'[pending[o].item] = items[pending[o].item]
    BY <1>1, <1>2, <2>1
  <2> QED
    BY <1>1, <2>1, <2>2 DEF Follows, KeyOf
<1>6. ASSUME NEW o \in Requests, NEW s \in Requests,
             o # s, pc'[o] = "applied", pc'[s] = "applied"
      PROVE  pending'[o].item # pending'[s].item
  BY <1>1, <1>6 DEF WritesFollow
<1> QED
  BY <1>4, <1>5, <1>6 DEF WritesFollow, LockedIsCurrent

LEMMA NextWritesFollow ==
  ASSUME TypeOK, LocksExclude, WritesFollow, [Next]_vars
  PROVE  WritesFollow'
<1>1. CASE \/ UNCHANGED vars
           \/ \E g \in Revocable : RevokeGrant(g)
           \/ \E r \in Requests : \/ Send(r) \/ BeginIdempotent(r) \/ Refuse(r)
                                  \/ Fail(r) \/ Receive(r) \/ Retry(r)
  <2>1. /\ items' = items
        /\ \A o \in Requests : pc'[o] \in {"locked", "applied"} =>
             /\ pc'[o] = pc[o]
             /\ request'[o] = request[o]
             /\ row'[o] = row[o]
             /\ pending'[o] = pending[o]
    BY <1>1, QuietSteps
  <2> QED
    BY <2>1 DEF WritesFollow, LockedIsCurrent, Follows, KeyOf
<1>2. ASSUME NEW r \in Requests, LockWorkItem(r)
      PROVE  WritesFollow'
  <2>1. /\ items' = items /\ request' = request /\ pending' = pending
        /\ pc' = [pc EXCEPT ![r] = "locked"]
        /\ row' = [row EXCEPT ![r] = items[request[r].target]]
    BY <1>2 DEF LockWorkItem, tables
  <2> QED
    BY <2>1 DEF WritesFollow, LockedIsCurrent, Follows, KeyOf, TypeOK
<1>3. ASSUME NEW r \in Requests, Operation(r)
      PROVE  WritesFollow'
  <2>1. /\ items' = items /\ request' = request /\ row' = row
        /\ pc' = [pc EXCEPT ![r] = "applied"]
        /\ \A o \in Requests \ {r} : pending'[o] = pending[o]
    BY <1>3 DEF Operation, Write, tables, TypeOK, CreateWorkItem, AssignWorkItem,
       StartWorkItem, PatchWorkItemFields, SubmitWorkItem, AcceptWorkItem,
       ReworkWorkItem, CancelWorkItem, ReopenWorkItem
  <2>2. /\ Follows(pending'[r], request[r])
        /\ \A o \in Requests \ {r} : pc[o] = "applied" => pending'[r].item # pending[o].item
    BY <1>3, OperationFollows
  <2>3. pc \in [Requests -> {"idle", "sent", "begun", "locked", "applied", "replied"}]
    BY DEF TypeOK
  <2> QED
    BY <2>1, <2>2, <2>3 DEF WritesFollow, LockedIsCurrent, Follows, KeyOf
<1> QED
  BY <1>1, <1>2, <1>3, CommitWritesFollow DEF Next

\* The row a transaction has locked is the row of the table until it ends, and what
\* it is about to commit is the next step of the item, whatever the others commit.
THEOREM WritesCorrect == Spec => []WritesFollow
<1>1. Init => WritesFollow
  BY DEF Init, WritesFollow, LockedIsCurrent
<1>2. TypeOK /\ LocksExclude /\ WritesFollow /\ [Next]_vars => WritesFollow'
  BY NextWritesFollow
<1> QED
  BY <1>1, <1>2, TypeCorrect, LocksCorrect, PTL DEF Spec

-----------------------------------------------------------------------------
(* The history *)

LEMMA OnlyCommitsChangeTables ==
  ASSUME [Next]_vars, \A r \in Requests : ~Commit(r)
  PROVE  UNCHANGED tables
BY DEF Next, vars, tables, Send, BeginIdempotent, LockWorkItem, Refuse, Fail, Receive,
   Retry, RevokeGrant, Operation, Write, CreateWorkItem, AssignWorkItem, StartWorkItem,
   PatchWorkItemFields, SubmitWorkItem, AcceptWorkItem, ReworkWorkItem, CancelWorkItem,
   ReopenWorkItem

\* What a COMMIT does to the tables.
LEMMA CommitEffect ==
  ASSUME TypeOK, WritesFollow, NEW r \in Requests, Commit(r)
  PROVE  LET p == pending[r]
         IN  /\ pc[r] = "applied"
             /\ p \in Writes
             /\ p.item \in Items
             /\ p.row \in Row
             /\ request[r] \in Request
             /\ Follows(p, request[r])
             /\ items' = [items EXCEPT ![p.item] = p.row]
             /\ submissions' = [submissions EXCEPT ![p.item] = p.submissions]
             /\ history' = [history EXCEPT ![p.item] = Append(@, p.entry)]
             /\ records' = [records EXCEPT ![KeyOf(request[r])] =
                  [request |-> request[r], item |-> p.item, version |-> p.row.version]]
BY DEF Commit, WritesFollow, TypeOK, SlotOK, Writes

LEMMA NextKeysUnused ==
  ASSUME TypeOK, LocksExclude, KeysUnused, WritesFollow, [Next]_vars
  PROVE  KeysUnused'
<1> USE DEF Holding
<1>0. /\ pc \in [Requests -> {"idle", "sent", "begun", "locked", "applied", "replied"}]
      /\ records \in [Users \X Ops \X Keys -> Record \cup {Null}]
      /\ \A r \in Requests : pc[r] \in Holding => KeyOf(request[r]) \in Users \X Ops \X Keys
  BY DEF TypeOK, SlotOK, KeyOf, Request
<1>1. ASSUME NEW r \in Requests, Commit(r)
      PROVE  KeysUnused'
  <2>1. /\ request' = request
        /\ pc' = [pc EXCEPT ![r] = "replied"]
        /\ pc[r] = "applied"
    BY <1>1 DEF Commit, Answer
  <2>2. \A k \in Users \X Ops \X Keys : k # KeyOf(request[r]) => records'[k] = records[k]
    BY <1>0, <1>1, CommitEffect
  <2> QED
    BY <1>0, <2>1, <2>2 DEF KeysUnused, LocksExclude, KeyOf
<1>2. CASE \A r \in Requests : ~Commit(r)
  <2>1. records' = records
    BY <1>2, OnlyCommitsChangeTables DEF tables
  <2> QED
    BY <1>0, <2>1, LockSteps DEF KeysUnused, KeyOf
<1> QED
  BY <1>1, <1>2

LEMMA NextVersionsPositive ==
  ASSUME TypeOK, WritesFollow, VersionsPositive, [Next]_vars
  PROVE  VersionsPositive'
<1>1. ASSUME NEW r \in Requests, Commit(r)
      PROVE  VersionsPositive'
  <2> DEFINE p == pending[r]
  <2>1. /\ p.item \in Items
        /\ p.row \in Row
        /\ request[r] \in Request
        /\ Follows(p, request[r])
        /\ items' = [items EXCEPT ![p.item] = p.row]
    BY <1>1, CommitEffect
  <2>2. p.row.version >= 1
    <3>1. CASE request[r].target = Null
      BY <2>1, <3>1 DEF Follows
    <3>2. CASE request[r].target # Null
      <4>1. items[p.item] \in Row
        BY <1>1, <2>1, <3>2 DEF Follows, TypeOK, SlotOK, Commit
      <4> QED
        BY <2>1, <3>2, <4>1 DEF Follows, Row
    <3> QED
      BY <3>1, <3>2
  <2> QED
    BY <2>1, <2>2 DEF VersionsPositive, TypeOK
<1>2. CASE \A r \in Requests : ~Commit(r)
  BY <1>2, OnlyCommitsChangeTables DEF tables, VersionsPositive
<1> QED
  BY <1>1, <1>2

\* The history of the item that a COMMIT concerns grows by its entry, at the place
\* that the version of the new row names.
LEMMA CommitAppends ==
  ASSUME TypeOK, WritesFollow, VersionsPositive, HistoryExplainsItem,
         NEW r \in Requests, Commit(r)
  PROVE  LET p == pending[r]
             h == history[p.item]
         IN  /\ h \in Seq(Entry)
             /\ history'[p.item] = Append(h, p.entry)
             /\ p.entry \in Entry
             /\ p.row.version = Len(h) + 1
             /\ p.entry.before = IF Len(h) = 0 THEN Null ELSE h[Len(h)].after
<1> DEFINE p == pending[r]
           h == history[p.item]
<1>1. /\ p.item \in Items
      /\ p.entry \in Entry
      /\ Follows(p, request[r])
      /\ history' = [history EXCEPT ![p.item] = Append(@, p.entry)]
      /\ pc[r] = "applied"
  BY CommitEffect DEF Writes
<1>2. h \in Seq(Entry) /\ history'[p.item] = Append(h, p.entry)
  BY <1>1 DEF TypeOK
<1>3. CASE request[r].target = Null
  <2>1. h = <<>>
    BY <1>1, <1>3 DEF Follows, HistoryExplainsItem
  <2> QED
    BY <1>1, <1>2, <1>3, <2>1 DEF Follows
<1>4. CASE request[r].target # Null
  <2> DEFINE w == items[p.item]
  <2>1. w \in Row /\ w # Null
    BY <1>1, <1>4 DEF Follows, TypeOK, SlotOK
  <2>2. /\ Len(h) = w.version
        /\ h[Len(h)].after = w.status
        /\ w.version >= 1
    BY <1>1, <2>1 DEF HistoryExplainsItem, VersionsPositive
  <2>3. p.row.version = w.version + 1 /\ p.entry.before = w.status
    BY <1>1, <1>4 DEF Follows
  <2>4. Len(h) # 0
    BY <1>2, <2>2
  <2> HIDE DEF w, h, p
  <2> QED
    BY <1>1, <1>2, <2>2, <2>3, <2>4 DEF h, p
<1> QED
  BY <1>3, <1>4

LEMMA NextHistoryExplainsItem ==
  ASSUME TypeOK, WritesFollow, VersionsPositive, HistoryExplainsItem, [Next]_vars
  PROVE  HistoryExplainsItem'
<1>1. ASSUME NEW r \in Requests, Commit(r), NEW i \in Items
      PROVE  LET h == history'[i]
                 w == items'[i]
             IN  IF w = Null
                   THEN h = <<>>
                   ELSE /\ Len(h) = w.version
                        /\ \A n \in DOMAIN h : h[n].version = n
                        /\ \A n \in DOMAIN h :
                             h[n].before = IF n = 1 THEN Null ELSE h[n - 1].after
                        /\ h[Len(h)].after = w.status
  <2> DEFINE p == pending[r]
             h == history[p.item]
             e == p.entry
             n0 == p.row.version
  <2>1. /\ p.item \in Items
        /\ p.row \in Row
        /\ Follows(p, request[r])
        /\ items' = [items EXCEPT ![p.item] = p.row]
        /\ history' = [history EXCEPT ![p.item] = Append(@, e)]
    BY <1>1, CommitEffect
  <2>2. /\ h \in Seq(Entry)
        /\ history'[p.item] = Append(h, e)
        /\ e \in Entry
        /\ n0 = Len(h) + 1
        /\ e.before = IF Len(h) = 0 THEN Null ELSE h[Len(h)].after
    BY <1>1, CommitAppends
  <2>3. items'[p.item] = p.row /\ p.row # Null
    BY <2>1, ConstantsAssumption DEF TypeOK
  <2>4. e.version = n0 /\ e.after = p.row.status
    BY <2>1 DEF Follows
  <2>5. CASE i # p.item
    <3>1. history'[i] = history[i] /\ items'[i] = items[i]
      BY <2>1, <2>5 DEF TypeOK
    <3> QED
      BY <3>1 DEF HistoryExplainsItem
  <2>6. CASE i = p.item
    <3>1. /\ \A n \in DOMAIN h : h[n].version = n
          /\ \A n \in DOMAIN h :
               h[n].before = IF n = 1 THEN Null ELSE h[n - 1].after
      <4>1. CASE items[p.item] = Null
        <5>1. h = <<>>
          BY <2>1, <4>1 DEF HistoryExplainsItem
        <5> QED
          BY <5>1
      <4>2. CASE items[p.item] # Null
        BY <2>1, <4>2 DEF HistoryExplainsItem
      <4> QED
        BY <4>1, <4>2
    <3> DEFINE g == Append(h, e)
    <3> HIDE DEF p, h, e, n0
    <3>2. /\ Len(g) = n0
          /\ DOMAIN g = 1 .. n0
          /\ \A n \in DOMAIN h : n \in 1 .. Len(h) /\ g[n] = h[n]
          /\ DOMAIN h = 1 .. Len(h)
          /\ g[n0] = e
          /\ Len(h) \in Nat
      BY <2>2
    <3> HIDE DEF g
    <3>3. ASSUME NEW n \in DOMAIN g
          PROVE  /\ g[n].version = n
                 /\ g[n].before = IF n = 1 THEN Null ELSE g[n - 1].after
      <4>1. CASE n = n0
        BY <2>2, <2>4, <3>2, <4>1
      <4>2. CASE n # n0
        <5>1. n \in DOMAIN h /\ (n # 1 => n - 1 \in DOMAIN h)
          BY <2>2, <3>2, <4>2
        <5> QED
          BY <3>1, <3>2, <5>1
      <4> QED
        BY <4>1, <4>2
    <3>4. history'[i] = g /\ items'[i] # Null /\ Len(g) = items'[i].version
          /\ g[Len(g)].after = items'[i].status
      BY <2>2, <2>3, <2>4, <2>6, <3>2 DEF g, n0
    <3> QED
      BY <3>3, <3>4
  <2> QED
    BY <2>5, <2>6
<1>2. CASE \E r \in Requests : Commit(r)
  BY <1>1, <1>2 DEF HistoryExplainsItem
<1>3. CASE \A r \in Requests : ~Commit(r)
  BY <1>3, OnlyCommitsChangeTables DEF tables, HistoryExplainsItem
<1> QED
  BY <1>2, <1>3

\* A key a transaction holds has no record yet: the record comes with its COMMIT.
THEOREM KeysCorrect == Spec => []KeysUnused
<1>1. Init => KeysUnused
  BY DEF Init, KeysUnused, Holding
<1>2. TypeOK /\ LocksExclude /\ WritesFollow /\ KeysUnused /\ [Next]_vars => KeysUnused'
  BY NextKeysUnused
<1> QED
  BY <1>1, <1>2, TypeCorrect, LocksCorrect, WritesCorrect, PTL DEF Spec

\* No update of a work item is lost and none goes unrecorded: the audit rows number
\* its versions one by one, chain their statuses and end in the status of the row,
\* whatever the transactions of any number of clients interleave (lockWorkItem and
\* writeAuditAndOutbox in one transaction).
THEOREM HistoryCorrect == Spec => []HistoryExplainsItem
<1>1. Init => VersionsPositive /\ HistoryExplainsItem
  BY DEF Init, VersionsPositive, HistoryExplainsItem
<1>2. /\ TypeOK /\ WritesFollow /\ VersionsPositive /\ HistoryExplainsItem
      /\ [Next]_vars
      => VersionsPositive' /\ HistoryExplainsItem'
  BY NextVersionsPositive, NextHistoryExplainsItem
<1>3. Spec => [](VersionsPositive /\ HistoryExplainsItem)
  BY <1>1, <1>2, TypeCorrect, WritesCorrect, PTL DEF Spec
<1> QED
  BY <1>3, PTL

-----------------------------------------------------------------------------
(* The keys *)

LEMMA NextKeyAppliedOnce ==
  ASSUME TypeOK, WritesFollow, KeysUnused, VersionsPositive, HistoryExplainsItem,
         KeyAppliedOnce, [Next]_vars
  PROVE  KeyAppliedOnce'
<1>1. ASSUME NEW r \in Requests, Commit(r)
      PROVE  KeyAppliedOnce'
  <2> DEFINE p == pending[r]
             k == KeyOf(request[r])
             new == [request |-> request[r], item |-> p.item, version |-> p.row.version]
             h == history[p.item]
             e == p.entry
  <2>1. /\ p.item \in Items
        /\ k \in Users \X Ops \X Keys
        /\ KeyOf(e) = k
        /\ history' = [history EXCEPT ![p.item] = Append(@, e)]
        /\ records' = [records EXCEPT ![k] = new]
        /\ records[k] = Null
    <3>1. /\ p.item \in Items
          /\ request[r] \in Request
          /\ Follows(p, request[r])
          /\ pc[r] = "applied"
          /\ history' = [history EXCEPT ![p.item] = Append(@, e)]
          /\ records' = [records EXCEPT ![k] = new]
      BY <1>1, CommitEffect
    <3>2. k \in Users \X Ops \X Keys
      BY <3>1 DEF Request, KeyOf
    <3> QED
      BY <3>1, <3>2 DEF Follows, KeysUnused, Holding
  <2>2. /\ h \in Seq(Entry)
        /\ e \in Entry
        /\ p.row.version = Len(h) + 1
    BY <1>1, CommitAppends
  <2>3. /\ records \in [Users \X Ops \X Keys -> Record \cup {Null}]
        /\ history \in [Items -> Seq(Entry)]
    BY DEF TypeOK
  <2>4. new # Null /\ new.item = p.item /\ new.version = Len(h) + 1
    <3>1. new \in Record
      BY <1>1, CommitEffect DEF Record, Row
    <3> QED
      BY <2>2, <3>1, ConstantsAssumption
  <2> HIDE DEF new, k, h, e, p
  <2>5. /\ records'[k] = new
        /\ \A m \in Users \X Ops \X Keys : m # k => records'[m] = records[m]
    BY <2>1, <2>3
  <2>6. /\ \A i \in Items : i # p.item => history'[i] = history[i]
        /\ history'[p.item] = Append(h, e)
    BY <2>1, <2>3 DEF h
  <2>7. /\ DOMAIN Append(h, e) = 1 .. Len(h) + 1
        /\ DOMAIN h = 1 .. Len(h)
        /\ Len(h) \in Nat
        /\ \A n \in DOMAIN h : Append(h, e)[n] = h[n]
        /\ Append(h, e)[Len(h) + 1] = e
    BY <2>2
  <2>8. ASSUME NEW i \in Items, NEW n \in DOMAIN history[i]
        PROVE  /\ n \in DOMAIN history'[i]
               /\ history'[i][n] = history[i][n]
    <3>1. CASE i = p.item
      BY <2>6, <2>7, <3>1 DEF h
    <3>2. CASE i # p.item
      BY <2>6, <3>2
    <3> QED
      BY <3>1, <3>2
  <2>9. ASSUME NEW i \in Items, NEW n \in DOMAIN history[i]
        PROVE  LET saved == records'[KeyOf(history[i][n])]
               IN  saved # Null /\ saved.item = i /\ saved.version = n
    <3> DEFINE m == KeyOf(history[i][n])
    <3>1. m \in Users \X Ops \X Keys
      <4>1. history[i][n] \in Entry
        BY <2>3
      <4> QED
        BY <4>1 DEF Entry, KeyOf
    <3>2. records[m] # Null /\ records[m].item = i /\ records[m].version = n
      BY DEF KeyAppliedOnce
    <3> HIDE DEF m
    <3>3. records'[m] = records[m]
      BY <2>1, <2>5, <3>1, <3>2
    <3> QED
      BY <3>2, <3>3 DEF m
  <2>10. ASSUME NEW i \in Items, NEW n \in DOMAIN history'[i]
         PROVE  LET saved == records'[KeyOf(history'[i][n])]
                IN  saved # Null /\ saved.item = i /\ saved.version = n
    <3>1. CASE n \in DOMAIN history[i]
      BY <2>8, <2>9, <3>1
    <3>2. CASE n \notin DOMAIN history[i]
      <4>1. i = p.item /\ n = Len(h) + 1
        BY <2>6, <2>7, <3>2 DEF h
      <4>2. history'[i][n] = e
        BY <2>6, <2>7, <4>1
      <4> QED
        BY <2>1, <2>4, <2>5, <4>1, <4>2
    <3> QED
      BY <3>1, <3>2
  <2>11. ASSUME NEW m \in DOMAIN records', records'[m] # Null
         PROVE  /\ records'[m].version \in DOMAIN history'[records'[m].item]
                /\ KeyOf(history'[records'[m].item][records'[m].version]) = m
    <3>1. CASE m = k
      BY <2>1, <2>4, <2>5, <2>6, <2>7, <3>1
    <3>2. CASE m # k
      <4>1. m \in Users \X Ops \X Keys /\ records'[m] = records[m]
        BY <2>1, <2>3, <2>5, <3>2
      <4>2. /\ records[m].item \in Items
            /\ records[m].version \in DOMAIN history[records[m].item]
            /\ KeyOf(history[records[m].item][records[m].version]) = m
        BY <2>3, <2>11, <4>1 DEF KeyAppliedOnce, Record
      <4> QED
        BY <2>8, <4>1, <4>2
    <3> QED
      BY <3>1, <3>2
  <2> QED
    BY <2>10, <2>11 DEF KeyAppliedOnce, KeyOf
<1>2. CASE \A r \in Requests : ~Commit(r)
  BY <1>2, OnlyCommitsChangeTables DEF tables, KeyAppliedOnce, KeyOf
<1> QED
  BY <1>1, <1>2

\* One key of one actor and operation takes effect at most once and leaves exactly the
\* audit row that its idempotency record names, however often and however concurrently
\* the request is sent (beginIdempotent and completeIdempotent in one transaction).
THEOREM KeyOnceCorrect == Spec => []KeyAppliedOnce
<1> DEFINE Known == VersionsPositive /\ HistoryExplainsItem
<1>1. Init => Known /\ KeyAppliedOnce
  BY DEF Init, VersionsPositive, HistoryExplainsItem, KeyAppliedOnce
<1>2. /\ TypeOK /\ WritesFollow /\ KeysUnused /\ Known /\ KeyAppliedOnce
      /\ [Next]_vars
      => Known' /\ KeyAppliedOnce'
  BY NextVersionsPositive, NextHistoryExplainsItem, NextKeyAppliedOnce
<1>3. Spec => [](Known /\ KeyAppliedOnce)
  BY <1>1, <1>2, TypeCorrect, WritesCorrect, KeysCorrect, PTL DEF Spec
<1> QED
  BY <1>3, PTL

-----------------------------------------------------------------------------
(* The review *)

\* A change of status leaves the field and the number of submissions alone.
LEMMA ChangedKeeps ==
  ASSUME NEW w \in Row, NEW status \in Statuses
  PROVE  /\ Changed(w, status).revision = w.revision
         /\ Changed(w, status).value = w.value
         /\ Changed(w, status).fieldVersion = w.fieldVersion
<1> DEFINE x == [w EXCEPT !.status = status]
<1>1. /\ x \in Row
      /\ x.revision = w.revision
      /\ x.value = w.value
      /\ x.fieldVersion = w.fieldVersion
  BY DEF Row
<1>2. Changed(w, status) = [x EXCEPT !.version = x.version + 1]
  BY DEF Changed, Row
<1> HIDE DEF x
<1> QED
  BY <1>1, <1>2 DEF Row

\* An item that is neither under review nor accepted owes nothing to its submissions
\* but their number.
LEMMA OutOfReview ==
  ASSUME NEW w, NEW new, NEW subs,
         Reviewed(w, subs), new.revision = w.revision,
         new.status \notin {"SUBMITTED", "COMPLETED"}
  PROVE  Reviewed(new, subs)
BY DEF Reviewed

\* What an operation writes when it has locked the row of the table.
LEMMA OperationReviewed ==
  ASSUME TypeOK, WritesFollow, ReviewedAsSubmitted, NEW r \in Requests, Operation(r)
  PROVE  Reviewed(pending'[r].row, pending'[r].submissions)
<1> DEFINE w == row[r]
           t == request[r].target
           subs == submissions[t]
<1>0. pending \in [Requests -> Writes \cup {Null}]
  BY DEF TypeOK
<1>1. ASSUME NEW i, NEW new, NEW s, NEW before, NEW revision,
             Write(r, i, new, s, before, revision), Reviewed(new, s)
      PROVE  Reviewed(pending'[r].row, pending'[r].submissions)
  <2>1. pending'[r].row = new /\ pending'[r].submissions = s
    BY <1>0, <1>1 DEF Write
  <2> QED
    BY <1>1, <2>1
<1>2. CASE CreateWorkItem(r)
  <2> DEFINE new == [status |-> "DRAFT", org |-> request[r].arg, assignee |-> Null,
                     version |-> 1, revision |-> 0, rework |-> 0,
                     value |-> Null, fieldVersion |-> 1]
  <2>1. PICK i \in Items : Write(r, i, new, <<>>, Null, 0)
    BY <1>2 DEF CreateWorkItem
  <2>2. Reviewed(new, <<>>)
    BY DEF Reviewed
  <2> HIDE DEF new
  <2> QED
    BY <1>1, <2>1, <2>2
<1>3. CASE ~CreateWorkItem(r)
  <2>1. /\ w \in Row
        /\ t \in Items
        /\ subs \in Seq(Submission)
        /\ Reviewed(w, subs)
        /\ request[r] \in Request
    <3>1. pc[r] = "locked"
      BY <1>3, OperationWrites
    <3>2. w = items[t] /\ w \in Row /\ t \in Items
      BY <3>1 DEF WritesFollow, LockedIsCurrent, TypeOK, SlotOK, Request
    <3> QED
      BY <3>1, <3>2, ConstantsAssumption DEF ReviewedAsSubmitted, TypeOK, SlotOK
  <2>2. \A status \in Statuses :
          /\ Changed(w, status) \in Row
          /\ Changed(w, status).status = status
          /\ Changed(w, status).revision = w.revision
          /\ Changed(w, status).value = w.value
          /\ Changed(w, status).fieldVersion = w.fieldVersion
    BY <2>1, ChangedType, ChangedKeeps
  <2>3. CASE AssignWorkItem(r)
    <3> DEFINE x == Changed(w, "ASSIGNED")
               new == [x EXCEPT !.assignee = request[r].arg]
    <3>1. Write(r, t, new, subs, w.status, 0)
      BY <2>3 DEF AssignWorkItem
    <3>2. x \in Row /\ x.revision = w.revision /\ x.status = "ASSIGNED"
      BY <2>2 DEF Statuses
    <3> HIDE DEF x
    <3>3. new.revision = w.revision /\ new.status = "ASSIGNED"
      BY <3>2 DEF Row
    <3> HIDE DEF new, w, subs, t
    <3> QED
      BY <1>1, <2>1, <3>1, <3>3, OutOfReview
  <2>4. CASE PatchWorkItemFields(r)
    <3> DEFINE x == Changed(w, w.status)
               y == [x EXCEPT !.value = request[r].arg]
               new == [x EXCEPT !.value = request[r].arg, !.fieldVersion = @ + 1]
    <3>1. Write(r, t, new, subs, w.status, 0) /\ w.status \in {"ASSIGNED", "IN_PROGRESS"}
      BY <2>4 DEF PatchWorkItemFields, MayPatch
    <3>2. x \in Row /\ x.revision = w.revision /\ x.status = w.status
      BY <2>1, <2>2, RowsType
    <3> HIDE DEF x
    <3>3. y.revision = w.revision /\ y.status = w.status
      BY <3>2 DEF Row
    <3>4. new = [y EXCEPT !.fieldVersion = x.fieldVersion + 1]
      BY <3>2 DEF Row
    <3> HIDE DEF new
    <3>5. new.revision = w.revision /\ new.status = w.status
      BY <3>2, <3>3, <3>4 DEF Row
    <3> HIDE DEF w, subs, t, y
    <3> QED
      BY <1>1, <2>1, <3>1, <3>5, OutOfReview
  <2>5. CASE SubmitWorkItem(r)
    <3> DEFINE snapshot == [value |-> w.value, fieldVersion |-> w.fieldVersion,
                            version |-> w.version + 1, by |-> request[r].actor]
               x == Changed(w, "SUBMITTED")
               new == [x EXCEPT !.revision = @ + 1]
               s == Append(subs, snapshot)
    <3>1. Write(r, t, new, s, w.status, w.revision + 1) /\ w.value # Null
      BY <2>5 DEF SubmitWorkItem, MaySubmit
    <3>2. /\ x \in Row
          /\ x.revision = w.revision
          /\ x.status = "SUBMITTED"
          /\ x.value = w.value
          /\ x.fieldVersion = w.fieldVersion
          /\ x.version = w.version + 1
      BY <2>1, <2>2, ChangedType DEF Statuses
    <3> HIDE DEF x
    <3>3. /\ new.revision = w.revision + 1
          /\ new.status = "SUBMITTED"
          /\ new.value = w.value
          /\ new.fieldVersion = w.fieldVersion
          /\ new.version = w.version + 1
      BY <3>2 DEF Row
    <3>4. snapshot \in Submission
      BY <2>1, <3>1 DEF Row, Submission, Request
    <3>5. /\ snapshot.value = w.value
          /\ snapshot.fieldVersion = w.fieldVersion
          /\ snapshot.version = w.version + 1
      OBVIOUS
    <3>6. w.revision = Len(subs)
      BY <2>1 DEF Reviewed
    <3> HIDE DEF new, snapshot, subs, w, t
    <3>7. Len(s) = w.revision + 1 /\ s # <<>> /\ s[Len(s)] = snapshot
      <4>1. Len(s) = Len(subs) + 1 /\ Len(subs) \in Nat /\ s[Len(subs) + 1] = snapshot
        BY <2>1, <3>4
      <4>2. s # <<>>
        BY <4>1
      <4> QED
        BY <3>6, <4>1, <4>2
    <3> HIDE DEF s
    <3>8. Reviewed(new, s)
      BY <3>3, <3>5, <3>7 DEF Reviewed
    <3> QED
      BY <1>1, <3>1, <3>8
  <2>6. CASE AcceptWorkItem(r)
    <3> DEFINE new == Changed(w, "COMPLETED")
    <3>1. Write(r, t, new, subs, w.status, w.revision) /\ w.status = "SUBMITTED"
      BY <2>6 DEF AcceptWorkItem, MayReview
    <3>2. /\ new.revision = w.revision
          /\ new.status = "COMPLETED"
          /\ new.value = w.value
          /\ new.fieldVersion = w.fieldVersion
      BY <2>2 DEF Statuses
    <3> HIDE DEF new, subs, w, t
    <3>3. Reviewed(new, subs)
      BY <2>1, <3>1, <3>2 DEF Reviewed
    <3> QED
      BY <1>1, <3>1, <3>3
  <2>7. CASE ReworkWorkItem(r)
    <3> DEFINE x == Changed(w, "IN_PROGRESS")
               new == [x EXCEPT !.rework = @ + 1]
    <3>1. Write(r, t, new, subs, w.status, w.revision)
      BY <2>7 DEF ReworkWorkItem
    <3>2. x \in Row /\ x.revision = w.revision /\ x.status = "IN_PROGRESS"
      BY <2>2 DEF Statuses
    <3> HIDE DEF x
    <3>3. new.revision = w.revision /\ new.status = "IN_PROGRESS"
      BY <3>2 DEF Row
    <3> HIDE DEF new, w, subs, t
    <3> QED
      BY <1>1, <2>1, <3>1, <3>3, OutOfReview
  <2>8. CASE StartWorkItem(r) \/ CancelWorkItem(r) \/ ReopenWorkItem(r)
    <3>1. PICK status \in {"IN_PROGRESS", "CANCELLED"} :
            Write(r, t, Changed(w, status), subs, w.status, 0)
      BY <2>8 DEF StartWorkItem, CancelWorkItem, ReopenWorkItem
    <3> DEFINE new == Changed(w, status)
    <3>2. new.revision = w.revision /\ new.status = status
      BY <2>2 DEF Statuses
    <3> HIDE DEF new, w, subs, t
    <3>3. Reviewed(new, subs)
      BY <2>1, <3>2, OutOfReview
    <3> QED
      BY <1>1, <3>1, <3>3 DEF new
  <2> QED
    BY <1>3, <2>3, <2>4, <2>5, <2>6, <2>7, <2>8 DEF Operation
<1> QED
  BY <1>2, <1>3

LEMMA NextReviewed ==
  ASSUME TypeOK, WritesFollow, WritesReviewed, ReviewedAsSubmitted, [Next]_vars
  PROVE  WritesReviewed' /\ ReviewedAsSubmitted'
<1>1. ASSUME NEW r \in Requests, Commit(r)
      PROVE  WritesReviewed' /\ ReviewedAsSubmitted'
  <2> DEFINE p == pending[r]
  <2>1. /\ p.item \in Items
        /\ items' = [items EXCEPT ![p.item] = p.row]
        /\ submissions' = [submissions EXCEPT ![p.item] = p.submissions]
        /\ pc[r] = "applied"
    BY <1>1, CommitEffect
  <2>2. /\ pc'[r] = "replied"
        /\ \A o \in Requests \ {r} : pc'[o] = pc[o] /\ pending'[o] = pending[o]
    BY <1>1 DEF Commit, Answer, TypeOK
  <2>3. WritesReviewed'
    BY <2>2 DEF WritesReviewed, Reviewed
  <2>4. ASSUME NEW i \in Items, items'[i] # Null
        PROVE  Reviewed(items'[i], submissions'[i])
    <3>1. CASE i = p.item
      <4>1. items'[i] = p.row /\ submissions'[i] = p.submissions
        BY <2>1, <3>1 DEF TypeOK
      <4> QED
        BY <2>1, <4>1 DEF WritesReviewed
    <3>2. CASE i # p.item
      <4>1. items'[i] = items[i] /\ submissions'[i] = submissions[i]
        BY <2>1, <3>2 DEF TypeOK
      <4> QED
        BY <2>4, <4>1 DEF ReviewedAsSubmitted
    <3> QED
      BY <3>1, <3>2
  <2> QED
    BY <2>3, <2>4 DEF ReviewedAsSubmitted, Reviewed
<1>2. CASE \A r \in Requests : ~Commit(r)
  <2>1. ReviewedAsSubmitted'
    BY <1>2, OnlyCommitsChangeTables DEF tables, ReviewedAsSubmitted, Reviewed
  <2>2. ASSUME NEW r \in Requests, Operation(r)
        PROVE  WritesReviewed'
    <3>1. \A o \in Requests \ {r} : pc'[o] = pc[o] /\ pending'[o] = pending[o]
      BY <2>2 DEF TypeOK, Operation, Write, CreateWorkItem, AssignWorkItem,
         StartWorkItem, PatchWorkItemFields, SubmitWorkItem, AcceptWorkItem,
         ReworkWorkItem, CancelWorkItem, ReopenWorkItem
    <3>2. Reviewed(pending'[r].row, pending'[r].submissions)
      BY <2>2, OperationReviewed
    <3> QED
      BY <3>1, <3>2 DEF WritesReviewed, Reviewed
  <2>3. ASSUME NEW r \in Requests, LockWorkItem(r)
        PROVE  WritesReviewed'
    BY <2>3 DEF LockWorkItem, WritesReviewed, Reviewed, TypeOK
  <2>4. ASSUME \/ UNCHANGED vars
               \/ \E g \in Revocable : RevokeGrant(g)
               \/ \E r \in Requests : \/ Send(r) \/ BeginIdempotent(r) \/ Refuse(r)
                                      \/ Fail(r) \/ Receive(r) \/ Retry(r)
        PROVE  WritesReviewed'
    <3>1. \A o \in Requests : pc'[o] = "applied" =>
            pc[o] = "applied" /\ pending'[o] = pending[o]
      BY <2>4, QuietSteps
    <3> QED
      BY <3>1 DEF WritesReviewed, Reviewed
  <2>5. WritesReviewed'
    <3>1. \/ \E r \in Requests : Operation(r)
          \/ \E r \in Requests : LockWorkItem(r)
          \/ UNCHANGED vars
          \/ \E g \in Revocable : RevokeGrant(g)
          \/ \E r \in Requests : \/ Send(r) \/ BeginIdempotent(r) \/ Refuse(r)
                                 \/ Fail(r) \/ Receive(r) \/ Retry(r)
      BY <1>2 DEF Next
    <3> QED
      BY <2>2, <2>3, <2>4, <3>1
  <2> QED
    BY <2>1, <2>5
<1> QED
  BY <1>1, <1>2

\* While a work item is under review or accepted its field is its latest submission,
\* for any number of concurrent editors and reviewers: the row lock keeps every edit
\* that was allowed before the submission from being committed after it.
THEOREM ReviewedCorrect == Spec => []ReviewedAsSubmitted
<1>1. Init => WritesReviewed /\ ReviewedAsSubmitted
  BY DEF Init, WritesReviewed, ReviewedAsSubmitted
<1>2. /\ TypeOK /\ WritesFollow /\ WritesReviewed /\ ReviewedAsSubmitted
      /\ [Next]_vars
      => WritesReviewed' /\ ReviewedAsSubmitted'
  BY NextReviewed
<1>3. Spec => [](WritesReviewed /\ ReviewedAsSubmitted)
  BY <1>1, <1>2, TypeCorrect, WritesCorrect, PTL DEF Spec
<1> QED
  BY <1>3, PTL

=============================================================================
