------------------------------ MODULE WorkItems ------------------------------
(***************************************************************************)
(* The business mutations of server/src/domain/workItemService.ts, run as  *)
(* concurrent PostgreSQL transactions (READ COMMITTED) against the tables  *)
(* work_items (with its only field, work_item_fields), submissions,        *)
(* audit_log, idempotency_records and role_grants.                         *)
(*                                                                         *)
(* A request is carried by one slot r \in Requests and takes these steps:  *)
(*                                                                         *)
(*   Send              the client's POST or PATCH reaches the handler      *)
(*   BeginIdempotent   advisory lock on (actor, operation, key), then a    *)
(*                     replay, a KEY_REUSED error or a fresh record        *)
(*   LockWorkItem      SELECT ... FOR UPDATE of the work item              *)
(*   <operation>       grants and guards are checked and the writes made   *)
(*                     inside the transaction, not yet visible to others   *)
(*   Refuse            a check failed: ROLLBACK, an error is answered      *)
(*   Commit            COMMIT: the writes and the idempotency record       *)
(*                     become visible together; the locks are released     *)
(*   Fail              a database error or a crash: ROLLBACK, 503          *)
(*   Receive, Retry    the client takes the answer, or repeats the request *)
(*                                                                         *)
(* A row of audit_log with resolution APPLIED is inserted by               *)
(* writeAuditAndOutbox in the same statement pair as its outbox_events     *)
(* row, so an element of history stands for both.                          *)
(***************************************************************************)
EXTENDS Integers, Sequences, FiniteSets

CONSTANTS
  Users,         \* app_users that are active and do not share a password
  Orgs,          \* org_units
  Items,         \* identifiers gen_random_uuid() can give to work items
  Keys,          \* Idempotency-Key header values
  Values,        \* non-blank texts of completion_summary
  Requests,      \* slots for requests in flight
  Null,          \* SQL NULL
  InitialGrants, \* role_grants in force throughout, but for those revoked
  Revocable,     \* those that may be revoked meanwhile
  ClientOps,     \* the operations clients call
  MaxVersion     \* bound: clients send nothing more to an item of this version

Roles == {"REGIONAL_MANAGER", "RF"}

ReviewOps == {"acceptWorkItem", "reworkWorkItem"}

Ops == {"createWorkItem", "assignWorkItem", "startWorkItem", "patchWorkItemFields",
        "submitWorkItem", "cancelWorkItem", "reopenWorkItem"} \cup ReviewOps

VARIABLES
  items,        \* work_items joined with work_item_fields, by id
  submissions,  \* submissions of each work item, by revision
  history,      \* audit_log rows of each work item with resolution APPLIED
  records,      \* idempotency_records, by <<actor, operation, key>>
  grants,       \* role_grants in force: valid and not revoked
  pc,           \* where each request stands
  request,      \* the request in each slot
  row,          \* the work item as its transaction locked it
  pending,      \* the writes of its open transaction
  reply         \* the answer on its way to the client

tables == <<items, submissions, history, records>>
vars == <<items, submissions, history, records, grants, pc, request, row, pending, reply>>

-----------------------------------------------------------------------------
(* The rows *)

Statuses == {"DRAFT", "ASSIGNED", "IN_PROGRESS", "SUBMITTED", "COMPLETED", "CANCELLED"}

Row == [status: Statuses, org: Orgs, assignee: Users \cup {Null},
        version: Nat, revision: Nat, rework: Nat,
        value: Values \cup {Null}, fieldVersion: Nat]

Submission == [value: Values, fieldVersion: Nat, version: Nat, by: Users]

\* before and after are the statuses in before_state and after_state (for a
\* FIELDS_PATCH, which records no status, the status of the locked row);
\* revision is the submission made or decided on, 0 if there is none.
Entry == [op: Ops, actor: Users, key: Keys, version: Nat,
          before: Statuses \cup {Null}, after: Statuses, revision: Nat]

Request == [op: Ops, actor: Users, key: Keys, target: Items \cup {Null},
            expected: Nat, revision: Nat,
            arg: Users \cup Orgs \cup Values \cup {Null}]

\* The saved response: the card of this item at this version.
Record == [request: Request, item: Items, version: Nat]

Writes == [item: Items, row: Row, submissions: Seq(Submission), entry: Entry]

ASSUME ConstantsAssumption ==
  /\ Null \notin Users \cup Orgs \cup Items \cup Values
  /\ Null \notin Row \cup Record
  /\ InitialGrants \subseteq Users \X Roles \X Orgs
  /\ Revocable \subseteq InitialGrants
  /\ ClientOps \subseteq Ops
  /\ MaxVersion \in Nat

KeyOf(q) == <<q.actor, q.op, q.key>>

\* Mutants: the row lock is not taken, or is not given back before the client
\* has gone.
RowNotHeld(r, i) == FALSE

RowHeldTooLong(r, i) ==
  pc[r] \in {"locked", "applied", "replied"} /\ request[r].target = i

\* The transaction holds the advisory lock of its key until it ends.
HoldsKey(r, k) == pc[r] \in {"begun", "locked", "applied"} /\ KeyOf(request[r]) = k

\* The transaction holds the row lock of work item i until it ends.
HoldsRow(r, i) == pc[r] \in {"locked", "applied"} /\ request[r].target = i

-----------------------------------------------------------------------------
(* Grants, as getEffectiveGrants and isActiveRfWithGrant read them *)

HasGrant(u, role, org) == <<u, role, org>> \in grants

IsManager(u, w) == HasGrant(u, "REGIONAL_MANAGER", w.org)

\* Mutant: the assignee is believed to be an executor still.
IsAssignee(u, w) == w.assignee = u

IsOwnRf(u, w) == HasGrant(u, "RF", w.org) /\ w.assignee = u

EligibleRf(u, org) == HasGrant(u, "RF", org)

-----------------------------------------------------------------------------
(* What each operation requires of the locked row w: authorization first,  *)
(* then the version compared, then the status, then its own conditions.    *)

Expects(q, w) == w.version = q.expected

MayAssign(q, w) ==
  /\ IsManager(q.actor, w)
  /\ Expects(q, w)
  /\ w.status = "DRAFT"
  /\ EligibleRf(q.arg, w.org)

MayStart(q, w) ==
  /\ IsOwnRf(q.actor, w)
  /\ Expects(q, w)
  /\ w.status = "ASSIGNED"

\* Mutant: the text can be edited under review.
MayPatchSubmitted(q, w) ==
  /\ IsOwnRf(q.actor, w)
  /\ w.status \in {"ASSIGNED", "IN_PROGRESS", "SUBMITTED"}
  /\ w.fieldVersion = q.expected

\* A patch compares the version of the field and not that of the work item.
MayPatch(q, w) ==
  /\ IsOwnRf(q.actor, w)
  /\ w.status \in {"ASSIGNED", "IN_PROGRESS"}
  /\ w.fieldVersion = q.expected

\* Mutant: an empty field can be submitted.
MaySubmitBlank(q, w) ==
  /\ IsOwnRf(q.actor, w)
  /\ Expects(q, w)
  /\ w.status \in {"ASSIGNED", "IN_PROGRESS"}

MaySubmit(q, w) ==
  /\ IsOwnRf(q.actor, w)
  /\ Expects(q, w)
  /\ w.status \in {"ASSIGNED", "IN_PROGRESS"}
  /\ w.value # Null

\* Mutants: one's own work can be reviewed; neither the version nor the status of
\* the row is looked at again once the request is there.
MayReviewOwn(q, w) ==
  /\ Expects(q, w)
  /\ IsManager(q.actor, w)
  /\ w.status = "SUBMITTED"
  /\ w.revision > 0
  /\ q.revision = w.revision

MayReviewLate(q, w) ==
  /\ IsManager(q.actor, w)
  /\ w.revision > 0
  /\ q.actor # w.assignee
  /\ q.revision = w.revision

\* acceptWorkItem and reworkWorkItem: the version, then reviewGuard, then the
\* submission the client names (its id and its revision name the same row).
MayReview(q, w) ==
  /\ Expects(q, w)
  /\ IsManager(q.actor, w)
  /\ w.status = "SUBMITTED"
  /\ w.revision > 0
  /\ q.actor # w.assignee
  /\ q.actor # submissions[q.target][w.revision].by
  /\ q.revision = w.revision

MayCancel(q, w) ==
  /\ IsManager(q.actor, w)
  /\ Expects(q, w)
  /\ w.status \in {"DRAFT", "ASSIGNED", "IN_PROGRESS", "SUBMITTED"}

\* Mutant: a cancelled or submitted work item can be reopened.
MayReopenAny(q, w) ==
  /\ IsManager(q.actor, w)
  /\ Expects(q, w)
  /\ w.assignee # Null
  /\ EligibleRf(w.assignee, w.org)

MayReopen(q, w) ==
  /\ IsManager(q.actor, w)
  /\ Expects(q, w)
  /\ w.status = "COMPLETED"
  /\ w.assignee # Null
  /\ EligibleRf(w.assignee, w.org)

Permitted(q, w) ==
  \/ q.op = "assignWorkItem" /\ MayAssign(q, w)
  \/ q.op = "startWorkItem" /\ MayStart(q, w)
  \/ q.op = "patchWorkItemFields" /\ MayPatch(q, w)
  \/ q.op = "submitWorkItem" /\ MaySubmit(q, w)
  \/ q.op \in ReviewOps /\ MayReview(q, w)
  \/ q.op = "cancelWorkItem" /\ MayCancel(q, w)
  \/ q.op = "reopenWorkItem" /\ MayReopen(q, w)

-----------------------------------------------------------------------------
(* The client *)

\* The assignee of assignWorkItem, the new text of patchWorkItemFields.
Arguments(op) ==
  IF op = "assignWorkItem" THEN Users
  ELSE IF op = "patchWorkItemFields" THEN Values
  ELSE {Null}

\* What a client can ask of work item i, having read its card: the version
\* and the submissions it names are those of the card. The request may then
\* stay on its way while others change the item, and come with stale versions.
RequestsFor(i) ==
  {q \in [op: ClientOps \ {"createWorkItem"}, actor: Users, key: Keys, target: {i},
          expected: {items[i].version, items[i].fieldVersion},
          revision: 0 .. items[i].revision, arg: Users \cup Values \cup {Null}] :
     /\ q.expected = IF q.op = "patchWorkItemFields" THEN items[i].fieldVersion
                                                     ELSE items[i].version
     /\ q.op \notin ReviewOps => q.revision = 0
     /\ q.arg \in Arguments(q.op)}

CreateRequests ==
  [op: ClientOps \cap {"createWorkItem"}, actor: Users, key: Keys, target: {Null},
   expected: {0}, revision: {0}, arg: Orgs]

\* Bound: no more create requests in flight than identifiers left.
Creating == {r \in Requests : pc[r] # "idle" /\ request[r].op = "createWorkItem"}
IdentifiersLeft == Cardinality(Creating) < Cardinality({i \in Items : items[i] = Null})

Send(r) ==
  /\ pc[r] = "idle"
  /\ \/ \E i \in Items :
          /\ items[i] # Null
          /\ items[i].version < MaxVersion
          /\ \E q \in RequestsFor(i) : request' = [request EXCEPT ![r] = q]
     \/ /\ IdentifiersLeft
        /\ \E q \in CreateRequests : request' = [request EXCEPT ![r] = q]
  /\ pc' = [pc EXCEPT ![r] = "sent"]
  /\ UNCHANGED <<tables, grants, row, pending, reply>>

\* The transaction of r ends: its locks go, the client is answered.
Answer(r, code) ==
  /\ pc' = [pc EXCEPT ![r] = "replied"]
  /\ reply' = [reply EXCEPT ![r] = code]
  /\ row' = [row EXCEPT ![r] = Null]
  /\ pending' = [pending EXCEPT ![r] = Null]
  /\ UNCHANGED <<grants, request>>

Receive(r) ==
  /\ pc[r] = "replied"
  /\ pc' = [pc EXCEPT ![r] = "idle"]
  /\ request' = [request EXCEPT ![r] = Null]
  /\ reply' = [reply EXCEPT ![r] = Null]
  /\ UNCHANGED <<tables, grants, row, pending>>

\* The answer was lost or was an error: the same request with the same key.
Retry(r) ==
  /\ pc[r] = "replied"
  /\ pc' = [pc EXCEPT ![r] = "sent"]
  /\ reply' = [reply EXCEPT ![r] = Null]
  /\ UNCHANGED <<tables, grants, request, row, pending>>

-----------------------------------------------------------------------------
(* The transaction *)

\* Mutant: a key that comes back with another request is taken as a new one.
BeginUnlessReplay(r) ==
  LET k == KeyOf(request[r])
      replay == records[k] # Null /\ records[k].request = request[r]
  IN  /\ pc[r] = "sent"
      /\ \A o \in Requests \ {r} : ~HoldsKey(o, k)
      /\ \/ /\ ~replay
            /\ pc' = [pc EXCEPT ![r] = "begun"]
            /\ UNCHANGED <<grants, request, row, pending, reply>>
         \/ /\ replay
            /\ Answer(r, "REPLAY")
      /\ UNCHANGED tables

\* pg_advisory_xact_lock lets one transaction per key in. A record in status
\* IN_PROGRESS is seen by nobody: it is committed only as SUCCEEDED.
BeginIdempotent(r) ==
  LET k == KeyOf(request[r])
      saved == records[k]
  IN  /\ pc[r] = "sent"
      /\ \A o \in Requests \ {r} : ~HoldsKey(o, k)
      /\ \/ /\ saved = Null
            /\ pc' = [pc EXCEPT ![r] = "begun"]
            /\ UNCHANGED <<grants, request, row, pending, reply>>
         \/ /\ saved # Null
            /\ saved.request = request[r]
            /\ Answer(r, "REPLAY")
         \/ /\ saved # Null
            /\ saved.request # request[r]
            /\ Answer(r, "IDEMPOTENCY_KEY_REUSED")
      /\ UNCHANGED tables

\* Work items are never deleted, so the row a client has seen is found.
LockWorkItem(r) ==
  /\ pc[r] = "begun"
  /\ request[r].target # Null
  /\ \A o \in Requests \ {r} : ~HoldsRow(o, request[r].target)
  /\ row' = [row EXCEPT ![r] = items[request[r].target]]
  /\ pc' = [pc EXCEPT ![r] = "locked"]
  /\ UNCHANGED <<tables, grants, request, pending, reply>>

\* The UPDATE, the rows inserted with it, and writeAuditAndOutbox.
Write(r, i, new, subs, before, revision) ==
  /\ pending' = [pending EXCEPT ![r] =
       [item |-> i, row |-> new, submissions |-> subs,
        entry |-> [op |-> request[r].op, actor |-> request[r].actor, key |-> request[r].key,
                   version |-> new.version, before |-> before, after |-> new.status,
                   revision |-> revision]]]
  /\ pc' = [pc EXCEPT ![r] = "applied"]
  /\ UNCHANGED <<tables, grants, request, row, reply>>

\* The transaction of r holds the row of its work item and is to run op.
Runs(r, op) == pc[r] = "locked" /\ request[r].op = op

\* Mutant: the UPDATE forgets entity_version.
ChangedSilently(w, status) == [w EXCEPT !.status = status]

Changed(w, status) == [w EXCEPT !.status = status, !.version = @ + 1]

CreateWorkItem(r) ==
  LET q == request[r]
  IN  /\ pc[r] = "begun"
      /\ q.op = "createWorkItem"
      /\ HasGrant(q.actor, "REGIONAL_MANAGER", q.arg)
      /\ \E i \in Items :
           /\ items[i] = Null
           /\ \A o \in Requests : pc[o] = "applied" => pending[o].item # i
           /\ Write(r, i, [status |-> "DRAFT", org |-> q.arg, assignee |-> Null,
                           version |-> 1, revision |-> 0, rework |-> 0,
                           value |-> Null, fieldVersion |-> 1], <<>>, Null, 0)

AssignWorkItem(r) ==
  LET q == request[r]
      w == row[r]
  IN  /\ Runs(r, "assignWorkItem")
      /\ MayAssign(q, w)
      /\ Write(r, q.target, [Changed(w, "ASSIGNED") EXCEPT !.assignee = q.arg],
               submissions[q.target], w.status, 0)

StartWorkItem(r) ==
  LET q == request[r]
      w == row[r]
  IN  /\ Runs(r, "startWorkItem")
      /\ MayStart(q, w)
      /\ Write(r, q.target, Changed(w, "IN_PROGRESS"), submissions[q.target], w.status, 0)

PatchWorkItemFields(r) ==
  LET q == request[r]
      w == row[r]
  IN  /\ Runs(r, "patchWorkItemFields")
      /\ MayPatch(q, w)
      /\ Write(r, q.target,
               [Changed(w, w.status) EXCEPT !.value = q.arg, !.fieldVersion = @ + 1],
               submissions[q.target], w.status, 0)

\* The snapshot row carries the version the work item gets with it.
SubmitWorkItem(r) ==
  LET q == request[r]
      w == row[r]
      snapshot == [value |-> w.value, fieldVersion |-> w.fieldVersion,
                   version |-> w.version + 1, by |-> q.actor]
  IN  /\ Runs(r, "submitWorkItem")
      /\ MaySubmit(q, w)
      /\ Write(r, q.target, [Changed(w, "SUBMITTED") EXCEPT !.revision = @ + 1],
               Append(submissions[q.target], snapshot), w.status, w.revision + 1)

AcceptWorkItem(r) ==
  LET q == request[r]
      w == row[r]
  IN  /\ Runs(r, "acceptWorkItem")
      /\ MayReview(q, w)
      /\ Write(r, q.target, Changed(w, "COMPLETED"), submissions[q.target],
               w.status, w.revision)

ReworkWorkItem(r) ==
  LET q == request[r]
      w == row[r]
  IN  /\ Runs(r, "reworkWorkItem")
      /\ MayReview(q, w)
      /\ Write(r, q.target, [Changed(w, "IN_PROGRESS") EXCEPT !.rework = @ + 1],
               submissions[q.target], w.status, w.revision)

\* is_blocked and blocked_reason, which this handler clears, are set nowhere.
CancelWorkItem(r) ==
  LET q == request[r]
      w == row[r]
  IN  /\ Runs(r, "cancelWorkItem")
      /\ MayCancel(q, w)
      /\ Write(r, q.target, Changed(w, "CANCELLED"), submissions[q.target], w.status, 0)

ReopenWorkItem(r) ==
  LET q == request[r]
      w == row[r]
  IN  /\ Runs(r, "reopenWorkItem")
      /\ MayReopen(q, w)
      /\ Write(r, q.target, Changed(w, "IN_PROGRESS"), submissions[q.target], w.status, 0)

\* A check throws an ApiError: withTransaction rolls back. The audit row
\* FIELD_PATCH_REJECTED, which a stale field version inserts before it throws,
\* goes with the rollback.
Refuse(r) ==
  LET q == request[r]
  IN  /\ \/ pc[r] = "locked" /\ ~Permitted(q, row[r])
         \/ /\ pc[r] = "begun"
            /\ q.op = "createWorkItem"
            /\ ~HasGrant(q.actor, "REGIONAL_MANAGER", q.arg)
      /\ Answer(r, "REFUSED")
      /\ UNCHANGED tables

\* completeIdempotent and COMMIT. The client may get a 503 all the same when
\* the connection breaks after the commit.
Commit(r) ==
  LET p == pending[r]
  IN  /\ pc[r] = "applied"
      /\ items' = [items EXCEPT ![p.item] = p.row]
      /\ submissions' = [submissions EXCEPT ![p.item] = p.submissions]
      /\ history' = [history EXCEPT ![p.item] = Append(@, p.entry)]
      /\ records' = [records EXCEPT ![KeyOf(request[r])] =
           [request |-> request[r], item |-> p.item, version |-> p.row.version]]
      /\ \E code \in {"OK", "UNAVAILABLE"} : Answer(r, code)

\* Any statement fails, or the server or the connection does: the database
\* rolls the transaction back and the client sees a 503 or nothing.
Fail(r) ==
  /\ pc[r] \in {"sent", "begun", "locked", "applied"}
  /\ Answer(r, "UNAVAILABLE")
  /\ UNCHANGED tables

\* revoked_at is set. No lock of the requests stands in its way. (valid_until is
\* compared with now(), the start of the transaction: expiry is not modelled.)
RevokeGrant(g) ==
  /\ g \in grants
  /\ grants' = grants \ {g}
  /\ UNCHANGED <<tables, pc, request, row, pending, reply>>

-----------------------------------------------------------------------------
Init ==
  /\ items = [i \in Items |-> Null]
  /\ submissions = [i \in Items |-> <<>>]
  /\ history = [i \in Items |-> <<>>]
  /\ records = [k \in Users \X Ops \X Keys |-> Null]
  /\ grants = InitialGrants
  /\ pc = [r \in Requests |-> "idle"]
  /\ request = [r \in Requests |-> Null]
  /\ row = [r \in Requests |-> Null]
  /\ pending = [r \in Requests |-> Null]
  /\ reply = [r \in Requests |-> Null]

Operation(r) ==
  \/ CreateWorkItem(r)
  \/ AssignWorkItem(r)
  \/ StartWorkItem(r)
  \/ PatchWorkItemFields(r)
  \/ SubmitWorkItem(r)
  \/ AcceptWorkItem(r)
  \/ ReworkWorkItem(r)
  \/ CancelWorkItem(r)
  \/ ReopenWorkItem(r)

Next ==
  \/ \E r \in Requests :
       \/ Send(r)
       \/ BeginIdempotent(r)
       \/ LockWorkItem(r)
       \/ Operation(r)
       \/ Refuse(r)
       \/ Commit(r)
       \/ Fail(r)
       \/ Receive(r)
       \/ Retry(r)
  \/ \E g \in Revocable : RevokeGrant(g)

Spec == Init /\ [][Next]_vars

\* The server goes on with a request it has; PostgreSQL hands a lock to those
\* that wait for it in turn, so a wait that can end again and again does end.
Fairness ==
  \A r \in Requests :
    /\ SF_vars(BeginIdempotent(r))
    /\ SF_vars(LockWorkItem(r))
    /\ WF_vars(Operation(r) \/ Refuse(r))
    /\ WF_vars(Commit(r))

FairSpec == Spec /\ Fairness

-----------------------------------------------------------------------------
(* Properties *)

\* A request under way is well-formed and is about a work item that exists, unless
\* it creates one; a transaction has the row it locked, and the writes it made.
SlotOK(r) ==
  /\ pc[r] # "idle" =>
       /\ request[r] \in Request
       /\ (request[r].target = Null) <=> (request[r].op = "createWorkItem")
       /\ request[r].op = "patchWorkItemFields" => request[r].arg \in Values
       /\ request[r].target # Null => items[request[r].target] # Null
  /\ pc[r] = "locked" => row[r] \in Row /\ request[r].target # Null
  /\ pc[r] = "applied" => pending[r] \in Writes

\* Every variable holds rows and requests of the declared kinds, and only a
\* request that has got so far has a locked row, pending writes or an answer.
TypeOK ==
  /\ items \in [Items -> Row \cup {Null}]
  /\ submissions \in [Items -> Seq(Submission)]
  /\ history \in [Items -> Seq(Entry)]
  /\ records \in [Users \X Ops \X Keys -> Record \cup {Null}]
  /\ grants \subseteq InitialGrants
  /\ pc \in [Requests -> {"idle", "sent", "begun", "locked", "applied", "replied"}]
  /\ request \in [Requests -> Request \cup {Null}]
  /\ row \in [Requests -> Row \cup {Null}]
  /\ pending \in [Requests -> Writes \cup {Null}]
  /\ reply \in [Requests -> {Null, "OK", "REPLAY", "IDEMPOTENCY_KEY_REUSED",
                             "REFUSED", "UNAVAILABLE"}]
  /\ \A r \in Requests : SlotOK(r)

\* The audit rows of a work item number its versions without gap or repetition,
\* each starts from the status the one before it ended in, and the last one ends
\* in the status of the row: no update is lost or goes unrecorded, whatever the
\* transactions interleave (lockWorkItem, the version comparisons and
\* writeAuditAndOutbox in one transaction).
HistoryExplainsItem ==
  \A i \in Items :
    LET h == history[i]
        w == items[i]
    IN  IF w = Null
          THEN h = <<>>
          ELSE /\ Len(h) = w.version
               /\ \A n \in DOMAIN h : h[n].version = n
               /\ \A n \in DOMAIN h :
                    h[n].before = IF n = 1 THEN Null ELSE h[n - 1].after
               /\ h[Len(h)].after = w.status

\* What a row and its submissions have to do with each other.
Reviewed(w, subs) ==
  /\ w.revision = Len(subs)
  /\ w.status \in {"SUBMITTED", "COMPLETED"} =>
       /\ subs # <<>>
       /\ subs[Len(subs)].value = w.value
       /\ subs[Len(subs)].fieldVersion = w.fieldVersion
  /\ w.status = "SUBMITTED" => subs[Len(subs)].version = w.version

\* While a work item is under review or accepted, its field is exactly the text
\* and the version of its latest submission: nobody edits what the reviewer reads
\* (the status test of patchWorkItemFields against the snapshot of submitWorkItem).
ReviewedAsSubmitted ==
  \A i \in Items : items[i] # Null => Reviewed(items[i], submissions[i])

Decisions(i) == {n \in DOMAIN history[i] : history[i][n].op \in ReviewOps}

\* Every decision in the history of a work item is about the submission that was
\* the latest when it was made, and was made by someone other than the user who
\* made that submission (reviewGuard, through every rework and reopening).
IndependentReview ==
  \A i \in Items : \A n \in Decisions(i) :
    LET e == history[i][n]
        submitted == {m \in 1 .. n : history[i][m].op = "submitWorkItem"}
    IN  /\ e.revision = Cardinality(submitted)
        /\ e.revision \in DOMAIN submissions[i]
        /\ submissions[i][e.revision].by # e.actor

\* No submission is decided twice: of two reviewers who race to accept and to
\* send back the same submission one wins, and rework_count counts the returns.
OneDecisionPerSubmission ==
  \A i \in Items :
    /\ \A m, n \in Decisions(i) : history[i][m].revision = history[i][n].revision => m = n
    /\ items[i] # Null =>
         items[i].rework = Cardinality({n \in Decisions(i) : history[i][n].op = "reworkWorkItem"})

\* One key of one actor and operation takes effect once, however often the request
\* is sent, in flight together or after a lost answer: every audit row is the one
\* its idempotency record names, and every record names an audit row of its key.
KeyAppliedOnce ==
  /\ \A i \in Items : \A n \in DOMAIN history[i] :
       LET saved == records[KeyOf(history[i][n])]
       IN  saved # Null /\ saved.item = i /\ saved.version = n
  /\ \A k \in DOMAIN records : records[k] # Null =>
       /\ records[k].version \in DOMAIN history[records[k].item]
       /\ KeyOf(history[records[k].item][records[k].version]) = k

\* Behind all its transactions, locks and retries the service does what
\* WorkItemLifecycle promises: every COMMIT is one step of the life cycle by a key
\* not used before, and every other step leaves the cards as they are.
Lifecycle == INSTANCE WorkItemLifecycle WITH
  Commands <- Users \X Ops \X Keys,
  card <- items,
  snapshots <- submissions,
  used <- {k \in Users \X Ops \X Keys : records[k] # Null}

LifecycleRefined == Lifecycle!Spec

\* A grant that is gone when the row lock is obtained is noticed: the writes of an
\* operation are made only by an actor who holds, at that very moment and not as
\* of the start of the request, the role the operation asks for.
RevokedGrantIsCaught ==
  [][\A r \in Requests :
       (pc[r] # "applied" /\ pc'[r] = "applied") =>
         LET q == request[r]
             role == IF q.op \in {"startWorkItem", "patchWorkItemFields", "submitWorkItem"}
                       THEN "RF" ELSE "REGIONAL_MANAGER"
         IN  HasGrant(q.actor, role, pending'[r].row.org)]_vars

\* Every request the server has received is answered: the advisory lock of a key
\* and the row lock of a work item, always taken in this order, never block it.
EveryRequestAnswered ==
  \A r \in Requests : (pc[r] = "sent") ~> (pc[r] = "replied")

-----------------------------------------------------------------------------
(* Claims of comments and contracts that the code does not keep *)

\* The request is one the actor may still make of the item as it stands.
StillAuthorised(q) ==
  IF q.op = "createWorkItem"
    THEN HasGrant(q.actor, "REGIONAL_MANAGER", q.arg)
    ELSE \E w \in {items[q.target]} :
           IsManager(q.actor, w) \/ IsOwnRf(q.actor, w)

\* idempotency.ts:85-87 says the callers of beginIdempotent re-check the current
\* authorization before a saved answer is replayed.
ReplayIsAuthorised ==
  [][\A r \in Requests :
       (pc[r] = "sent" /\ reply'[r] = "REPLAY") => StillAuthorised(request[r])]_vars
=============================================================================
