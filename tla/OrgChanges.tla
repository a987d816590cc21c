------------------------------ MODULE OrgChanges ------------------------------
(***************************************************************************)
(* The organization editor: commandOrgChange of                            *)
(* server/src/domain/orgChanges.ts over the tables org_change_proposals,   *)
(* org_directory_* (with the triggers of migrations 001 and 003),          *)
(* audit_log and idempotency_records.                                      *)
(*                                                                         *)
(* A command is carried by a slot r \in Requests and takes these steps:    *)
(*                                                                         *)
(*   Send       the editor sends a command that names what its card shows  *)
(*   Begin      BEGIN fixes now(); the tables of users, sessions and       *)
(*              grants are locked in SHARE mode and the rights are read,   *)
(*              their ends compared with that now()                        *)
(*   Lock       the directory and the proposals are locked in              *)
(*              SHARE ROW EXCLUSIVE mode: one command at a time            *)
(*   <command>  the guards and the validation, and the writes of the       *)
(*              transaction, seen by nobody else yet                       *)
(*   Replay, Refuse, Fail, Commit, Receive, Retry                          *)
(*                                                                         *)
(* Time is counted in ticks; a preview lives PreviewLife of them, a day    *)
(* lasts TicksPerDay. The directory holds the units that the editor made;  *)
(* the demo units A and B, which nothing may change or be put under, are   *)
(* left out. Reasons, types and business models are data no guard joins.   *)
(***************************************************************************)
EXTENDS Integers, Sequences, FiniteSets

CONSTANTS
  Users,            \* individual users
  Proposals,        \* identifiers of proposals, and of the units they create
  Founded,          \* identifiers of units applied earlier
  InitialDirectory, \* those units
  InitialRights,    \* the permissions of the NETWORK grants of each user
  Revocable,        \* the users who may lose them, and get them back, meanwhile
  Changes,          \* what editors put into proposals
  ClientActions,    \* the commands editors send
  Keys,             \* Idempotency-Key header values
  Requests,         \* slots for commands in flight
  Names, Codes,     \* display names; codes up to letter case
  Dates,            \* days on which changes can take effect
  Null,             \* SQL NULL
  PreviewLife, TicksPerDay,
  MaxVersion,       \* bound: nothing more is sent to a proposal of this version
  MaxClock          \* bound: the last tick

ChangeOps == {"ORG_UNIT_CREATE", "ORG_UNIT_RENAME", "ORG_UNIT_MOVE_TO_CLUSTER"}

Actions == {"create", "edit", "preview", "apply"}

Kinds == {"NETWORK", "DIVISION", "CLUSTER", "ORG_UNIT"}

Answers == {"OK", "REPLAY", "REFUSED", "UNAVAILABLE"}

Permissions == {"organization.directory.review", "draft", "preview", "apply"} \cup ChangeOps

Units == Proposals \cup Founded

VARIABLES
  directory,  \* org_directory_units with both their histories
  revision,   \* org_directory_revision
  proposals,  \* org_change_proposals
  audit,      \* audit_log rows of each proposal, one outbox event with each
  records,    \* idempotency_records, by <<actor, action, key>>
  rights,     \* permissions of each user, by the rows of his session and his grants
  lapsed,     \* users of whom a row that nobody has revoked is past its end
  clock,      \* the time
  pc, request,
  start,      \* now() of the open transaction
  pending,    \* its writes
  reply

tables == <<directory, revision, proposals, audit, records>>
vars == <<directory, revision, proposals, audit, records, rights, lapsed, clock,
          pc, request, start, pending, reply>>

-----------------------------------------------------------------------------
(* The rows *)

\* A row of a history: value is a name or a parent; to = Null while it is open.
Spans(S) == Seq([value: S, from: Dates, to: Dates \cup {Null}])

Unit == [kind: Kinds, code: Codes, from: Dates,
         names: Spans(Names), parents: Spans(Units \cup {Null})]

\* A draft may leave out what only the validation asks for.
Change == [op: ChangeOps, target: Units \cup {Null}, kind: Kinds \cup {Null},
           code: Codes \cup {Null}, name: Names \cup {Null},
           parent: Units \cup {Null}, date: Dates \cup {Null}]

\* preview_actor, the change that preview_hash stands for, preview_base_version,
\* preview_expires_at, and the unit before the change from preview_summary.
Preview == [actor: Users, of: Changes, base: Nat, expires: Nat,
            before: Unit \cup {Null}]

\* A preview_token is as fresh as the version it came with.
Token == Proposals \X Nat

Proposal == [target: Units, change: Changes, version: Nat,
             status: {"DRAFT", "PREVIEW", "APPLIED"},
             token: Token \cup {Null}, preview: Preview \cup {Null}]

Entry == [action: Actions, actor: Users, version: Nat]

Request == [action: Actions, actor: Users, key: Keys, id: Proposals \cup {Null},
            change: Changes \cup {Null}, expected: Nat, token: Token \cup {Null}]

Writes == [id: Proposals, proposal: Proposal, unit: Unit \cup {Null},
           statements: 0 .. 3, entry: Entry]

ASSUME ConstantsAssumption ==
  /\ Null \notin Units \cup Users
  /\ Null \notin Names /\ Null \notin Codes /\ Null \notin Dates
  /\ Null \notin Token
  /\ Null \notin Unit /\ Null \notin Proposal /\ Null \notin Preview
  /\ Null \notin Request /\ Null \notin Changes /\ Null \notin Writes
  /\ Null \notin Kinds /\ Null \notin Answers
  /\ IsFiniteSet(Proposals)
  /\ Proposals \cap Founded = {}
  /\ Dates \subseteq Nat
  /\ Changes \subseteq Change
  /\ \A c \in Changes : (c.op = "ORG_UNIT_CREATE") <=> (c.target = Null)
  /\ InitialDirectory \in [Founded -> Unit]
  /\ InitialRights \in [Users -> SUBSET Permissions]
  /\ Revocable \subseteq Users
  /\ ClientActions \subseteq Actions
  /\ PreviewLife \in Nat /\ TicksPerDay \in Nat \ {0}
  /\ MaxVersion \in Nat /\ MaxClock \in Nat

\* The rows of a history that are in force on day d.
InForce(spans, d) ==
  {n \in DOMAIN spans : spans[n].from <= d /\ (spans[n].to = Null \/ d < spans[n].to)}

\* From a day on, a history has one row in force, and its last row alone is open.
Unbroken(spans, from) ==
  /\ \A n \in DOMAIN spans :
       spans[n].from >= from /\ ((spans[n].to = Null) <=> (n = Len(spans)))
  /\ \A d \in Dates : from <= d => \E n \in DOMAIN spans : InForce(spans, d) = {n}

\* Which kinds a unit can be put under.
ParentKinds ==
  [NETWORK |-> {}, DIVISION |-> {"NETWORK"}, CLUSTER |-> {"DIVISION"},
   ORG_UNIT |-> {"NETWORK", "DIVISION", "CLUSTER"}]

\* In the directory dir, parent can bear a unit of that kind from day d on.
Bears(dir, parent, kind, d) ==
  IF kind = "NETWORK"
    THEN parent = Null
    ELSE /\ parent # Null
         /\ dir[parent] # Null
         /\ dir[parent].from <= d
         /\ dir[parent].kind \in ParentKinds[kind]

\* The units applied earlier came about in the same way.
ASSUME FoundedAssumption ==
  /\ \A u, v \in Founded : u # v => InitialDirectory[u].code # InitialDirectory[v].code
  /\ \A u \in Founded :
       LET unit == InitialDirectory[u]
       IN  /\ Unbroken(unit.names, unit.from)
           /\ Unbroken(unit.parents, unit.from)
           /\ \A n \in DOMAIN unit.parents :
                /\ unit.parents[n].value \in Founded \cup {Null}
                /\ Bears(InitialDirectory, unit.parents[n].value, unit.kind, unit.parents[n].from)

KeyOf(q) == <<q.actor, q.action, q.key>>

Day(t) == t \div TicksPerDay

-----------------------------------------------------------------------------
(* Validation *)

Later(d, e) == IF d > e THEN d ELSE e

\* The rows of a history that end after day d, and the first, the next, the last of them.
EndingAfter(spans, d) == {n \in DOMAIN spans : spans[n].to = Null \/ spans[n].to > d}

NoGap(spans, d) ==
  LET links == EndingAfter(spans, d)
  IN  /\ \E n \in links : (\A m \in links : n <= m) /\ spans[n].from <= d
      /\ \A n \in links :
           \/ /\ \A m \in links : m <= n
              /\ spans[n].to = Null
           \/ \E m \in links :
                /\ n < m
                /\ \A k \in links : k <= n \/ m <= k
                /\ spans[n].to = spans[m].from

\* The walk up from a parent over all it will belong to from day d on. The kinds rise
\* with every step, so it ends and meets no unit twice.
Covers[walk \in Units \X Kinds \X Dates] ==
  LET p == directory[walk[1]]
      child == walk[2]
      d == walk[3]
  IN  /\ p # Null
      /\ p.from <= d
      /\ p.kind \in ParentKinds[child]
      /\ NoGap(p.parents, d)
      /\ \A n \in EndingAfter(p.parents, d) :
           LET link == p.parents[n]
           IN  IF p.kind = "NETWORK"
                 THEN link.value = Null
                 ELSE link.value # Null /\ Covers[<<link.value, p.kind, Later(link.from, d)>>]

\* Mutant: only the kind of the parent is looked at.
PlacedByKind(kind, parent, d) ==
  IF kind = "NETWORK"
    THEN parent = Null
    ELSE /\ parent # Null
         /\ directory[parent] # Null
         /\ directory[parent].kind \in ParentKinds[kind]

Placed(kind, parent, d) ==
  IF kind = "NETWORK" THEN parent = Null ELSE parent # Null /\ Covers[<<parent, kind, d>>]

\* A new value can follow the last one of a history on day d.
CanFollow(spans, value, d) ==
  LET last == spans[Len(spans)]
  IN  last.to = Null /\ d > last.from /\ value # last.value

Valid(p, today) ==
  LET c == p.change
      unit == directory[p.target]
  IN  /\ c.date # Null
      /\ c.date >= today
      /\ c.op # "ORG_UNIT_MOVE_TO_CLUSTER" => c.name # Null
      /\ c.op = "ORG_UNIT_CREATE" =>
           /\ unit = Null
           /\ c.code # Null /\ c.kind # Null
           /\ \A u \in Units : directory[u] # Null => directory[u].code # c.code
           /\ Placed(c.kind, c.parent, c.date)
      /\ c.op = "ORG_UNIT_RENAME" =>
           /\ unit # Null
           /\ CanFollow(unit.names, c.name, c.date)
      /\ c.op = "ORG_UNIT_MOVE_TO_CLUSTER" =>
           /\ unit # Null
           /\ CanFollow(unit.parents, c.parent, c.date)
           /\ Placed(unit.kind, c.parent, c.date)

-----------------------------------------------------------------------------
(* The directory *)

Opened(value, d) == [value |-> value, from |-> d, to |-> Null]

\* The open row ends on the day the new one begins.
Succeeded(spans, value, d) ==
  Append([n \in DOMAIN spans |->
            IF spans[n].to = Null THEN [spans[n] EXCEPT !.to = d] ELSE spans[n]],
         Opened(value, d))

\* The unit that the change c leaves in place of unit.
After(c, unit) ==
  IF c.op = "ORG_UNIT_CREATE"
    THEN [kind |-> c.kind, code |-> c.code, from |-> c.date,
          names |-> <<Opened(c.name, c.date)>>, parents |-> <<Opened(c.parent, c.date)>>]
  ELSE IF c.op = "ORG_UNIT_RENAME"
    THEN [unit EXCEPT !.names = Succeeded(@, c.name, c.date)]
    ELSE [unit EXCEPT !.parents = Succeeded(@, c.parent, c.date)]

\* Mutant: the triggers on the histories are missing.
BumpsForUnits(c) == IF c.op = "ORG_UNIT_CREATE" THEN 1 ELSE 0

\* Every statement that writes a directory table bumps the revision.
Bumps(c) == IF c.op = "ORG_UNIT_CREATE" THEN 3 ELSE 2

-----------------------------------------------------------------------------
(* Reading the directory *)

\* getDirectoryTree: the row of a history that is in force as of each day, from the
\* first day of its unit on.
OnDays(spans, from) ==
  [d \in {e \in Dates : from <= e} |->
     spans[CHOOSE n \in DOMAIN spans : n \in InForce(spans, d)].value]

\* What an administrator reads of a unit as of any day.
CalendarOf(unit) ==
  [kind |-> unit.kind, code |-> unit.code, from |-> unit.from,
   name |-> OnDays(unit.names, unit.from), parent |-> OnDays(unit.parents, unit.from)]

-----------------------------------------------------------------------------
(* Locks and rights *)

\* Mutants: the SHARE lock, the SHARE ROW EXCLUSIVE lock is not taken.
NoRightsHeld(r) == FALSE

DirectoryNotHeld(r) == FALSE

HoldsRights(r) == pc[r] \in {"authorized", "locked", "applied"}

HoldsDirectory(r) == pc[r] \in {"locked", "applied"}

Phase(action) == IF action \in {"create", "edit"} THEN "draft" ELSE action

\* access: by the rows, which cannot change before the transaction ends.
MayAct(q) == {"organization.directory.review", Phase(q.action)} \subseteq rights[q.actor]

\* checkOperation, of the proposal and of the change that the command brings.
MayChange(q) ==
  /\ q.id # Null => proposals[q.id].change.op \in rights[q.actor]
  /\ q.change # Null => q.change.op \in rights[q.actor]

-----------------------------------------------------------------------------
(* The editor's client *)

\* A command on proposal id names the version and the token of its card.
RequestsFor(id) ==
  {q \in [action: ClientActions \ {"create"}, actor: Users, key: Keys, id: {id},
          change: Changes \cup {Null}, expected: {proposals[id].version},
          token: {proposals[id].token, Null}] :
     /\ (q.action = "edit") <=> (q.change # Null)
     /\ q.token = IF q.action = "apply" THEN proposals[id].token ELSE Null}

CreateRequests ==
  [action: {"create"}, actor: Users, key: Keys, id: {Null}, change: Changes,
   expected: {0}, token: {Null}]

\* Bound: no more create commands in flight than identifiers left.
Creating == {r \in Requests : pc[r] # "idle" /\ request[r].action = "create"}
IdentifiersLeft == Cardinality(Creating) < Cardinality({p \in Proposals : proposals[p] = Null})

Send(r) ==
  /\ pc[r] = "idle"
  /\ \/ \E id \in Proposals :
          /\ proposals[id] # Null
          /\ proposals[id].version < MaxVersion
          /\ \E q \in RequestsFor(id) : request' = [request EXCEPT ![r] = q]
     \/ /\ IdentifiersLeft
        /\ \E q \in CreateRequests : request' = [request EXCEPT ![r] = q]
  /\ pc' = [pc EXCEPT ![r] = "sent"]
  /\ UNCHANGED <<tables, rights, lapsed, clock, start, pending, reply>>

\* The transaction of r ends and gives its locks back.
Answer(r, code) ==
  /\ pc' = [pc EXCEPT ![r] = "replied"]
  /\ reply' = [reply EXCEPT ![r] = code]
  /\ start' = [start EXCEPT ![r] = 0]
  /\ pending' = [pending EXCEPT ![r] = Null]
  /\ UNCHANGED <<rights, lapsed, clock, request>>

Receive(r) ==
  /\ pc[r] = "replied"
  /\ pc' = [pc EXCEPT ![r] = "idle"]
  /\ request' = [request EXCEPT ![r] = Null]
  /\ reply' = [reply EXCEPT ![r] = Null]
  /\ UNCHANGED <<tables, rights, lapsed, clock, start, pending>>

Retry(r) ==
  /\ pc[r] = "replied"
  /\ pc' = [pc EXCEPT ![r] = "sent"]
  /\ reply' = [reply EXCEPT ![r] = Null]
  /\ UNCHANGED <<tables, rights, lapsed, clock, request, start, pending>>

-----------------------------------------------------------------------------
(* The transaction *)

Begin(r) ==
  /\ pc[r] = "sent"
  /\ \/ /\ MayAct(request[r])
        /\ request[r].actor \notin lapsed
        /\ pc' = [pc EXCEPT ![r] = "authorized"]
        /\ start' = [start EXCEPT ![r] = clock]
        /\ UNCHANGED <<rights, lapsed, clock, request, pending, reply>>
     \/ /\ ~MayAct(request[r]) \/ request[r].actor \in lapsed
        /\ Answer(r, "REFUSED")
  /\ UNCHANGED tables

Lock(r) ==
  /\ pc[r] = "authorized"
  /\ \A o \in Requests \ {r} : ~HoldsDirectory(o)
  /\ pc' = [pc EXCEPT ![r] = "locked"]
  /\ UNCHANGED <<tables, rights, lapsed, clock, request, start, pending, reply>>

\* Mutant: an applied proposal can be taken up again.
FreshByVersion(q) ==
  /\ MayChange(q)
  /\ records[KeyOf(q)] = Null
  /\ q.id # Null => proposals[q.id].version = q.expected

\* The command may act on the proposal as it stands, under a key not used yet.
Fresh(q) ==
  /\ MayChange(q)
  /\ records[KeyOf(q)] = Null
  /\ q.id # Null =>
       /\ proposals[q.id].version = q.expected
       /\ proposals[q.id].status # "APPLIED"

\* An edit cannot turn a proposal into one of another operation or target.
MayEdit(q) ==
  /\ q.change.op = proposals[q.id].change.op
  /\ q.change.target = proposals[q.id].change.target

\* Mutants: anyone may apply what anyone has previewed; the directory may have
\* moved on.
MayApplyForOther(r, q) ==
  LET p == proposals[q.id]
  IN  /\ p.status = "PREVIEW"
      /\ p.token = q.token
      /\ p.preview.expires > start[r]
      /\ p.preview.base = revision
      /\ Valid(p, Day(start[r]))

MayApplyLate(r, q) ==
  LET p == proposals[q.id]
  IN  /\ p.status = "PREVIEW"
      /\ p.token = q.token
      /\ p.preview.actor = q.actor
      /\ p.preview.expires > start[r]
      /\ Valid(p, Day(start[r]))

MayApply(r, q) ==
  LET p == proposals[q.id]
  IN  /\ p.status = "PREVIEW"
      /\ p.token = q.token
      /\ p.preview.actor = q.actor
      /\ p.preview.expires > start[r]
      /\ p.preview.base = revision
      /\ p.preview.of = p.change
      /\ Valid(p, Day(start[r]))

\* The row of org_change_proposals, the directory rows and writeAuditAndOutbox.
Write(r, id, proposal, unit, statements) ==
  /\ pending' = [pending EXCEPT ![r] =
       [id |-> id, proposal |-> proposal, unit |-> unit, statements |-> statements,
        entry |-> [action |-> request[r].action, actor |-> request[r].actor,
                   version |-> proposal.version]]]
  /\ pc' = [pc EXCEPT ![r] = "applied"]
  /\ UNCHANGED <<tables, rights, lapsed, clock, request, start, reply>>

Runs(r, action) == pc[r] = "locked" /\ request[r].action = action /\ Fresh(request[r])

\* Mutant: nobody names the new unit.
TargetAsSent(id, c) == c.target

\* The target of a new unit is a fresh identifier: here that of its proposal.
Target(id, c) == IF c.target = Null THEN id ELSE c.target

CreateOrgChange(r) ==
  LET c == request[r].change
  IN  /\ Runs(r, "create")
      /\ \E id \in Proposals :
           /\ proposals[id] = Null
           /\ \A o \in Requests : pc[o] = "applied" => pending[o].id # id
           /\ Write(r, id,
                    [target |-> Target(id, c), change |-> c,
                     version |-> 1, status |-> "DRAFT", token |-> Null, preview |-> Null],
                    Null, 0)

\* Mutant: an edit keeps the preview of what was there before it.
EditKeepingPreview(r) ==
  LET q == request[r]
      p == proposals[q.id]
  IN  /\ Runs(r, "edit")
      /\ MayEdit(q)
      /\ Write(r, q.id, [p EXCEPT !.change = q.change, !.version = @ + 1], Null, 0)

EditOrgChange(r) ==
  LET q == request[r]
      p == proposals[q.id]
  IN  /\ Runs(r, "edit")
      /\ MayEdit(q)
      /\ Write(r, q.id, [p EXCEPT !.change = q.change, !.version = @ + 1, !.status = "DRAFT",
                                  !.token = Null, !.preview = Null], Null, 0)

PreviewOrgChange(r) ==
  LET q == request[r]
      p == proposals[q.id]
      valid == Valid(p, Day(start[r]))
      new == [p EXCEPT !.version = @ + 1,
                !.preview = [actor |-> q.actor, of |-> p.change, base |-> revision,
                             expires |-> start[r] + PreviewLife,
                             before |-> directory[p.target]]]
  IN  /\ Runs(r, "preview")
      /\ \/ /\ valid
            /\ Write(r, q.id, [new EXCEPT !.status = "PREVIEW", !.token = <<q.id, new.version>>],
                     Null, 0)
         \/ /\ ~valid
            /\ Write(r, q.id, [new EXCEPT !.status = "DRAFT", !.token = Null], Null, 0)

ApplyOrgChange(r) ==
  LET q == request[r]
      p == proposals[q.id]
  IN  /\ Runs(r, "apply")
      /\ MayApply(r, q)
      /\ Write(r, q.id,
               [p EXCEPT !.version = @ + 1, !.status = "APPLIED", !.token = Null,
                         !.preview.before = directory[p.target]],
               After(p.change, directory[p.target]), Bumps(p.change))

Replay(r) ==
  LET q == request[r]
  IN  /\ pc[r] = "locked"
      /\ MayChange(q)
      /\ records[KeyOf(q)] = q
      /\ Answer(r, "REPLAY")
      /\ UNCHANGED tables

\* A check throws an ApiError: ROLLBACK.
Refuse(r) ==
  LET q == request[r]
  IN  /\ pc[r] = "locked"
      /\ \/ ~MayChange(q)
         \/ records[KeyOf(q)] \notin {Null, q}
         \/ records[KeyOf(q)] = Null /\ ~Fresh(q)
         \/ Fresh(q) /\ q.action = "edit" /\ ~MayEdit(q)
         \/ Fresh(q) /\ q.action = "apply" /\ ~MayApply(r, q)
      /\ Answer(r, "REFUSED")
      /\ UNCHANGED tables

\* completeIdempotent and COMMIT; the answer may be lost.
Commit(r) ==
  LET w == pending[r]
  IN  /\ pc[r] = "applied"
      /\ proposals' = [proposals EXCEPT ![w.id] = w.proposal]
      /\ directory' = IF w.unit = Null THEN directory
                                       ELSE [directory EXCEPT ![w.proposal.target] = w.unit]
      /\ revision' = revision + w.statements
      /\ audit' = [audit EXCEPT ![w.id] = Append(@, w.entry)]
      /\ records' = [records EXCEPT ![KeyOf(request[r])] = request[r]]
      /\ \E code \in {"OK", "UNAVAILABLE"} : Answer(r, code)

\* A database error, a crash, a broken connection: ROLLBACK.
Fail(r) ==
  /\ pc[r] \in {"sent", "authorized", "locked", "applied"}
  /\ Answer(r, "UNAVAILABLE")
  /\ UNCHANGED tables

\* A logout, or a grant of u revoked by hand: an UPDATE, which waits for the SHARE
\* locks.
RevokeRights(u) ==
  /\ rights[u] # {}
  /\ \A r \in Requests : ~HoldsRights(r)
  /\ rights' = [rights EXCEPT ![u] = {}]
  /\ lapsed' = lapsed \ {u}
  /\ UNCHANGED <<tables, clock, pc, request, start, pending, reply>>

\* expires_at, 8 hours after created_at, 30 minutes after last_seen_at or valid_until
\* goes by, at any moment: time waits for no lock.
RightsLapse(u) ==
  /\ rights[u] # {}
  /\ lapsed' = lapsed \cup {u}
  /\ UNCHANGED <<tables, rights, clock, pc, request, start, pending, reply>>

\* A login, or a grant given by hand: an INSERT, which waits too. A command of the
\* session before it would be refused at BEGIN; here it may also be let in.
RegainRights(u) ==
  /\ \A r \in Requests : ~HoldsRights(r)
  /\ rights' = [rights EXCEPT ![u] = InitialRights[u]]
  /\ lapsed' = lapsed \ {u}
  /\ UNCHANGED <<tables, clock, pc, request, start, pending, reply>>

\* Whatever becomes of the rights of u.
RightsChange(u) == RevokeRights(u) \/ RightsLapse(u) \/ RegainRights(u)

Tick ==
  /\ clock < MaxClock
  /\ clock' = clock + 1
  /\ UNCHANGED <<tables, rights, lapsed, pc, request, start, pending, reply>>

-----------------------------------------------------------------------------
Init ==
  /\ directory = [u \in Units |-> IF u \in Founded THEN InitialDirectory[u] ELSE Null]
  /\ revision = 1
  /\ proposals = [p \in Proposals |-> Null]
  /\ audit = [p \in Proposals |-> <<>>]
  /\ records = [k \in Users \X Actions \X Keys |-> Null]
  /\ rights = InitialRights
  /\ lapsed = {}
  /\ clock = 0
  /\ pc = [r \in Requests |-> "idle"]
  /\ request = [r \in Requests |-> Null]
  /\ start = [r \in Requests |-> 0]
  /\ pending = [r \in Requests |-> Null]
  /\ reply = [r \in Requests |-> Null]

Command(r) ==
  \/ CreateOrgChange(r)
  \/ EditOrgChange(r)
  \/ PreviewOrgChange(r)
  \/ ApplyOrgChange(r)

Next ==
  \/ \E r \in Requests :
       \/ Send(r)
       \/ Begin(r)
       \/ Lock(r)
       \/ Command(r)
       \/ Replay(r)
       \/ Refuse(r)
       \/ Commit(r)
       \/ Fail(r)
       \/ Receive(r)
       \/ Retry(r)
  \/ \E u \in Revocable : RightsChange(u)
  \/ Tick

Spec == Init /\ [][Next]_vars

-----------------------------------------------------------------------------
(* Properties *)

\* Every variable holds rows and commands of the declared kinds.
TypeOK ==
  /\ directory \in [Units -> Unit \cup {Null}]
  /\ revision \in Nat \ {0}
  /\ proposals \in [Proposals -> Proposal \cup {Null}]
  /\ audit \in [Proposals -> Seq(Entry)]
  /\ records \in [Users \X Actions \X Keys -> Request \cup {Null}]
  /\ rights \in [Users -> SUBSET Permissions]
  /\ lapsed \subseteq Users
  /\ clock \in Nat
  /\ pc \in [Requests -> {"idle", "sent", "authorized", "locked", "applied", "replied"}]
  /\ request \in [Requests -> Request \cup {Null}]
  /\ start \in [Requests -> Nat]
  /\ pending \in [Requests -> Writes \cup {Null}]
  /\ reply \in [Requests -> Answers \cup {Null}]

\* On every day from the one it exists, a unit has one name and one parent, the
\* parent exists by then and is of a higher kind, and only a network has none: from
\* every unit the parents lead up to a network, past and future (validate walks the
\* chain once, when a change is applied; later changes must not undo what it saw).
EveryUnitHasItsPlace ==
  \A u \in Units : directory[u] # Null =>
    \A d \in Dates : directory[u].from <= d =>
      /\ Cardinality(InForce(directory[u].names, d)) = 1
      /\ \E n \in DOMAIN directory[u].parents :
           /\ InForce(directory[u].parents, d) = {n}
           /\ Bears(directory, directory[u].parents[n].value, directory[u].kind, d)

AppliedTo(u, op) ==
  {p \in Proposals : proposals[p] # Null /\ proposals[p].status = "APPLIED"
                       /\ proposals[p].target = u /\ proposals[p].change.op = op}

\* The directory is what the applied proposals say and nothing else: a unit is there if
\* its creation was applied, no two share a code, and each rename and move applied has
\* its one row, so that no change is lost or entered twice, retried or raced.
DirectoryTellsProposals ==
  /\ \A u \in Proposals : (directory[u] # Null) <=> (AppliedTo(u, "ORG_UNIT_CREATE") # {})
  /\ \A u, v \in Units :
       (u # v /\ directory[u] # Null /\ directory[v] # Null) =>
         directory[u].code # directory[v].code
  /\ \A u \in Units : directory[u] # Null =>
       LET founded == IF u \in Founded THEN InitialDirectory[u] ELSE [names |-> <<>>, parents |-> <<>>]
           created == AppliedTo(u, "ORG_UNIT_CREATE")
           renamed == AppliedTo(u, "ORG_UNIT_RENAME")
           moved == AppliedTo(u, "ORG_UNIT_MOVE_TO_CLUSTER")
       IN  /\ Len(directory[u].names) = Len(founded.names) + Cardinality(created \cup renamed)
           /\ Len(directory[u].parents) = Len(founded.parents) + Cardinality(created \cup moved)
           /\ \A p \in renamed : \E n \in DOMAIN directory[u].names :
                LET c == proposals[p].change
                IN  directory[u].names[n].value = c.name /\ directory[u].names[n].from = c.date

\* As long as the revision is the one a preview was made at, the unit is as the
\* preview showed it and the change is still possible, the date apart: comparing the
\* revision is enough to notice whatever else was applied meanwhile.
PreviewStillHolds ==
  \A id \in Proposals :
    LET p == proposals[id]
    IN  (p # Null /\ p.status = "PREVIEW") =>
          /\ p.preview.of = p.change
          /\ p.preview.base = revision =>
               /\ p.preview.before = directory[p.target]
               /\ Valid(p, 0)

\* What is applied is what its editor was shown: at the COMMIT the unit is still the one
\* whose picture the preview stored, whatever was applied between preview and
\* application or waits for the locks (preview_base_version against the revision).
AppliedAsPreviewed ==
  [][\A id \in Proposals :
       (proposals'[id] # proposals[id] /\ proposals'[id].status = "APPLIED") =>
         /\ proposals[id].status = "PREVIEW"
         /\ proposals[id].preview.before = directory[proposals[id].target]
         /\ proposals[id].preview.of = proposals'[id].change]_vars

\* The audit rows of a proposal number its versions; an application is the last of
\* them, and the row before it is a preview by the same editor: nothing is applied
\* that he did not see checked, and nothing comes after (the version, the token and
\* preview_actor, across edits and previews of several editors).
ApplyFollowsPreview ==
  \A id \in Proposals :
    LET rows == audit[id]
    IN  /\ Len(rows) = IF proposals[id] = Null THEN 0 ELSE proposals[id].version
        /\ \A n \in DOMAIN rows : rows[n].version = n
        /\ \A n \in DOMAIN rows : rows[n].action = "apply" =>
             /\ n = Len(rows)
             /\ n > 1
             /\ rows[n - 1].action = "preview"
             /\ rows[n - 1].actor = rows[n].actor

\* Whoever is answered, with a change made or with a saved answer, has the permissions
\* for it by the rows as they are at that very moment: who has logged out or lost his
\* grant by then gets neither (the SHARE lock of access to the end, and beginIdempotent
\* only after it). Time alone may end the rights between BEGIN and the answer.
RightsHeldWhenAnswered ==
  [][\A r \in Requests :
       (pc[r] \in {"locked", "applied"} /\ reply'[r] \in {"OK", "REPLAY"}) =>
         /\ MayAct(request[r])
         /\ MayChange(request[r])]_vars

\* A proposal, with what its preview has shown while it may be applied.
NoteOf(p) ==
  [target |-> p.target, change |-> p.change, status |-> p.status,
   shown |-> IF p.status # "PREVIEW" THEN Null
             ELSE [to |-> p.preview.actor,
                   unit |-> IF p.preview.before = Null THEN Null ELSE CalendarOf(p.preview.before)]]

\* Behind its transactions, locks, revisions and rows of history the editor does what
\* DirectoryCalendar promises of all that getDirectoryTree can be asked: each COMMIT is
\* one of its steps, by a key not used before; it leaves the days before its date as
\* they are, and an application goes to what its editor has been shown.
Calendar == INSTANCE DirectoryCalendar WITH
  Commands <- Users \X Actions \X Keys,
  Identifiers <- Proposals,
  Founded <- [u \in Founded |-> CalendarOf(InitialDirectory[u])],
  calendar <- [u \in {v \in Units : directory[v] # Null} |-> CalendarOf(directory[u])],
  proposals <- [id \in {p \in Proposals : proposals[p] # Null} |-> NoteOf(proposals[id])],
  used <- {k \in Users \X Actions \X Keys : records[k] # Null}

CalendarRefined == Calendar!Spec

=============================================================================
