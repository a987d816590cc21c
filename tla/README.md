# Verification of the Fresh pilot portal

TLA+ models of the server of this repository (`server/src`, PostgreSQL schema in `contracts/schema.sql` and
`server/src/db`), checked with TLC and, where section 5 says so, proved with TLAPS. Paths below are relative to the
repository.

## 1. The system

A React client (`client/`) talks to one Express process (`server/`) over `/api/v1`; all business state is in
PostgreSQL, every mutation is one `READ COMMITTED` transaction (`db/pool.ts`, `withTransaction`), and a timer in
the same process drains an outbox into in-app notifications. Beside the work items there are an organization
editor and a staging area for uploaded reports.

| Component | State | Operations | Interacts with | What makes it hard | What makes it correct |
|---|---|---|---|---|---|
| Work items (`domain/workItemService.ts`, `workItemRepo.ts`) | `work_items`, `work_item_fields`, `submissions` | create, assign, start, patch, submit, accept, rework, cancel, reopen | idempotency, grants, audit and outbox in one transaction | racing transactions on one row; two independent version counters (item and field); stale cards; a user with both roles | no lost update; the reviewer decides on exactly what was submitted; nobody reviews his own work; one decision per submission |
| Idempotency (`domain/idempotency.ts`) | `idempotency_records` | begin (replay, reuse, fresh), complete | all mutations | two first requests with one key, lost answers, retries | a key takes effect once |
| Audit and outbox (`domain/auditOutbox.ts`) | `audit_log`, `outbox_events` | insert with the mutation | all mutations, consumer | rollback between the writes | the audit rows tell the whole life of an item |
| Grants (`domain/grants.ts`) | `role_grants` | read; revoked by operators | all authorization | revoked while a request waits | rights are read after the lock |
| Notification consumer (`workers/notificationConsumer.ts`) | `consumer_receipts`, `notifications`, `outbox_events.delivery_status` | one drain run per tick | outbox, grants, work items | overlapping runs, failures half way, late commits with early timestamps | each event is delivered once and in the end |
| Notification inbox (`readNotification`) | `notifications` | read, list | idempotency, outbox | two tabs, retries | read once, one event for it |
| Lists and cursors (`workItemService.ts`) | none (opaque cursors) | list, history, notifications | work items | pages while rows change; milliseconds against microseconds | none left out of a walk; a row twice only within its millisecond |
| Sessions (`auth/session.ts`, `routes/auth.ts`) | `sessions` | login, logout, load | `app_users`, outbox | deactivation or rotation between check and use; two logouts | an old password opens nothing; a logout stands and is on record |
| Rate limit (`auth/rateLimit.ts`) | four maps in memory | hit | every route | window boundaries, growth | a bound on what passes in a window, in whatever pattern it comes |
| Organization changes (`domain/orgChanges.ts`) | `org_change_proposals`, `org_directory_*` | create, edit, preview, apply | idempotency, table locks | stale previews, other actors, expiry | only what was previewed is applied, once |
| Report staging (`reporting/service.ts`, `storage.ts`, `probe.ts`) | `report_staging_*`, files | upload, probe, detail | file system, worker | crash between reservation and files, loss of power while they are written, probes outside the transaction, quotas | what was announced survives; one verdict for a batch; no COMMIT after the rights have been revoked |
| Report review (`reporting/review.ts`) | `report_review_revisions` | save a revision | staging, directory | two tabs, stale candidates | an unbroken chain of revisions |
| Provisioning and migrations (`domain/firstAdministrator.ts`, `orgEditorProvisioning.ts`, `reporting/provisioning.ts`, `db/migrations.ts`) | grants, ledger | operator commands | table locks | two operators, restarts | each takes effect once |
| Client keys (`client/src/api/client.ts`) | `pendingKeys` in the tab | fetch | idempotency | answers of unknown outcome, new session | a retry repeats its key |

`PROJECT.json` lists these components with what is and is not modelled, and the hazards of the code line by line.

## 2. The modules

| Module | What it is |
|---|---|
| `WorkItems` | the nine mutations of a work item as concurrent transactions, with idempotency, locks, grants, audit rows, lost answers and retries |
| `WorkItemLifecycle` | the abstract specification `WorkItems` implements: one atomic step per command |
| `WorkItemsSafety` | the type invariant of `WorkItems`, the locks, the writes of open transactions and three safety invariants of `WorkItems`, proved |
| `WorkItemsRefinement` | the refinement of `WorkItemLifecycle`, the independence and uniqueness of decisions and the effect of revocations, proved |
| `MCWorkItems` | instances for TLC |
| `Notifications` | the outbox, the overlapping drain runs of the consumer, and the reading of notifications |
| `EventDelivery` | the abstract specification `Notifications` implements: a queue that gives out every event once |
| `NotificationsProofs` | all safety properties of `Notifications` and the refinement of `EventDelivery`, proved |
| `MCNotifications` | instances for TLC |
| `OrgChanges` | the organization editor: proposals, previews and their application to the directory, as concurrent transactions |
| `DirectoryCalendar` | the abstract specification `OrgChanges` implements: what every unit is called and where it belongs on every day, changed in single steps |
| `OrgChangesProofs` | all safety properties of `OrgChanges` and the refinement of `DirectoryCalendar`, proved |
| `MCOrgChanges` | instances for TLC |
| `ReportStaging` | upload and probe of report batches over database, disk and worker, with crashes and loss of power |
| `ReportReview` | extends `ReportStaging` with the drafts over a probed batch and the directory that changes beside them |
| `ReportProofs` | all safety properties of the staging and of the drafts, proved |
| `MCReports` | instance for TLC |
| `Sessions` | login, the loading of sessions, logout, and the operator's changes of the account |
| `SessionsProofs` | the safety of sessions, proved |
| `MCSessions` | instance for TLC |
| `RateLimit` | one bucket of the limiter |
| `RateLimitProofs` | its bound, proved |
| `Pages` | extends `RateLimit`: the walk through the three lists with cursors, each page counted by the limiter |
| `PagesProofs` | what a walk shows and what it repeats, proved |
| `MCPages` | instance for TLC |

### 2.1 WorkItems

A request is carried by a slot `r`; `pc[r]` tells how far it is:

| `pc` | Step that leads there | Code |
|---|---|---|
| `sent` | `Send`, `Retry` | `routes/workItems.ts`, `client.ts:66-92` |
| `begun` | `BeginIdempotent`: advisory lock, then replay, `IDEMPOTENCY_KEY_REUSED` or a fresh record | `idempotency.ts:44-107` |
| `locked` | `LockWorkItem`: `SELECT ... FOR UPDATE` | `workItemRepo.ts:27-31` |
| `applied` | one of the nine operations: grants and guards, then the writes, seen by nobody else yet | `workItemService.ts` |
| `replied` | `Commit`, `Refuse` (ROLLBACK, an error), `Fail` (503) or a replay | `pool.ts:30-49`, `idempotency.ts:109-123` |
| `idle` | `Receive` | `client.ts:83-91` |

`row[r]` is the row as the transaction locked it and `pending[r]` what it will write; `Commit` makes the row, the
submission, the audit row and the idempotency record visible together and gives the locks back. Nothing orders the
transactions but the two locks (`HoldsKey`, `HoldsRow`). A version conflict comes from a request that names the
version of the card as its client saw it and arrives late.

Data are abstract: one field, texts as model values, one organization unit in the instances, an audit row reduced to
operation, actor, key, version, statuses and the submission concerned. `history[i]` is at once the audit log of item
`i` and its outbox events, because `writeAuditAndOutbox` inserts both. Which error is answered is not told apart
(`REFUSED`), so the order of the checks within a guard does not matter; that guards are evaluated after the locks
does. `is_blocked` is never set by any code and is left out. A deactivated user is one without grants.

### 2.2 Notifications

A work item lives through the constant sequence `Life`, one version and one event for each step; transactions on it
(`mutation`) begin, wait, and commit or roll back. A drain run claims the first free pending event (`FOR UPDATE SKIP
LOCKED`), looks up the recipients under the grants of the moment, and writes notifications, their own events and the
receipt in one commit; an error ends the run, and the timer starts the next whether others run or not. `PROCESSING` is
never visible: it is written and replaced within one transaction. Timestamps are PostgreSQL's `now()`, the start of
the inserting transaction; a *stamp* is the number of events committed at that start, which orders events as
`ORDER BY next_attempt_at, occurred_at` does, and leaves the order of equal stamps open. `readNotification` reads the
grants before it waits for its locks and uses them after; the model keeps the two steps apart.

`EventDelivery` has no runs, rows or transactions: events wait and are delivered once, each to some of the users it may concern
(`MayConcern`: not to who caused it; of an assignment, those who have the item then or later), and the event that a notification came, or was opened, is published in the same step.
The mapping (`Delivery`) takes the pending rows of the outbox, the receipts, the notifications and the keys of the idempotency records.

### 2.3 OrgChanges

A command is carried by a slot `r`, as in `WorkItems`, through `commandOrgChange` of `domain/orgChanges.ts`:

| `pc` | Step that leads there | Code |
|---|---|---|
| `sent` | `Send`, `Retry` | `routes/organization.ts:44-52` |
| `authorized` | `Begin`: `now()` is fixed (`start[r]`), the tables of rights are locked in SHARE mode and read, their timed ends compared with `now()` | `:20-41`, `:183-186` |
| `locked` | `Lock`: the directory and the proposals in SHARE ROW EXCLUSIVE mode | `:187-190` |
| `applied` | `CreateOrgChange`, `EditOrgChange`, `PreviewOrgChange`, `ApplyOrgChange`: guards, validation, writes | `:191-245` |
| `replied` | `Commit`, `Replay`, `Refuse`, `Fail` | `:197-198`, `:246-259`, `pool.ts` |
| `idle` | `Receive` | |

`directory[u]` is the row of a unit with both its histories, `Covers` the walk of `validate` up the parents over all the
future, `Valid` the whole of `validate`. `revision` goes up once for every statement on a directory table, as the triggers of
migration 003 do. A token is named by the proposal and the version it came with, since `randomUUID` never repeats;
`preview_hash` is the change it is the hash of. `Tick` lets time pass under an open transaction.
The rights of a user end in two ways. `RevokeRights` (a logout, a grant revoked by hand) is an UPDATE and waits for the SHARE locks. `RightsLapse` (`expires_at`, 8 hours after `created_at`,
30 minutes after `last_seen_at`, `valid_until`; `lapsed`) is time going by, waits for nothing and is noticed at `BEGIN` only (`orgChanges.ts:31-34`). Both are undone by `RegainRights`, a login or a new grant, whose
INSERT waits as well. A user's session and grants end and come back together; a command sent under a session that has ended since may be let in after `RegainRights`, one behaviour more than the code has. The table locks exclude each other, so a key needs no lock of its own here. Reading is one
statement: `CalendarOf` is what `getDirectoryTree` (`domain/orgDirectory.ts:51-75`) answers an administrator of a unit, for each day he may ask about.

`DirectoryCalendar` knows neither rows nor revisions, tokens or locks: of every unit it has the name and the parent on each day.
`Apply` changes them from one day on; the days before stay, and it is possible only if nothing else is planned for that day or a later one. It is done
to exactly the unit that the same editor was shown. Each step uses up a command, an editor's action under a key. The mapping (`Calendar`) reads
the histories as `getDirectoryTree` does, takes of a proposal its change, its status and what its preview showed (`NoteOf`), and of the idempotency records their keys;
`Commit` is the only step that shows.

 Left out: the demo units A and B, which may not be changed or be put under; reasons, types and business models, which are
checked alone; the form of drafts (their fields are of the right kind or missing; what is missing, only `validate` asks for); the constraints of migration 001
(UNIQUE codes, disjoint intervals, kinds of parents), behind which the code's own checks stand: the properties hold without them.

### 2.4 ReportStaging and ReportReview

One actor, the administrator, sends several requests to several processes. What is between transactions in the code is between
transactions here:

| `pc` | Step that leads there | Code |
|---|---|---|
| `receiving` | `ReceiveUpload`: rights checked, the flag of the process taken; `RejectUpload` for a bad body | `routes/reportBatches.ts:27-50`, `multipart.ts` |
| `reserving`, `reserved` | `BeginReserve`, `Reserve`: advisory lock, the batch that is there, the quota, a new identifier | `service.ts:96-107` |
| `persisting` | `CommitIntent`; then `PersistSources`, one call of the file system for a step | `service.ts:108-119`, `storage.ts:23-48` |
| `finishing` | `BeginFinish`; `Finish` commits `READY` unless a probe was faster | `service.ts:120-126` |
| `probing`, `read` | `SendProbe`, `ReadSources`: version and originals, in the first transaction | `service.ts:128-140` |
| `parsing`, `parsed` | `StartWorker`, `WorkerAnswers`: one worker in a process, its limits, its answer | `probe.ts:7-33` |
| `settling` | `BeginVerdict`; `CommitVerdict` looks at the batch again | `service.ts:142-160` |
| `drafting`, `reviewing` | `SendReview`, `BeginReview`; `SaveReview` | `review.ts:33-126` |

`disk[b]` is the directory of a batch: a file is created, written and fsynced, and names are on the disk only when directory and root
are fsynced (`names`). A process that dies (`Crash`) loses its requests and its flags, no bytes; `PowerFails` keeps of every
directory any remains `Survives` allows. `Fail` ends a request at any step. What `stagingAccess` reads (session, account, grant, capability) is the one
state `capability`, `absent`, `active`, `lapsed` or `revoked`. `Provision`, `RevokeAccess` and `RegainAccess` (a login) write rows and wait for the SHARE locks
(`HoldsAccess`); `AccessLapses` is time going by and waits for nothing: `access.ts:18-24` compares the timed ends once, with `clock_timestamp()`, and they may pass before the COMMIT.
After `RegainAccess` a request of the earlier session may go on in the model; in the code its next check ends it, which is the model's `Fail`. A packet stands for its originals, its network and its period; all originals have one size.
In `ReportReview` a revision keeps, as history, the edits of its request and the version it had read. `eligible` is the set of outlets
`context` finds, which commands of `OrgChanges` alter while no review holds the SHARE lock of the directory. Left out: the period and
reason of a draft, the limit of 100 edits, the reading pages, and `downloadSource`, which refuses always.

### 2.5 Sessions

Requests of one user: a login is its `now()` (`Login`), the unlocked read with argon2 (`VerifyPassword`), and the `INSERT` under the row
lock of the user (`CreateSession`), committed with its event. Another request is `LoadSession` (the fences `Alive`), the separate `UPDATE` of
`last_seen_at` (`TouchSession`), and its handler (`Answer`, `Logout`). `outbox[s]` is the set of versions of the session's events, which are
UNIQUE. The account is changed by an operator outside this code (external). `RotatePassword` assumes that it is one statement and does
not fall into the tick in which a login or a session began, since the code compares milliseconds; a rotation inside a longer transaction,
whose `now()` is before a login that it overtakes, is not covered, and neither is one by a clock behind that of the database. `auth_epoch` raised between
verification and INSERT is captured anew, so that it does not end that session: that is what the code does, and no property denies it. A touch that comes
late may push `last_seen_at` of a session that had meanwhile become idle; the session then lives on. CSRF, Origin and cookies only refuse.

### 2.6 RateLimit and Pages

`hit` is `OpenWindow`, `Admit` or `Block`; `admitted` and `opened` are history. The four maps are such buckets, one per key, in the memory of a
process: `Forget` is a restart, and several processes would each have their own. A reader of `Pages` walks one of the lists chosen at the start
(`listWorkItems`, `listNotifications`, `getWorkItemHistory`): `FetchPage` is one request, its transaction read at one moment; the cursor keeps the
last row's time cut to milliseconds (`Kept`), or the version in history. Behind his back rows come (under any earlier `created_at`, for that is the start of
a transaction), change their assignee or status, notifications are read and grants change. `promised` is history: what has been in the list since the walk began.

## 3. The runs

All runs use two workers. `CHECK_DEADLOCK FALSE` everywhere: clients may stop sending, items reach the bound of their
versions and a finished life has no further step, so the system may really stop.

| Run | Question | Instance |
|---|---|---|
| `life` | Does the life of an item keep its invariants: two rounds of submission and review by way of rework, or an acceptance and its reopening, keys reused and retried? | one request at a time, all nine operations, two users of whom one has both roles, two keys, versions up to 7 |
| `race` | Do two transactions at once on one item lose an update, change a text under review, or decide a submission twice? Is every commit one step of `WorkItemLifecycle`? | two requests, three users, the path to a decision and beyond, versions up to 6 |
| `answered` | Is every request answered, and is a grant that is revoked while a request waits for a lock noticed? | two requests with one key, locks on one item, all grants revocable, versions up to 3, fair |
| `replay_claim` | Is a replay authorized? (No: see 6.) | one manager whose grant goes |
| `inbox` | Do receipts, notifications, statuses and events agree while runs overlap and fail, and is a notification read once? Is every COMMIT one step of `EventDelivery`? | two runs, two readers with two keys, the executor's grant revocable |
| `processed` | Is every event processed, with several recipients, late commits and the events that deliveries add? | two mutations in flight, three users, fair |
| `poison_claim` | Does a failing event leave others alone? (No: see 6.) | two items, an assignment that cannot be delivered |
| `org_tree` | Does every unit keep its place in the tree, on all days to come, and does a preview stay true while the revision does? | one editor at a time, two proposals with all four commands, units placed too early or in time under a division that opens tomorrow and moves the day after; previews expire, days pass |
| `org_race` | Is what is applied what was previewed, by whoever previewed it, with rights that nobody has revoked by the COMMIT? Is every COMMIT one step of `DirectoryCalendar`? | two editors with the same two changes of one outlet, two commands in flight; one may rename and not move, the rights of the other are revoked, lapse and come back |
| `reports` | Do quota, disk, audit and rights agree while uploads, probes and drafts race, processes die and the power fails? Is no draft lost or stale? | two requests, two processes, a packet the worker can parse and one it cannot, sharing an original; a quota of one batch; two rows, one outlet, two keys, two revisions; rights are revoked, lapse and come back |
| `sessions` | Does an old password open anything? Does a logout stand? | two requests, two sessions, two passwords, three ticks, idle after one and over after two |
| `pages` | Is a row left out of a walk or shown twice? How much does the limiter let through? | three rows on pages of two, two units in a millisecond, windows and cursors of one tick, two requests in a window, one change behind the reader's back |

**Bounds.** `MaxVersion`: clients send nothing to an item of that version (a request under way may still raise it). Seven
versions hold creation, assignment, an edit and either two rounds of submission and review by way of rework, or an acceptance, its reopening and
one step more. A decision about a submission after a reopening would take more: TLC does not reach it, and there
`IndependentReview` and `OneDecisionPerSubmission` rest on the theorems `ReviewsIndependent` and `DecidedOnce`. Two requests are enough for every race of `WorkItems`, because the
locks make any pair of transactions exclusive and a third can only repeat what a second does; three users are a
manager, an executor and one who is both. One text is enough because the field version tells edits apart; two keys are
one reused and one fresh. `IdentifiersLeft`: no more create requests than free identifiers (`gen_random_uuid` never runs
out). In `OrgChanges` version 3 of
a proposal is its application after creation and preview and version 4 leaves room for one more preview or edit; two proposals are one and
the change that interferes with it; one tick is both a day and the life of a preview (`MaxClock`, `PreviewLife`, `TicksPerDay`), so that
a preview expires at the next tick and a change for day 0 is late after it; days 0 to 2 are today, the opening of the division and its move.
A quota of one batch makes two parallel uploads of different packets compete for the last place; the first revision and one over it are the whole
of what a draft can be lost to; one row is proposed, the other given up, or both are proposed for the same outlet, so that an outlet is kept from one revision to the next and two rows can claim it. Passwords and epochs of 2 are before and after a change. Three rows on pages of two are a full page and the rest; a change of grants, one of a
row or a new row in front of, at, or behind the cursor is each a single change. For the consumer two overlapping runs give every interleaving of claim, lookup and delivery on one event.

**Symmetry** on requests, keys and items (and on runs, readers and keys of `Notifications`, processes and batches of `ReportStaging`, identifiers of
`Sessions`) is used in runs with safety properties only; none of these sets is ordered or named by the specification.

**Fairness.** `WorkItems`: strong fairness of `BeginIdempotent` and `LockWorkItem`, because PostgreSQL hands a lock to its
waiters in turn, so that a wait which can end again and again ends; weak fairness of the operation or its refusal and of the
commit, because a handler goes on with what it has. `Fail` is not fair and not excluded: an error is an answer. `Notifications`:
the timer goes on for ever (weak fairness of `Tick` and `Finish`), and errors do not go on for ever: `Claim`, `Resolve` and
`Deliver` are strongly fair, which says that an event that can be delivered is not failed each time. `poison_claim` is under
the same fairness; the failing event is one whose delivery is never possible.

## 4. The properties

*WorkItems.* `HistoryExplainsItem`: audit rows number the versions without gap and each starts where the last ended. `ReviewedAsSubmitted`:
under review or accepted, the text is that of the latest snapshot. `IndependentReview`, `OneDecisionPerSubmission`: every decision is about
the submission current at its time, by somebody else, and is the only one. `KeyAppliedOnce`: records and audit rows name each other.
`RevokedGrantIsCaught` (action): a write is made only under a grant in force at that moment. `LifecycleRefined`: refinement of
`WorkItemLifecycle`. `EveryRequestAnswered` (liveness).

*Notifications.* `ReceiptTellsDelivery`: receipt, status and notifications of an event tell one story. `NotesHaveTheirEvents`: a notification has exactly
the events of its creation and its reading. `ReadOnce`: of all requests that saw it unread one took effect. `DeliveryRefined`: refinement of `EventDelivery`. `EveryEventProcessed` (liveness).

*OrgChanges.* `EveryUnitHasItsPlace`: on every day from its first, a unit has one name and one parent that exists, of a higher kind. `DirectoryTellsProposals`: the
directory is what the applied proposals say, each entered once. `PreviewStillHolds`: while the revision is that of a preview, what it showed is so, and the change possible.
`AppliedAsPreviewed` (action): at the COMMIT the unit is as its preview showed it. `ApplyFollowsPreview`: an application is the last row of its proposal and
follows a preview of the same editor. `CalendarRefined`: refinement of `DirectoryCalendar`. `RightsHeldWhenAnswered` (action): who is answered with a change or a saved answer has rights that nobody has revoked by then (they may have lapsed since `BEGIN`);
here, unlike in `WorkItems`, a replay is authorized.

*ReportStaging, ReportReview.* `QuotaHolds`, across processes. `DirectoryHasIntent`: files have a committed reservation. `QuarantinedIsDurable`: what an upload announced outlives
a loss of power. `AuditTellsBatch`: one audit row per version, the verdict once and last. `SlotsHaveOneUser`: the flags of a process are taken by exactly one living request. `NoDraftLost`: a revision is the one before it,
edited by somebody who had read that. `RightsHeldAtCommit` (action): nothing is committed after the rights it was let in with have been revoked (time alone may end them between check and COMMIT). `DraftsFitDirectory` (action): outlets are in the network at the COMMIT.

*Sessions.* `OldPasswordLocksOut` (action): no request passes with a session that a replaced password opened, the one whose login had verified it and had still to write included. `LogoutStands` (action):
the moment of a logout is not changed, neither by a second one nor by a late touch.

*RateLimit, Pages.* `BurstBound`: of 2 × limit attempts let in, the last comes more than a window after the first, and so at most twice the limit less one in any window's time. `NothingLeftOut`: a finished walk has shown all
that was in the list throughout. `RepeatsAreClose` (action): a row comes again only within the millisecond the page before ended with, in history never.

Each property of a passing run has a mutant in `PROJECT.json`: a definition before the one it mutates, changed as a bug would change it
(a lock not taken, a version not compared, a cursor in place of a status), under which TLC finds the property violated.

## 5. What is proved

Every safety property that a run checks, invariants and action properties both, and the three refinements are theorems: they hold for any sets and any values of the
constants, without fairness. The assumptions are those of the modules on their constants: SQL NULL is none of the values it stands beside, limits are numbers, lives of work items are made of known
events (`ConstantsAssumption`, `RateAssumption`, `PagesAssumption`, `SessionAssumption`, `StagingAssumption`, `ReviewAssumption`, `LifeAssumption`, `GrantsAssumption`, `NullAssumption`); a table has finitely many
rows (an upload finitely many originals, a branch finitely many users and items: `FiniteAssumption`; finitely many proposals); and the units founded before the first step of `OrgChanges` stand as the editor could have left them
(`FoundedAssumption`: unbroken histories, different codes, parents that can bear them). TLC evaluates all of them in every run.

*WorkItems*, for any sets of users, items, units, keys and requests; no bound (`MaxVersion`, `IdentifiersLeft`) is used. Each
invariant is proved inductive relative to those before it:

1. `TypeCorrect` (`WorkItemsSafety`): `TypeOK`. It ties `pc`, `request`, `row` and `pending` together, and is what makes the rest well defined.
2. `LocksCorrect`: `LocksExclude`, at most one open transaction for a key and for an item. `LockSteps` reduces every step to what it does to the locks.
3. `WritesCorrect`: `WritesFollow`. The row a transaction has locked is the row of the table until it commits, what it will write is the next version of
   that row with an audit entry that starts at its status, and no two transactions write one item. This is what the two locks are for, and none of the invariants below is
   inductive without it: a `Commit` writes what was computed several steps earlier, while others committed.
4. `KeysCorrect`: a key in use by an open transaction has no record. With it a `Commit` cannot overwrite a record, so `KeyAppliedOnce` is
   inductive (`KeyOnceCorrect`).
5. `HistoryCorrect`: `HistoryExplainsItem`, from 3 and the fact that versions are positive (`VersionsPositive`), since a commit appends one row (`CommitAppends`).
6. `ReviewedCorrect`: `ReviewedAsSubmitted`. It needs the same of the writes that are pending (`WritesReviewed`): a patch reads the status when the row is locked.

7. `LifecycleCorrect` (`WorkItemsRefinement`): `LifecycleRefined`. `OperationMoves` shows that each of the nine operations, from the card as it was locked, writes one of nine moves; the invariant
   `WritesMove` keeps this for the writes that are pending, since by 3 the card is still the same when they are committed. `MovesAreSteps` finds the step of `WorkItemLifecycle` for each move, `CommitRefines` maps a `Commit` to it, and `NextRefines` every other step to a stutter. That the step uses a fresh key is 4.
8. `ReviewsIndependent` and `DecidedOnce`: `Counted` ties the columns of a card to its audit rows: as many submissions as `revision`, as many returns as `rework_count`, and no decision yet about a
   submission under review. `WritesTell` says what the writes that are pending will do to both, about the card as it is now (`CountsGrow` counts one row more). Neither property is inductive without them, because a decision is about
   what was the latest submission several steps before it is committed.
9. `RevocationsCaught`: `RevokedGrantIsCaught`, an action property; `OperationGranted` goes through the nine operations. The grant is read in the step that makes the writes; nothing keeps it until the COMMIT, and the property does not say so.

`LocksExclude` and `WritesFollow` are strengthenings and no property of a run; the mutants of `HoldsRow` and `HoldsKey` show that the locks are necessary.

*RateLimit* (`RateLimitProofs`): `BurstBounded`. Openings of windows lie more than `Window` apart (`Apart`), among any `Limit` attempts in a row there is one
(`Dense`), and `bucket` is the last window (`Current`); 2 × limit attempts then hold two openings. `BurstBound` alone is not inductive, since it does not know the windows.

*Pages* (`PagesProofs`): `RequestsBounded` carries that over to the requests of a walk. `WalkMissesNothing` rests on the invariant that every promised row is seen or still beyond the cursor (`Shown`): `Kept` only ever moves a time down
(`KeptBounds`), does so monotonically (`KeptMonotone`), and dates of rows do not change. `RepeatsStayClose` needs the converse: what is seen and yet beyond the cursor is dated before the end of the cursor's millisecond (`PassedOver`); it uses that `Kept` is idempotent
(`KeptAgain`).

*Sessions* (`SessionsProofs`): `SessionsWellFormed` carries, beside the types, what each request in flight has in hand (`InFlight`). `LogoutsStand` needs that a session is closed exactly if its version 2 is in the outbox (`OnRecord`), and that sessions are never
deleted (`SessionsStay`). For `OldPasswordsLockOut` the invariant `PasswordsDated` dates passwords: what was opened, or verified, with another password than today's is older than `password_changed_at` (`Outdated`), which is what the `INSERT` and every load compare.

*ReportStaging and ReportReview* (`ReportProofs`): every safety property of the run `reports`.

1. `ReportsWellFormed`: `WellFormed` adds to `TypeOK` what each request works on (`JobsFit`: its row is there, with its packet, or, before the reservation is committed, is not there yet), that one upload decides at a time
   (`UploadsExclude`, the advisory lock) and which version each status has. `EndFits` and `MoveFits` reduce a step to the one request that makes it.
2. `RightsStand`: `RightsHeld`, the rows an open transaction has found in force are not revoked until it ends, by the SHARE locks; that their time may be over by then (`AccessLapses`) is part of the model and not excluded. `StagingEdges` lists the ways a request goes on.
3. `DraftsKeepTheirEdits` and `DraftsStayInNetwork`: `Undisturbed` says that one draft is at work on a batch (`ReviewsExclude`, the row lock) and that what it was checked against is still what is there (`ViewCurrent`, the row lock and the lock of the directory).
4. `AuditTells`: `AuditShape` gives the audit of a batch as a function of its row (`Story`); `NextRow` lists the ways a row changes. The cardinalities follow (`ShapeTells`).
5. `QuotaKept`: `Room`, an upload that has decided to insert still fits, because `StoredKept` lets a reservation only add to what is stored, and `UploadsExclude` only one.
6. `IntentsComeFirst` and `OriginalsSurvive`: `OnDisk`. While an upload writes, names that are synced have synced files; when it announces its batch, the batch is durable. After a loss of power names may be on the disk without their files, and it is `DirectoryHasIntent` that keeps
   a new upload from meeting such a directory. `DurableStays` covers every step, `PowerSpares` the loss of power.
7. `SlotsGiveBack`: `SlotsFit`, flags and workers are those of one request each; `EndSlots` is the finally block, `CrashSlots` the death of a process.

*Notifications* (`NotificationsProofs`): one inductive invariant, `NotifyInv`, from which the theorems follow. TLC has checked it on the run `inbox`, of whose properties two are not inductive alone.

1. `NotificationsWellFormed`: `TypeOK`. That a stamp is a number rests on the outbox being finite (`EventsAreFinite`).
2. `ReceiptsTellDelivery` is inductive with `Locked` (a claimed event is there, PENDING, and locked by one run: `FOR UPDATE SKIP LOCKED`), `Addressed` (only a run that has resolved a work item's event has recipients) and `InOrder` (the outbox has the events of an item up to its version and no others,
   so that a new one was not there before). `DeliverInserts` says what the COMMIT of a delivery adds; `StoryKept` that every step away from the outbox and the receipts leaves the story as it is.
3. `NotesKeepTheirEvents` goes beside it: a notification is inserted with its event, and read with the second (`MarkReadWrites`).
4. `NotificationsReadOnce`: `ReadOnce` counts records, and a count is not inductive. `OneReading` says which record it is: for a notification that has been read there is exactly one key whose request had seen it unread, for another there is none. The
   comparison of the version a client saw with the one in the locked row makes it so.
5. `DeliveryCorrect`: `DeliveryRefined`. `CommitPublishes`, `DeliverDelivers` and `ReadOpens` show the three commits as steps of the queue, `NothingShows` all others as none. A delivery is that of a waiting event without receipt by `Locked` and `ReceiptTellsDelivery`; that it reaches nobody it may not concern
   is `Destined`, a second invariant: the run looks at the row of the item and at the grants steps before it delivers, and what it found stays among those the event may concern, since versions only rise and grants only go.

*OrgChanges* (`OrgChangesProofs`): one inductive invariant, `OrgInv`, checked by TLC on both runs of `OrgChanges`.

1. `OrgChangesWellFormed`: `TypeOK`, with `Slots`: a command in flight names a proposal that is there, one request at most holds the directory (SHARE ROW EXCLUSIVE), and the rights of whoever is past `access` (SHARE) are not revoked.
2. `Writing` (`Fits`): what an open transaction will write is still what its checks allow. The checks were made steps before the COMMIT; that the tables cannot have changed since is what the lock is for (`FitsStay`, `OthersLeaveTables`).
3. `ApplicationsFollowPreviews`: with `Numbered`, the audit rows of a proposal number its versions, name its last change, and name an application only at their end.
4. `PreviewsStillHold` and `AppliedIsWhatWasShown`: with `Previewed`, no preview is ahead of the revision, and whatever changes the directory moves the revision (`Bumps`). A change that is valid stays so as long as the directory
   is the same, but for the day (`ValidOnceThenEver`), which is why the property says `Valid(p, 0)`.
5. `DirectoryIsTold`: it counts the applied proposals of a unit against the rows of its histories. `TellingParts` takes it apart; `OneMore` and `NobodyApplied` do the counting when a change is entered (`CreationTells`, `ChangeTells`).
6. `UnitsHaveTheirPlace`: `Settled`, every history is unbroken from the unit's first day and every parent in it bears the unit from that day on. `UnbrokenStays` closes the last row and opens a new one on the same day. `Covers` is a recursive function, the walk up all the future;
   the prover cannot use its definition until a solution of the recursion is shown to exist. `WalkExists` builds one in four steps, because the kinds rise with every step of the walk (`StepsAgree`, `WalksAgree`), and `CoversUnfolds` is the equation the code has in mind. One unfolding is enough:
   the parent was itself placed in this way, so that `Settled` says the rest.
7. `RightsWhenAnswered`: by `Slots`, the rows read by `access` stay unrevoked until the transaction ends. `RightsLapse` leaves them alone, so that the theorem speaks of revocation only.
8. `CalendarCorrect`: `CalendarRefined`. Rows implement days: closing the last row of an unbroken history and opening another (`SucceededInForce`) leaves the days before as they were and gives the later ones the new value (`DaysSucceed`),
   and that the last row is open and began earlier means that nothing is planned from the day of the change on (`DaysFree`). A change that is `Valid` is therefore `Possible` (`ValidIsPossible`; of the walk its first step is enough), and what is written is what `Apply` makes
   of the unit (`RowsAreChanged`). By `Fits`, this holds of the rows at the COMMIT and not only when they were checked; that the record of the key is new then (`KeysFresh`) is carried through the transaction by the lock (`KeysStayFresh`). `CommitIsStep` takes the four commands in turn; every other step leaves the calendar alone.

What remains with TLC: the liveness properties `EveryRequestAnswered` and `EveryEventProcessed`, which need ENABLED and are outside the prover's reach, and the two runs that expect a violation.

## 6. Where the code and its documents part

* **Replays are not authorized** (`replay_claim`). `idempotency.ts:85-87` says its callers check the current authorization first; `withIdempotency`
  (`workItemService.ts:46-49`) returns the saved answer before the operation looks at a grant. `contracts/openapi.yaml:12` and
  `ACCEPTANCE_ENGINEERING.tsv:65` (E-064) ask for 403. `readNotification` shares the cause.
* **A failing event blocks those behind it** (`poison_claim`). `notificationConsumer.ts:73-75` says it does not; but the error ends the run, and the next run
  takes the same event first, because `attempts`, `next_attempt_at` and `RETRY` are never written.

Further divergences met while modelling, which no run is spent on because they can be read off one statement, or need only the steps named here:

* A rejected patch leaves no audit row: it is inserted in the transaction that the error rolls back (`workItemService.ts:497-515`; the comment at `:497` announces the row).
* Gaps are not caught up: events are taken by the start of their transactions, so that two mutations of one item may be processed in the
  wrong order; `ACCEPTANCE_ENGINEERING.tsv:71` (E-070) asks for catch-up.
* READY before durable: `REPORT_STAGING_V1.md:113` says the database never advertises a ready packet before its bytes are durable. A probe recovers a `WRITING` batch whose files can be read
  (`service.ts:136`), though they may not have been fsynced by an upload that is at work or dead, and sets it `READY` (`:156`). In the model: `WriteFile` to `written`, a probe to `CommitVerdict`, `PowerFails`.
  `QuarantinedIsDurable` is therefore stated of what an upload announces (`REPORT_QUARANTINED`), not of `READY`.
* Pages that do not advance: a cursor is a millisecond, so that a page no larger than the number of rows of one millisecond is given again and again (limit 1 always, if the row has microseconds);
  `contracts/openapi.yaml:167` calls the list a keyset. `NothingLeftOut` speaks of walks that end.
* A row that is committed late, under an earlier `created_at`, can fall behind the cursor of a walk. Nothing promises it, and `promised` does not contain it.

## 7. Not modelled

Validation of requests and wording of answers; in `WorkItems` and `Notifications` the expiry of grants (`valid_until` is compared with the start of the transaction, so that an expired
grant can be acted on while a request waits; revocation is modelled. In `OrgChanges` and `ReportStaging` timed ends are steps of their own, for all rights of a user at once); the expiry of idempotency records (30 days, nothing removes or ignores them) and the pool's limit
of ten connections. The serialisation that `orgChanges.ts:21-22`
announces is one with revocation (and `access.ts:5` takes over the same fences): a command may be committed shortly after its session has run out, and no property says otherwise. Report parsing (`reporting/shared`, `zipSafety.ts`) is sequential and stateless. Client pages render server state. The bootstrap of the first administrator, the provisioning of the editor and the
migrations are run once by hand, each under one lock and in one transaction. Locks of several components together are not compared: a deadlock across modules (`orgChanges.ts:23` against a login) is outside every module.

## 8. Plan

Modules that could follow: `LockOrder`, the orders in which transactions of different components take their locks (table locks of the directory, rows of `app_users` and `sessions`), for
deadlocks; a clock in `WorkItems`, for grants that expire while a request waits; `Provisioning`, operator commands and migrations, two at once and restarted.

Theorems that could follow: abstract specifications of the staging of reports and of sessions, and the refinements of them, for which the invariants above are the lemmas.
