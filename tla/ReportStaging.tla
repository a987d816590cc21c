---------------------------- MODULE ReportStaging ----------------------------
(***************************************************************************)
(* The private staging of report files, server/src/reporting: a batch is   *)
(* reserved in PostgreSQL (service.ts, uploadBatch), its original files    *)
(* are written to a private directory (storage.ts), the batch is marked    *)
(* READY; a worker then parses the originals once (probeBatch, probe.ts)   *)
(* and the batch becomes NEEDS_MAPPING or REJECTED for good.               *)
(*                                                                         *)
(* Everything is done by one actor, the administrator whom                 *)
(* report_staging_access names (access.ts), through several requests at    *)
(* once and several processes of the application. What is in memory only   *)
(* (the flag receiving of routes/reportBatches.ts, the counter active of   *)
(* probe.ts) is kept per process and goes with it.                         *)
(*                                                                         *)
(* A request stands, by pc:                                                *)
(*   receiving   its multipart body is read                                *)
(*   reserving   first transaction: holds the advisory lock of the actor   *)
(*   reserved    ... and has decided to insert a new batch                 *)
(*   persisting  between the transactions: the originals are written       *)
(*   finishing   second transaction of the upload                          *)
(*   probing     a probe has come; its first transaction reads the files   *)
(*   read        they were read whole, no lock is held any more            *)
(*   parsing     the worker has them; then parsed                          *)
(*   settling    second transaction of the probe                           *)
(*   drafting    a draft of the mapping has come, see ReportReview;        *)
(*   reviewing   its transaction                                           *)
(***************************************************************************)
EXTENDS Integers, Sequences, FiniteSets

CONSTANTS
  Requests,    \* slots for requests in flight
  Processes,   \* processes of the application
  Batches,     \* identifiers randomUUID() can give to batches
  Originals,   \* contents of files, told apart by their SHA-256
  Packets,     \* what is uploaded: the set of its originals (network and period agree)
  Sound,       \* the packets whose originals the worker can parse
  Null,        \* SQL NULL
  MaxBatches,  \* quota: batches of one actor
  MaxFiles     \* quota: originals of one actor, all of one size

VARIABLES
  batches,     \* report_staging_batches with report_staging_files
  disk,        \* the directory of each batch under REPORT_STORAGE_DIR
  audit,       \* audit_log rows of each batch with resolution APPLIED
  capability,  \* what stagingAccess looks for: capability, grant and session
  receiving,   \* processes that receive an upload
  probing,     \* processes that have a worker at work
  pc,          \* where each request stands
  job          \* what it works on

stagingVars == <<batches, disk, audit, capability, receiving, probing, pc, job>>

-----------------------------------------------------------------------------
(* The rows and the files *)

Batch == [packet: Packets, status: {"QUARANTINE", "NEEDS_MAPPING", "REJECTED"},
          storage: {"WRITING", "READY"}, version: 1 .. 3]

\* A file is created empty, written, and fsynced; names reach the disk when
\* the directory, and then the storage root, are fsynced.
FileStates == {"none", "created", "written", "synced"}

Directory == [files: [Originals -> FileStates], names: {"loose", "dir", "root"}]

\* downloadSource, which refuses always, writes a row with resolution REJECTED.
Entry == [action: {"REPORT_UPLOAD_RESERVED", "REPORT_QUARANTINED", "REPORT_PROBED"},
          version: Nat]

Job == [at: Processes, packet: Packets \cup {Null}, batch: Batches \cup {Null},
        version: Nat, ok: BOOLEAN]

ASSUME StagingAssumption ==
  /\ Packets \subseteq (SUBSET Originals) \ {{}}
  /\ \A k \in Packets : IsFiniteSet(k)
  /\ Sound \subseteq Packets
  /\ Null \notin Batches \cup Packets
  /\ Null \notin Batch
  /\ Null \notin Directory
  /\ Null \notin Job
  /\ MaxBatches \in Nat
  /\ MaxFiles \in Nat

Stored == {b \in Batches : batches[b] # Null}

FilesStored == {x \in Stored \X Originals : x[2] \in batches[x[1]].packet}

NoDirectory == [files |-> [f \in Originals |-> "none"], names |-> "loose"]

\* readSource finds every original of batch b, of its size and hash: they may
\* be in the cache of the operating system only.
Readable(b) ==
  /\ disk[b] # Null
  /\ \A f \in batches[b].packet : disk[b].files[f] \in {"written", "synced"}

\* The originals of batch b outlive a loss of power.
Durable(b) ==
  /\ disk[b] # Null
  /\ disk[b].names = "root"
  /\ \A f \in batches[b].packet : disk[b].files[f] = "synced"

\* What may be left of a directory d when the power fails.
Survives(d, left) ==
  IF left = Null
    THEN d # Null => d.names # "root"
    ELSE /\ d # Null
         /\ left.names = "root"
         /\ \A f \in Originals :
              \/ d.files[f] = "synced" /\ left.files[f] = "synced"
              \/ d.files[f] = "synced" /\ d.names = "loose" /\ left.files[f] = "none"
              \/ d.files[f] = "created" /\ left.files[f] \in {"none", "created"}
              \/ d.files[f] = "written" /\ left.files[f] \in {"none", "created", "synced"}
              \/ d.files[f] = "none" /\ left.files[f] = "none"

-----------------------------------------------------------------------------
(* Locks and rights *)

\* Mutant: the rights are read without LOCK TABLE.
NoAccessHeld(r) == FALSE

\* LOCK TABLE app_users, sessions, role_grants, roles, role_permissions,
\* report_staging_access IN SHARE MODE, to the end of the transaction.
HoldsAccess(r) == pc[r] \in {"reserving", "reserved", "finishing", "settling", "reviewing"}

\* Mutant: the uploads of the actor are not serialised.
UploadsNotHeld(r) == FALSE

\* pg_advisory_xact_lock of 'report-upload:' and the actor.
HoldsUploads(r) == pc[r] \in {"reserving", "reserved"}

\* stagingAccess: session, account, grant and capability are in force.
MayStage == capability = "active"

\* None of the rows has been revoked; the time of one may be over.
NotRevoked == capability \in {"active", "lapsed"}

\* The operator's command provisionReportStaging, under SHARE ROW EXCLUSIVE
\* locks: it never reactivates what was revoked.
Provision ==
  /\ capability = "absent"
  /\ \A r \in Requests : ~HoldsAccess(r)
  /\ capability' = "active"
  /\ UNCHANGED <<batches, disk, audit, receiving, probing, pc, job>>

\* A logout, or a row ended by hand: an UPDATE, which waits for the SHARE locks.
RevokeAccess ==
  /\ NotRevoked
  /\ \A r \in Requests : ~HoldsAccess(r)
  /\ capability' = "revoked"
  /\ UNCHANGED <<batches, disk, audit, receiving, probing, pc, job>>

\* expires_at, 8 hours after created_at, 30 minutes after last_seen_at or a
\* valid_until goes by, at any moment: time waits for no lock.
AccessLapses ==
  /\ MayStage
  /\ capability' = "lapsed"
  /\ UNCHANGED <<batches, disk, audit, receiving, probing, pc, job>>

\* A login: an INSERT, which waits too. A request of the session before it ends at
\* its next check, as by Fail or RejectUpload; here it may also pass.
RegainAccess ==
  /\ capability \in {"lapsed", "revoked"}
  /\ \A r \in Requests : ~HoldsAccess(r)
  /\ capability' = "active"
  /\ UNCHANGED <<batches, disk, audit, receiving, probing, pc, job>>

\* Whatever becomes of the rights.
RightsChange == Provision \/ RevokeAccess \/ AccessLapses \/ RegainAccess

-----------------------------------------------------------------------------
(* How requests end *)

Receives(r) == pc[r] \in {"receiving", "reserving", "reserved", "persisting", "finishing"}

\* Mutant: the flag is only taken back when the upload succeeds.
EndKeepingFlag(r) ==
  /\ pc' = [pc EXCEPT ![r] = "idle"]
  /\ job' = [job EXCEPT ![r] = Null]
  /\ receiving' = IF pc[r] = "finishing" THEN receiving \ {job[r].at} ELSE receiving
  /\ probing' = IF pc[r] = "parsing" THEN probing \ {job[r].at} ELSE probing

\* An answer or an error; the finally blocks give back what was taken.
End(r) ==
  /\ pc' = [pc EXCEPT ![r] = "idle"]
  /\ job' = [job EXCEPT ![r] = Null]
  /\ receiving' = IF Receives(r) THEN receiving \ {job[r].at} ELSE receiving
  /\ probing' = IF pc[r] = "parsing" THEN probing \ {job[r].at} ELSE probing

\* Any step can fail, by an error of the database or the disk. An open
\* transaction is rolled back, what was written to the disk stays.
Fail(r) ==
  /\ pc[r] \notin {"idle", "receiving"}
  /\ End(r)
  /\ UNCHANGED <<batches, disk, audit, capability>>

\* stagingAccess finds the rights gone when the next transaction begins.
Refuse(r) ==
  /\ pc[r] \in {"receiving", "persisting", "probing", "parsed", "drafting"}
  /\ ~MayStage
  /\ End(r)
  /\ UNCHANGED <<batches, disk, audit, capability>>

Goes(r, from, to) == pc[r] = from /\ pc' = [pc EXCEPT ![r] = to]

-----------------------------------------------------------------------------
(* Upload *)

\* The rights are checked before the body is read; a process that receives
\* already answers 503.
ReceiveUpload(r) ==
  /\ Goes(r, "idle", "receiving")
  /\ MayStage
  /\ \E p \in Processes \ receiving, k \in Packets :
       /\ receiving' = receiving \cup {p}
       /\ job' = [job EXCEPT ![r] =
                    [at |-> p, packet |-> k, batch |-> Null, version |-> 0, ok |-> FALSE]]
  /\ UNCHANGED <<batches, disk, audit, capability, probing>>

\* readUpload: a body that is broken off, too slow, too large, or no metadata
\* with one or two workbooks.
RejectUpload(r) ==
  /\ pc[r] = "receiving"
  /\ End(r)
  /\ UNCHANGED <<batches, disk, audit, capability>>

BeginReserve(r) ==
  /\ Goes(r, "receiving", "reserving")
  /\ MayStage
  /\ \A o \in Requests \ {r} : ~HoldsUploads(o)
  /\ UNCHANGED <<batches, disk, audit, capability, receiving, probing, job>>

OfPacket(k) == {b \in Stored : batches[b].packet = k}

WithinQuota(k) ==
  /\ Cardinality(FilesStored) + Cardinality(k) <= MaxFiles
  /\ Cardinality(Stored) < MaxBatches

\* The same packet is the batch that is there; past the quota is an error.
\* Otherwise a random identifier is taken and the rows are inserted.
Reserve(r) ==
  LET k == job[r].packet
  IN  /\ pc[r] = "reserving"
      /\ \/ /\ OfPacket(k) # {} \/ ~WithinQuota(k)
            /\ End(r)
         \/ /\ OfPacket(k) = {} /\ WithinQuota(k)
            /\ \E b \in Batches \ Stored :
                 /\ \A o \in Requests : pc[o] = "reserved" => job[o].batch # b
                 /\ job' = [job EXCEPT ![r].batch = b]
            /\ pc' = [pc EXCEPT ![r] = "reserved"]
            /\ UNCHANGED <<receiving, probing>>
      /\ UNCHANGED <<batches, disk, audit, capability>>

\* UNIQUE (actor, source, network, fingerprint) lets one row of a packet in.
CommitIntent(r) ==
  LET b == job[r].batch
  IN  /\ Goes(r, "reserved", "persisting")
      /\ OfPacket(job[r].packet) = {}
      /\ batches' = [batches EXCEPT ![b] =
           [packet |-> job[r].packet, status |-> "QUARANTINE", storage |-> "WRITING", version |-> 1]]
      /\ audit' = [audit EXCEPT ![b] = @ \cup {[action |-> "REPORT_UPLOAD_RESERVED", version |-> 1]}]
      /\ UNCHANGED <<disk, capability, receiving, probing, job>>

\* Mutant: the directory is made before the reservation is committed.
MakeDirectoryEarly(r) ==
  /\ pc[r] \in {"reserved", "persisting"}
  /\ disk[job[r].batch] = Null
  /\ disk' = [disk EXCEPT ![job[r].batch] = NoDirectory]
  /\ UNCHANGED <<batches, audit, capability, receiving, probing, pc, job>>

\* persistSources: mkdir fails if there is a directory of that name.
MakeDirectory(r) ==
  /\ pc[r] = "persisting"
  /\ disk[job[r].batch] = Null
  /\ disk' = [disk EXCEPT ![job[r].batch] = NoDirectory]
  /\ UNCHANGED <<batches, audit, capability, receiving, probing, pc, job>>

\* File f of the directory goes from one state to the next: it is opened with
\* O_EXCL, written and fsynced before the next file is opened.
WriteFile(r, from, to) ==
  LET b == job[r].batch
  IN  /\ pc[r] = "persisting"
      /\ disk[b] # Null
      /\ \E f \in job[r].packet :
           /\ disk[b].files[f] = from
           /\ from = "none" => \A g \in job[r].packet : disk[b].files[g] \in {"none", "synced"}
           /\ disk' = [disk EXCEPT ![b].files[f] = to]
      /\ UNCHANGED <<batches, audit, capability, receiving, probing, pc, job>>

\* Once all files are there, the directory is fsynced and then the root.
SyncNames(r, from, to) ==
  LET b == job[r].batch
  IN  /\ pc[r] = "persisting"
      /\ disk[b] # Null
      /\ \A f \in job[r].packet : disk[b].files[f] = "synced"
      /\ disk[b].names = from
      /\ disk' = [disk EXCEPT ![b].names = to]
      /\ UNCHANGED <<batches, audit, capability, receiving, probing, pc, job>>

PersistSources(r) ==
  \/ MakeDirectory(r)
  \/ WriteFile(r, "none", "created")
  \/ WriteFile(r, "created", "written")
  \/ WriteFile(r, "written", "synced")
  \/ SyncNames(r, "loose", "dir")
  \/ SyncNames(r, "dir", "root")

\* Mutant: READY before the storage is synced.
BeginFinishEarly(r) ==
  /\ Goes(r, "persisting", "finishing")
  /\ disk[job[r].batch] # Null
  /\ \A f \in job[r].packet : disk[job[r].batch].files[f] = "synced"
  /\ MayStage
  /\ UNCHANGED <<batches, disk, audit, capability, receiving, probing, job>>

BeginFinish(r) ==
  /\ Goes(r, "persisting", "finishing")
  /\ disk[job[r].batch] # Null
  /\ disk[job[r].batch].names = "root"
  /\ MayStage
  /\ UNCHANGED <<batches, disk, audit, capability, receiving, probing, job>>

\* One version more and its audit row, under the row lock that load takes.
Advance(b, status, action) ==
  /\ batches' = [batches EXCEPT ![b].status = status, ![b].storage = "READY", ![b].version = @ + 1]
  /\ audit' = [audit EXCEPT ![b] = @ \cup {[action |-> action, version |-> batches[b].version + 1]}]

\* Mutant: the end of the upload does not look whether a probe was faster.
FinishBlindly(r) ==
  /\ pc[r] = "finishing"
  /\ Advance(job[r].batch, "QUARANTINE", "REPORT_QUARANTINED")
  /\ End(r)
  /\ UNCHANGED <<disk, capability>>

\* A probe may have been faster.
Finish(r) ==
  LET b == job[r].batch
  IN  /\ pc[r] = "finishing"
      /\ IF batches[b].storage = "READY" \/ batches[b].status # "QUARANTINE"
           THEN UNCHANGED <<batches, audit>>
           ELSE Advance(b, "QUARANTINE", "REPORT_QUARANTINED")
      /\ End(r)
      /\ UNCHANGED <<disk, capability>>

-----------------------------------------------------------------------------
(* Probe *)

\* A client names the version he read; others may act before it is compared.
SendProbe(r) ==
  /\ Goes(r, "idle", "probing")
  /\ MayStage
  /\ \E p \in Processes, b \in Stored :
       job' = [job EXCEPT ![r] = [at |-> p, packet |-> batches[b].packet, batch |-> b,
                                  version |-> batches[b].version, ok |-> FALSE]]
  /\ UNCHANGED <<batches, disk, audit, capability, receiving, probing>>

CanProbe(r) ==
  /\ batches[job[r].batch].status = "QUARANTINE"
  /\ batches[job[r].batch].version = job[r].version
  /\ Readable(job[r].batch)

\* The first transaction: a finished batch is shown as it is, another version
\* is a conflict, unreadable originals are an error.
ReadSources(r) ==
  /\ pc[r] = "probing"
  /\ MayStage
  /\ \/ /\ CanProbe(r)
        /\ pc' = [pc EXCEPT ![r] = "read"]
        /\ UNCHANGED <<job, receiving, probing>>
     \/ ~CanProbe(r) /\ End(r)
  /\ UNCHANGED <<batches, disk, audit, capability>>

\* probeFiles: one worker in a process, else 503.
StartWorker(r) ==
  /\ pc[r] = "read"
  /\ \/ /\ job[r].at \notin probing
        /\ probing' = probing \cup {job[r].at}
        /\ pc' = [pc EXCEPT ![r] = "parsing"]
        /\ UNCHANGED <<job, receiving>>
     \/ job[r].at \in probing /\ End(r)
  /\ UNCHANGED <<batches, disk, audit, capability>>

\* The worker answers, or is stopped by its limits of time and memory.
WorkerAnswers(r) ==
  /\ Goes(r, "parsing", "parsed")
  /\ \E ok \in {FALSE, job[r].packet \in Sound} : job' = [job EXCEPT ![r].ok = ok]
  /\ probing' = probing \ {job[r].at}
  /\ UNCHANGED <<batches, disk, audit, capability, receiving>>

BeginVerdict(r) ==
  /\ Goes(r, "parsed", "settling")
  /\ MayStage
  /\ UNCHANGED <<batches, disk, audit, capability, receiving, probing, job>>

Verdict(ok) == IF ok THEN "NEEDS_MAPPING" ELSE "REJECTED"

\* Mutant: the batch is not looked at again when the worker has finished.
CommitVerdictBlindly(r) ==
  /\ pc[r] = "settling"
  /\ Advance(job[r].batch, Verdict(job[r].ok), "REPORT_PROBED")
  /\ End(r)
  /\ UNCHANGED <<disk, capability>>

\* Another verdict stands; another version is a conflict.
CommitVerdict(r) ==
  LET b == job[r].batch
  IN  /\ pc[r] = "settling"
      /\ IF batches[b].status = "QUARANTINE" /\ batches[b].version = job[r].version
           THEN Advance(b, Verdict(job[r].ok), "REPORT_PROBED")
           ELSE UNCHANGED <<batches, audit>>
      /\ End(r)
      /\ UNCHANGED <<disk, capability>>

-----------------------------------------------------------------------------
(* Crashes *)

\* A process dies with its requests, its flag and its worker.
Crash(p) ==
  /\ pc' = [r \in Requests |-> IF pc[r] # "idle" /\ job[r].at = p THEN "idle" ELSE pc[r]]
  /\ job' = [r \in Requests |-> IF pc[r] # "idle" /\ job[r].at = p THEN Null ELSE job[r]]
  /\ receiving' = receiving \ {p}
  /\ probing' = probing \ {p}
  /\ UNCHANGED <<batches, disk, audit, capability>>

Remains == {left \in Directory \cup {Null} : \E b \in Batches : Survives(disk[b], left)}

\* The host of all processes and of the volume loses its power.
PowerFails ==
  /\ disk' \in {left \in [Batches -> Remains] : \A b \in Batches : Survives(disk[b], left[b])}
  /\ pc' = [r \in Requests |-> "idle"]
  /\ job' = [r \in Requests |-> Null]
  /\ receiving' = {}
  /\ probing' = {}
  /\ UNCHANGED <<batches, audit, capability>>

-----------------------------------------------------------------------------

StagingInit ==
  /\ batches = [b \in Batches |-> Null]
  /\ disk = [b \in Batches |-> Null]
  /\ audit = [b \in Batches |-> {}]
  /\ capability = "absent"
  /\ receiving = {}
  /\ probing = {}
  /\ pc = [r \in Requests |-> "idle"]
  /\ job = [r \in Requests |-> Null]

\* What the server does next for request r, if nothing fails.
Serve(r) ==
  \/ BeginReserve(r) \/ Reserve(r) \/ CommitIntent(r) \/ PersistSources(r)
  \/ BeginFinish(r) \/ Finish(r)
  \/ ReadSources(r) \/ StartWorker(r) \/ WorkerAnswers(r)
  \/ BeginVerdict(r) \/ CommitVerdict(r)
  \/ Refuse(r)

StagingNext ==
  \/ \E r \in Requests : ReceiveUpload(r) \/ SendProbe(r) \/ Serve(r) \/ RejectUpload(r) \/ Fail(r)
  \/ \E p \in Processes : Crash(p)
  \/ RightsChange
  \/ PowerFails

StagingSpec == StagingInit /\ [][StagingNext]_stagingVars

-----------------------------------------------------------------------------
(* Properties *)

StagingTypeOK ==
  /\ batches \in [Batches -> Batch \cup {Null}]
  /\ disk \in [Batches -> Directory \cup {Null}]
  /\ audit \in [Batches -> SUBSET Entry]
  /\ capability \in {"absent", "active", "lapsed", "revoked"}
  /\ receiving \subseteq Processes
  /\ probing \subseteq Processes
  /\ pc \in [Requests -> {"idle", "receiving", "reserving", "reserved", "persisting", "finishing",
                          "probing", "read", "parsing", "parsed", "settling", "drafting", "reviewing"}]
  /\ job \in [Requests -> Job \cup {Null}]

\* However many uploads run at once, in one process or in several, what the
\* actor has stored stays within his quota (uploadBatch).
QuotaHolds ==
  /\ Cardinality(Stored) <= MaxBatches
  /\ Cardinality(FilesStored) <= MaxFiles

\* A directory that anybody made has a committed reservation, whatever crashed.
DirectoryHasIntent == \A b \in Batches : disk[b] # Null => batches[b] # Null

\* What an upload has announced as quarantined outlives every later failure of
\* the host (persistSources before the second transaction).
QuarantinedIsDurable ==
  \A b \in Batches :
    (\E a \in audit[b] : a.action = "REPORT_QUARANTINED") => batches[b] # Null /\ Durable(b)

\* The applied audit rows of a batch number its versions, one transition each:
\* reserved, then perhaps quarantined, then probed at most once, and last.
AuditTellsBatch ==
  \A b \in Batches :
    IF batches[b] = Null
      THEN audit[b] = {}
      ELSE /\ {a.version : a \in audit[b]} = 1 .. batches[b].version
           /\ Cardinality(audit[b]) = batches[b].version
           /\ Cardinality({a.action : a \in audit[b]}) = batches[b].version
           /\ \A a \in audit[b] :
                (a.action = "REPORT_PROBED") <=>
                  (a.version = batches[b].version /\ batches[b].status # "QUARANTINE")

\* A process that says it is busy is: neither the upload flag nor the worker's
\* slot outlives its request, however it ends, and no two requests share one.
SlotsHaveOneUser ==
  \A p \in Processes :
    LET uploads == {r \in Requests : Receives(r) /\ job[r].at = p}
        workers == {r \in Requests : pc[r] = "parsing" /\ job[r].at = p}
    IN  /\ Cardinality(uploads) = IF p \in receiving THEN 1 ELSE 0
        /\ Cardinality(workers) = IF p \in probing THEN 1 ELSE 0
=============================================================================
