----------------------------- MODULE ReportProofs -----------------------------
(***************************************************************************)
(* Theorems about the staging of report batches and the drafts over them,  *)
(* for every number of requests, processes, batches and files.             *)
(***************************************************************************)
EXTENDS ReportReview, FiniteSetTheorems, SequenceTheorems, TLAPS

-----------------------------------------------------------------------------
(* What a request works on *)

\* The states of a request that has a batch before it, and those that find the
\* row of that batch committed.
OnBatch == {"reserved", "persisting", "finishing", "probing", "read", "parsing", "parsed",
            "settling", "drafting", "reviewing"}
OnRow == OnBatch \ {"reserved"}

Drafting == {"drafting", "reviewing"}

Works(r) ==
  /\ job[r] \in Job
  /\ job[r].packet \in Packets
  /\ pc[r] \in OnBatch => job[r].batch \in Batches
  /\ pc[r] = "reserved" => batches[job[r].batch] = Null
  /\ pc[r] \in OnRow => batches[job[r].batch] # Null /\ batches[job[r].batch].packet = job[r].packet
  /\ pc[r] \in Drafting => draft[r] \in Draft /\ draft[r].command.batch = job[r].batch

JobsFit == \A r \in Requests : pc[r] # "idle" => Works(r)

\* One upload decides at a time.
UploadsExclude == \A r, o \in Requests : HoldsUploads(r) /\ HoldsUploads(o) => r = o

\* Rows stay, and keep the packet they were reserved for; a new one comes of
\* a reservation only.
RowsMove(r) ==
  \A b \in Batches :
    IF batches[b] # Null
      THEN batches'[b] # Null /\ batches'[b].packet = batches[b].packet
      ELSE batches'[b] = Null \/ pc[r] = "reserved"

\* A batch in quarantine has had no verdict, so that it has a version to go.
VersionsFit ==
  \A b \in Batches :
    /\ batches[b] # Null
    /\ batches[b].status = "QUARANTINE"
    => batches[b].version = IF batches[b].storage = "READY" THEN 2 ELSE 1

WellFormed == TypeOK /\ JobsFit /\ UploadsExclude /\ VersionsFit

LEMMA InitWellFormed == Init => WellFormed
<1> USE StagingAssumption, ReviewAssumption
<1> SUFFICES ASSUME Init PROVE WellFormed
  OBVIOUS
<1>1. StagingTypeOK
  BY DEF Init, StagingInit, StagingTypeOK
<1>2. revisions \in [Batches -> Seq(Revision)]
  BY DEF Init
<1>3. TypeOK
  BY <1>1, <1>2 DEF Init, TypeOK
<1>4. JobsFit /\ UploadsExclude /\ VersionsFit
  BY DEF Init, StagingInit, JobsFit, VersionsFit, UploadsExclude, HoldsUploads
<1> QED
  BY <1>3, <1>4 DEF WellFormed

\* A request that ends leaves the others as they were.
LEMMA EndFits ==
  ASSUME WellFormed, NEW r \in Requests, End(r), RowsMove(r),
         draft' \in {[o \in Requests |-> IF pc'[o] = "idle" THEN Null ELSE draft[o]],
                     [draft EXCEPT ![r] = Null]}
  PROVE  /\ JobsFit' /\ UploadsExclude'
         /\ receiving' \subseteq Processes
         /\ probing' \subseteq Processes
         /\ pc' = [pc EXCEPT ![r] = "idle"]
         /\ job' \in [Requests -> Job \cup {Null}]
         /\ draft' \in [Requests -> Draft \cup {Null}]
<1>1. pc' = [pc EXCEPT ![r] = "idle"] /\ job' = [job EXCEPT ![r] = Null]
  BY DEF End
<1>2. receiving' \subseteq Processes /\ probing' \subseteq Processes
  BY DEF End, WellFormed, TypeOK, StagingTypeOK
<1>3. job' \in [Requests -> Job \cup {Null}] /\ draft' \in [Requests -> Draft \cup {Null}]
  BY <1>1 DEF WellFormed, TypeOK, StagingTypeOK
<1>4. ASSUME NEW o \in Requests, pc'[o] # "idle" PROVE Works(o)'
  <2>1. o # r /\ pc'[o] = pc[o] /\ job'[o] = job[o]
    BY <1>1, <1>4 DEF WellFormed, TypeOK, StagingTypeOK
  <2>2. draft'[o] = draft[o]
    BY <1>4, <2>1 DEF WellFormed, TypeOK, StagingTypeOK
  <2>3. Works(o)
    BY <1>4, <2>1 DEF WellFormed, JobsFit
  <2>4. pc[o] = "reserved" => pc[r] # "reserved"
    BY <2>1 DEF WellFormed, UploadsExclude, HoldsUploads
  <2> QED
    BY <2>1, <2>2, <2>3, <2>4 DEF Works, RowsMove, OnRow, OnBatch
<1>5. UploadsExclude'
  BY <1>1 DEF WellFormed, TypeOK, StagingTypeOK, UploadsExclude, HoldsUploads
<1> QED
  BY <1>1, <1>2, <1>3, <1>4, <1>5 DEF JobsFit

\* A version more keeps the rows well-formed.
LEMMA AdvanceFits ==
  ASSUME WellFormed, NEW b \in Batches, batches[b] # Null, batches[b].status = "QUARANTINE",
         NEW status \in {"QUARANTINE", "NEEDS_MAPPING", "REJECTED"},
         status = "QUARANTINE" => batches[b].storage # "READY",
         NEW action \in {"REPORT_UPLOAD_RESERVED", "REPORT_QUARANTINED", "REPORT_PROBED"},
         Advance(b, status, action)
  PROVE  /\ batches' \in [Batches -> Batch \cup {Null}]
         /\ audit' \in [Batches -> SUBSET Entry]
         /\ \A r \in Requests : RowsMove(r)
         /\ VersionsFit'
         /\ batches' = [batches EXCEPT ![b] = [packet |-> batches[b].packet, status |-> status,
                                              storage |-> "READY", version |-> batches[b].version + 1]]
<1> DEFINE row == [packet |-> batches[b].packet, status |-> status,
                   storage |-> "READY", version |-> batches[b].version + 1]
<1>1. batches \in [Batches -> Batch \cup {Null}] /\ batches[b] \in Batch
  BY DEF WellFormed, TypeOK, StagingTypeOK
<1>2. batches[b].version \in 1 .. 2 /\ (status = "QUARANTINE" => batches[b].version = 1)
  BY <1>1 DEF WellFormed, VersionsFit, Batch
<1>3. batches' = [batches EXCEPT ![b] = row]
  BY <1>1 DEF Advance, Batch
<1>4. row \in Batch
  BY <1>1, <1>2 DEF Batch
<1>5. row # Null
  BY <1>4, StagingAssumption
<1>6. row.packet = batches[b].packet /\ row.status = status /\ row.version = batches[b].version + 1
      /\ row.storage = "READY"
  OBVIOUS
<1> HIDE DEF row
<1>7. batches' \in [Batches -> Batch \cup {Null}]
  BY <1>1, <1>3, <1>4
<1>8. \A r \in Requests : RowsMove(r)
  BY <1>1, <1>3, <1>5, <1>6 DEF RowsMove
<1>9. VersionsFit'
  <2> SUFFICES ASSUME NEW c \in Batches, batches'[c] # Null, batches'[c].status = "QUARANTINE"
               PROVE  batches'[c].version = IF batches'[c].storage = "READY" THEN 2 ELSE 1
    BY DEF VersionsFit
  <2>1. CASE c = b
    BY <2>1, <1>1, <1>2, <1>3, <1>6
  <2>2. CASE c # b
    BY <2>2, <1>1, <1>3 DEF WellFormed, VersionsFit
  <2> QED
    BY <2>1, <2>2
<1>10. audit' \in [Batches -> SUBSET Entry]
  <2>1. [action |-> action, version |-> batches[b].version + 1] \in Entry
    BY <1>2 DEF Entry
  <2> QED
    BY <2>1 DEF Advance, WellFormed, TypeOK, StagingTypeOK
<1> QED
  BY <1>3, <1>7, <1>8, <1>9, <1>10 DEF row

\* A request that begins, or goes on, with what it is given leaves the others
\* as they were.
LEMMA MoveFits ==
  ASSUME WellFormed, NEW r \in Requests, RowsMove(r),
         \A o \in Requests \ {r} : pc'[o] = pc[o] /\ job'[o] = job[o] /\ (pc[o] # "idle" => draft'[o] = draft[o]),
         pc'[r] # "idle" => Works(r)',
         pc'[r] \in {"reserving", "reserved"} =>
           pc[r] \in {"reserving", "reserved"} \/ \A o \in Requests \ {r} : ~HoldsUploads(o)
  PROVE  JobsFit' /\ UploadsExclude'
<1>0. UploadsExclude'
  BY DEF WellFormed, UploadsExclude, HoldsUploads
<1> SUFFICES ASSUME NEW o \in Requests, pc'[o] # "idle" PROVE Works(o)'
  BY <1>0 DEF JobsFit
<1>1. CASE o = r
  BY <1>1
<1>2. CASE o # r
  <2>1. Works(o) /\ pc'[o] = pc[o] /\ job'[o] = job[o] /\ draft'[o] = draft[o]
    BY <1>2 DEF WellFormed, JobsFit
  <2>2. pc[o] = "reserved" => pc[r] # "reserved"
    BY <1>2 DEF WellFormed, UploadsExclude, HoldsUploads
  <2> QED
    BY <2>1, <2>2 DEF Works, RowsMove, OnRow, OnBatch
<1> QED
  BY <1>1, <1>2

\* What every step of the staging has to show.
Fits == StagingTypeOK' /\ JobsFit' /\ UploadsExclude' /\ VersionsFit'

DraftsKept == draft' = [o \in Requests |-> IF pc'[o] = "idle" THEN Null ELSE draft[o]]

\* Steps that leave the rows alone.
LEMMA RowsRest ==
  ASSUME WellFormed, UNCHANGED batches, NEW r \in Requests
  PROVE  VersionsFit' /\ RowsMove(r)
BY DEF WellFormed, VersionsFit, RowsMove

LEMMA ReceiveFits ==
  ASSUME WellFormed, DraftsKept, NEW r \in Requests, ReceiveUpload(r) \/ BeginReserve(r)
  PROVE  Fits
<1> USE DEF DraftsKept
<1>0. StagingTypeOK
  BY DEF WellFormed, TypeOK, StagingTypeOK
<1>1. CASE ReceiveUpload(r)
  <2>1. PICK p \in Processes, k \in Packets :
          /\ receiving' = receiving \cup {p}
          /\ job' = [job EXCEPT ![r] =
               [at |-> p, packet |-> k, batch |-> Null, version |-> 0, ok |-> FALSE]]
    BY <1>1 DEF ReceiveUpload
  <2>2. [at |-> p, packet |-> k, batch |-> Null, version |-> 0, ok |-> FALSE] \in Job
    BY DEF Job
  <2>3. VersionsFit' /\ RowsMove(r)
    BY <1>1, RowsRest DEF ReceiveUpload
  <2>4. StagingTypeOK'
    BY <1>0, <1>1, <2>1, <2>2 DEF ReceiveUpload, Goes, StagingTypeOK
  <2>5. Works(r)'
    BY <1>0, <1>1, <2>1, <2>2 DEF ReceiveUpload, Goes, StagingTypeOK, Works, OnBatch, OnRow, Drafting
  <2>6. JobsFit' /\ UploadsExclude'
    BY <1>0, <1>1, <2>1, <2>3, <2>5, MoveFits DEF ReceiveUpload, Goes, StagingTypeOK
  <2> QED
    BY <2>3, <2>4, <2>6 DEF Fits
<1>2. CASE BeginReserve(r)
  <2>1. VersionsFit' /\ RowsMove(r)
    BY <1>2, RowsRest DEF BeginReserve
  <2>2. StagingTypeOK'
    BY <1>0, <1>2 DEF BeginReserve, Goes, StagingTypeOK
  <2>3. Works(r)'
    BY <1>0, <1>2 DEF BeginReserve, Goes, StagingTypeOK, Works, OnBatch, OnRow, Drafting, WellFormed, JobsFit
  <2>4. JobsFit' /\ UploadsExclude'
    BY <1>0, <1>2, <2>1, <2>3, MoveFits DEF BeginReserve, Goes, StagingTypeOK
  <2> QED
    BY <2>1, <2>2, <2>4 DEF Fits
<1> QED
  BY <1>1, <1>2

LEMMA ReserveFits ==
  ASSUME WellFormed, DraftsKept, NEW r \in Requests, Reserve(r)
  PROVE  Fits
<1> USE DEF DraftsKept
<1>0. StagingTypeOK
  BY DEF WellFormed, TypeOK, StagingTypeOK
<1>1. VersionsFit' /\ RowsMove(r)
  BY RowsRest DEF Reserve
<1>2. CASE End(r)
  BY <1>0, <1>1, <1>2, EndFits DEF Reserve, StagingTypeOK, Fits
<1>3. CASE ~End(r)
  <2>1. PICK b \in Batches \ Stored : job' = [job EXCEPT ![r].batch = b]
    BY <1>3 DEF Reserve
  <2>2. job[r] \in Job /\ job[r].packet \in Packets
    BY DEF Reserve, WellFormed, JobsFit, Works
  <2> DEFINE task == [job[r] EXCEPT !.batch = b]
  <2>3. job' = [job EXCEPT ![r] = task]
    BY <2>1
  <2>4. task \in Job /\ task.packet = job[r].packet /\ task.batch = b
    BY <2>2 DEF Job
  <2> HIDE DEF task
  <2>5. pc' = [pc EXCEPT ![r] = "reserved"] /\ batches' = batches
    BY <1>3 DEF Reserve
  <2>6. StagingTypeOK'
    BY <1>0, <1>3, <2>3, <2>4, <2>5 DEF Reserve, StagingTypeOK
  <2>7. Works(r)'
    BY <1>0, <2>1, <2>2, <2>3, <2>4, <2>5 DEF StagingTypeOK, Works, OnBatch, OnRow, Drafting, Stored
  <2>8. JobsFit' /\ UploadsExclude'
    BY <1>0, <1>1, <2>3, <2>5, <2>7, MoveFits DEF StagingTypeOK, Reserve
  <2> QED
    BY <1>1, <2>6, <2>8 DEF Fits
<1> QED
  BY <1>2, <1>3

\* The new row of a packet, where there was none.
LEMMA CommitIntentFits ==
  ASSUME WellFormed, DraftsKept, NEW r \in Requests, CommitIntent(r)
  PROVE  Fits
<1> USE DEF DraftsKept
<1> DEFINE b == job[r].batch
           row == [packet |-> job[r].packet, status |-> "QUARANTINE", storage |-> "WRITING", version |-> 1]
<1>0. StagingTypeOK
  BY DEF WellFormed, TypeOK, StagingTypeOK
<1>1. /\ b \in Batches /\ batches[b] = Null
      /\ job[r].packet \in Packets /\ job[r] \in Job
  BY DEF CommitIntent, Goes, WellFormed, JobsFit, Works, OnBatch
<1>2. row \in Batch
  BY <1>1 DEF Batch
<1>3. row # Null
  BY <1>2, StagingAssumption
<1>4. batches' = [batches EXCEPT ![b] = row]
  BY DEF CommitIntent
<1>5. row.status = "QUARANTINE" /\ row.storage = "WRITING" /\ row.version = 1 /\ row.packet = job[r].packet
  OBVIOUS
<1>6. audit' \in [Batches -> SUBSET Entry]
  <2>1. [action |-> "REPORT_UPLOAD_RESERVED", version |-> 1] \in Entry
    BY DEF Entry
  <2> QED
    BY <2>1, <1>0 DEF CommitIntent, StagingTypeOK
<1>7. /\ pc[r] = "reserved" /\ pc' = [pc EXCEPT ![r] = "persisting"]
      /\ UNCHANGED <<disk, capability, receiving, probing, job>>
  BY DEF CommitIntent, Goes
<1> HIDE DEF row
<1>8. StagingTypeOK'
  BY <1>0, <1>1, <1>2, <1>4, <1>6, <1>7 DEF StagingTypeOK
<1>9. VersionsFit'
  <2> SUFFICES ASSUME NEW c \in Batches, batches'[c] # Null, batches'[c].status = "QUARANTINE"
               PROVE  batches'[c].version = IF batches'[c].storage = "READY" THEN 2 ELSE 1
    BY DEF VersionsFit
  <2>1. CASE c = b
    BY <1>0, <2>1, <1>1, <1>4, <1>5 DEF StagingTypeOK
  <2>2. CASE c # b
    BY <1>0, <2>2, <1>1, <1>4 DEF WellFormed, VersionsFit, StagingTypeOK
  <2> QED
    BY <2>1, <2>2
<1>10. RowsMove(r)
  BY <1>0, <1>1, <1>3, <1>4, <1>5, <1>7 DEF RowsMove, StagingTypeOK
<1>11. Works(r)'
  BY <1>0, <1>1, <1>3, <1>4, <1>5, <1>7 DEF StagingTypeOK, Works, OnBatch, OnRow, Drafting
<1>12. JobsFit' /\ UploadsExclude'
  BY <1>0, <1>7, <1>10, <1>11, MoveFits DEF StagingTypeOK
<1> QED
  BY <1>8, <1>9, <1>12 DEF Fits

\* The writing of the originals changes one directory only.
LEMMA PersistWrites ==
  ASSUME WellFormed, NEW r \in Requests, PersistSources(r)
  PROVE  /\ pc[r] = "persisting"
         /\ UNCHANGED <<batches, audit, capability, receiving, probing, pc, job>>
         /\ \E dir \in Directory : disk' = [disk EXCEPT ![job[r].batch] = dir]
         /\ disk' \in [Batches -> Directory \cup {Null}]
<1>1. pc[r] = "persisting" /\ UNCHANGED <<batches, audit, capability, receiving, probing, pc, job>>
  BY DEF PersistSources, MakeDirectory, WriteFile, SyncNames
<1> DEFINE b == job[r].batch
<1>2. b \in Batches /\ job[r].packet \subseteq Originals
  BY <1>1, StagingAssumption DEF WellFormed, JobsFit, Works, OnBatch
<1>3. disk \in [Batches -> Directory \cup {Null}]
  BY DEF WellFormed, TypeOK, StagingTypeOK
<1> SUFFICES \E dir \in Directory : disk' = [disk EXCEPT ![b] = dir]
  BY <1>1, <1>2, <1>3
<1>4. CASE MakeDirectory(r)
  <2>1. NoDirectory \in Directory
    BY DEF NoDirectory, Directory, FileStates
  <2> QED
    BY <1>4, <2>1 DEF MakeDirectory
<1>5. ASSUME NEW from \in FileStates, NEW to \in FileStates, WriteFile(r, from, to)
      PROVE  \E dir \in Directory : disk' = [disk EXCEPT ![b] = dir]
  <2>1. PICK f \in job[r].packet : disk' = [disk EXCEPT ![b].files[f] = to]
    BY <1>5 DEF WriteFile
  <2>2. disk[b] \in Directory
    BY <1>2, <1>3, <1>5 DEF WriteFile
  <2> DEFINE dir == [disk[b] EXCEPT !.files[f] = to]
  <2>3. dir \in Directory
    BY <2>2, <1>2, <1>5 DEF Directory
  <2>4. disk' = [disk EXCEPT ![b] = dir]
    BY <2>1
  <2> QED
    BY <2>3, <2>4
<1>6. ASSUME NEW from, NEW to \in {"dir", "root"}, SyncNames(r, from, to)
      PROVE  \E dir \in Directory : disk' = [disk EXCEPT ![b] = dir]
  <2>1. disk[b] \in Directory
    BY <1>2, <1>3, <1>6 DEF SyncNames
  <2> DEFINE dir == [disk[b] EXCEPT !.names = to]
  <2>2. dir \in Directory
    BY <2>1, <1>6 DEF Directory
  <2>3. disk' = [disk EXCEPT ![b] = dir]
    BY <1>6 DEF SyncNames
  <2> QED
    BY <2>2, <2>3
<1> QED
  BY <1>4, <1>5, <1>6 DEF PersistSources, FileStates

LEMMA PersistFits ==
  ASSUME WellFormed, DraftsKept, NEW r \in Requests, PersistSources(r)
  PROVE  Fits
<1>0. StagingTypeOK
  BY DEF WellFormed, TypeOK, StagingTypeOK
<1>1. VersionsFit' /\ RowsMove(r)
  BY PersistWrites, RowsRest
<1>2. StagingTypeOK'
  BY <1>0, PersistWrites DEF StagingTypeOK
<1>3. Works(r)'
  BY PersistWrites DEF Works, OnBatch, OnRow, Drafting, WellFormed, JobsFit
<1>4. JobsFit' /\ UploadsExclude'
  BY <1>0, <1>1, <1>3, PersistWrites, MoveFits DEF StagingTypeOK, DraftsKept
<1> QED
  BY <1>1, <1>2, <1>4 DEF Fits

\* Steps that go from one state to the next with the batch they have.
LEMMA StepFits ==
  ASSUME WellFormed, DraftsKept, NEW r \in Requests,
         BeginFinish(r) \/ WorkerAnswers(r) \/ BeginVerdict(r)
  PROVE  Fits
<1>0. StagingTypeOK
  BY DEF WellFormed, TypeOK, StagingTypeOK
<1>1. VersionsFit' /\ RowsMove(r)
  BY RowsRest DEF BeginFinish, WorkerAnswers, BeginVerdict
<1>2. pc[r] \in {"persisting", "parsing", "parsed"} /\ Works(r)
  BY DEF BeginFinish, WorkerAnswers, BeginVerdict, Goes, WellFormed, JobsFit
<1>3. PICK ok \in BOOLEAN : job' = [job EXCEPT ![r].ok = ok]
  <2>1. CASE WorkerAnswers(r)
    <3> DEFINE good == job[r].packet \in Sound
    <3>1. good \in BOOLEAN
      OBVIOUS
    <3>2. \E ok \in {FALSE, good} : job' = [job EXCEPT ![r].ok = ok]
      BY <2>1 DEF WorkerAnswers
    <3> HIDE DEF good
    <3> QED
      BY <3>1, <3>2
  <2>2. CASE ~WorkerAnswers(r)
    <3>1. job[r] = [job[r] EXCEPT !.ok = job[r].ok] /\ job[r].ok \in BOOLEAN
      BY <1>2 DEF Works, Job
    <3>2. job' = job
      BY <2>2 DEF BeginFinish, BeginVerdict
    <3> QED
      BY <1>0, <3>1, <3>2 DEF StagingTypeOK
  <2> QED
    BY <2>1, <2>2
<1> DEFINE task == [job[r] EXCEPT !.ok = ok]
<1>4. job' = [job EXCEPT ![r] = task]
  BY <1>3
<1>5. task \in Job /\ task.packet = job[r].packet /\ task.batch = job[r].batch
  BY <1>2 DEF Job, Works
<1> HIDE DEF task
<1>6. PICK to \in {"finishing", "parsed", "settling"} : pc' = [pc EXCEPT ![r] = to]
  BY DEF BeginFinish, WorkerAnswers, BeginVerdict, Goes
<1>7. UNCHANGED <<batches, disk, audit, capability, receiving>> /\ probing' \subseteq Processes
  BY <1>0 DEF BeginFinish, WorkerAnswers, BeginVerdict, StagingTypeOK
<1>8. StagingTypeOK'
  BY <1>0, <1>4, <1>5, <1>6, <1>7 DEF StagingTypeOK
<1>9. Works(r)'
  BY <1>0, <1>2, <1>4, <1>5, <1>6, <1>7 DEF StagingTypeOK, Works, OnBatch, OnRow, Drafting
<1>10. JobsFit' /\ UploadsExclude'
  BY <1>0, <1>1, <1>4, <1>6, <1>9, MoveFits DEF StagingTypeOK, DraftsKept
<1> QED
  BY <1>1, <1>8, <1>10 DEF Fits

LEMMA ProbeFits ==
  ASSUME WellFormed, DraftsKept, NEW r \in Requests,
         SendProbe(r) \/ ReadSources(r) \/ StartWorker(r)
  PROVE  Fits
<1>0. StagingTypeOK
  BY DEF WellFormed, TypeOK, StagingTypeOK
<1>1. VersionsFit' /\ RowsMove(r)
  BY RowsRest DEF SendProbe, ReadSources, StartWorker
<1>2. CASE SendProbe(r)
  <2>1. PICK p \in Processes, b \in Stored :
          job' = [job EXCEPT ![r] = [at |-> p, packet |-> batches[b].packet, batch |-> b,
                                     version |-> batches[b].version, ok |-> FALSE]]
    BY <1>2 DEF SendProbe
  <2> DEFINE task == [at |-> p, packet |-> batches[b].packet, batch |-> b,
                      version |-> batches[b].version, ok |-> FALSE]
  <2>2. b \in Batches /\ batches[b] \in Batch /\ batches[b] # Null
    BY <1>0 DEF Stored, StagingTypeOK
  <2>3. task \in Job /\ task.batch = b /\ task.packet = batches[b].packet /\ task.packet \in Packets
    BY <2>2 DEF Job, Batch
  <2>4. job' = [job EXCEPT ![r] = task]
    BY <2>1
  <2> HIDE DEF task
  <2>5. /\ pc[r] = "idle" /\ pc' = [pc EXCEPT ![r] = "probing"]
        /\ UNCHANGED <<batches, disk, audit, capability, receiving, probing>>
    BY <1>2 DEF SendProbe, Goes
  <2>6. StagingTypeOK'
    BY <1>0, <2>3, <2>4, <2>5 DEF StagingTypeOK
  <2>7. Works(r)'
    BY <1>0, <2>2, <2>3, <2>4, <2>5 DEF StagingTypeOK, Works, OnBatch, OnRow, Drafting
  <2>8. JobsFit' /\ UploadsExclude'
    BY <1>0, <1>1, <2>4, <2>5, <2>7, MoveFits DEF StagingTypeOK, DraftsKept
  <2> QED
    BY <1>1, <2>6, <2>8 DEF Fits
<1>3. CASE End(r)
  <2>1. UNCHANGED <<batches, disk, audit, capability>>
    BY <1>3 DEF SendProbe, ReadSources, StartWorker
  <2> QED
    BY <1>0, <1>1, <1>3, <2>1, EndFits DEF StagingTypeOK, Fits, DraftsKept
<1>4. CASE ~SendProbe(r) /\ ~End(r)
  <2>1. PICK to \in {"read", "parsing"} : pc' = [pc EXCEPT ![r] = to]
    BY <1>4 DEF ReadSources, StartWorker
  <2>2. /\ UNCHANGED <<batches, disk, audit, capability, receiving, job>> /\ probing' \subseteq Processes
        /\ pc[r] \in {"probing", "read"} /\ Works(r)
    <3>1. /\ UNCHANGED <<batches, disk, audit, capability, receiving, job>>
          /\ pc[r] \in {"probing", "read"}
      BY <1>4 DEF ReadSources, StartWorker
    <3>2. Works(r)
      BY <3>1 DEF WellFormed, JobsFit
    <3>3. job[r].at \in Processes
      BY <3>2 DEF Works, Job
    <3> QED
      BY <1>0, <1>4, <3>1, <3>2, <3>3 DEF ReadSources, StartWorker, StagingTypeOK
  <2>3. StagingTypeOK'
    BY <1>0, <2>1, <2>2 DEF StagingTypeOK
  <2>4. Works(r)'
    BY <1>0, <2>1, <2>2 DEF StagingTypeOK, Works, OnBatch, OnRow, Drafting
  <2>5. JobsFit' /\ UploadsExclude'
    BY <1>0, <1>1, <2>1, <2>2, <2>4, MoveFits DEF StagingTypeOK, DraftsKept
  <2> QED
    BY <1>1, <2>3, <2>5 DEF Fits
<1> QED
  BY <1>2, <1>3, <1>4

\* Requests that end without a change, by an answer, an error or a rollback.
LEMMA EndingsFit ==
  ASSUME WellFormed, DraftsKept, NEW r \in Requests, Fail(r) \/ Refuse(r) \/ RejectUpload(r)
  PROVE  Fits
<1>0. StagingTypeOK
  BY DEF WellFormed, TypeOK, StagingTypeOK
<1>1. VersionsFit' /\ RowsMove(r)
  BY RowsRest DEF Fail, Refuse, RejectUpload
<1>2. End(r) /\ UNCHANGED <<batches, disk, audit, capability>>
  BY DEF Fail, Refuse, RejectUpload
<1> QED
  BY <1>0, <1>1, <1>2, EndFits DEF StagingTypeOK, Fits, DraftsKept

\* The two steps that give a batch a version more.
LEMMA AdvancesFit ==
  ASSUME WellFormed, DraftsKept, NEW r \in Requests, Finish(r) \/ CommitVerdict(r)
  PROVE  Fits
<1> DEFINE b == job[r].batch
<1>0. StagingTypeOK
  BY DEF WellFormed, TypeOK, StagingTypeOK
<1>1. /\ pc[r] \in {"finishing", "settling"} /\ Works(r) /\ End(r)
      /\ UNCHANGED <<disk, capability>>
  BY DEF Finish, CommitVerdict, WellFormed, JobsFit
<1>2. b \in Batches /\ batches[b] # Null
  BY <1>1 DEF Works, OnBatch, OnRow
<1>3. /\ batches' \in [Batches -> Batch \cup {Null}]
      /\ audit' \in [Batches -> SUBSET Entry]
      /\ RowsMove(r)
      /\ VersionsFit'
  <2>1. CASE UNCHANGED <<batches, audit>>
    BY <1>0, <2>1, RowsRest DEF StagingTypeOK
  <2>2. CASE Finish(r) /\ ~UNCHANGED <<batches, audit>>
    <3>1. batches[b].status = "QUARANTINE" /\ batches[b].storage # "READY"
          /\ Advance(b, "QUARANTINE", "REPORT_QUARANTINED")
      BY <2>2 DEF Finish
    <3> QED
      BY <1>2, <3>1, AdvanceFits
  <2>3. CASE CommitVerdict(r) /\ ~UNCHANGED <<batches, audit>>
    <3>1. batches[b].status = "QUARANTINE" /\ Advance(b, Verdict(job[r].ok), "REPORT_PROBED")
      BY <2>3 DEF CommitVerdict
    <3>2. Verdict(job[r].ok) \in {"NEEDS_MAPPING", "REJECTED"}
      BY DEF Verdict
    <3> QED
      BY <1>2, <3>1, <3>2, AdvanceFits
  <2> QED
    BY <2>1, <2>2, <2>3
<1> QED
  BY <1>0, <1>1, <1>3, EndFits DEF StagingTypeOK, Fits, DraftsKept

\* Crashes take requests with them and leave the rows.
LEMMA CrashesFit ==
  ASSUME WellFormed, DraftsKept, PowerFails \/ \E p \in Processes : Crash(p)
  PROVE  Fits
<1>0. StagingTypeOK /\ batches' = batches
  BY DEF WellFormed, TypeOK, StagingTypeOK, PowerFails, Crash
<1>1. VersionsFit'
  BY <1>0 DEF VersionsFit, WellFormed
<1>2. ASSUME NEW r \in Requests, pc'[r] # "idle"
      PROVE  pc'[r] = pc[r] /\ job'[r] = job[r] /\ draft'[r] = draft[r] /\ Works(r)
  BY <1>2 DEF PowerFails, Crash, DraftsKept, WellFormed, JobsFit
<1>3. JobsFit'
  BY <1>0, <1>2 DEF JobsFit, Works
<1>4. UploadsExclude'
  BY <1>2 DEF UploadsExclude, HoldsUploads, WellFormed
<1>5. disk' \in [Batches -> Directory \cup {Null}]
  BY <1>0 DEF PowerFails, Crash, StagingTypeOK, Remains
<1>6. StagingTypeOK'
  BY <1>0, <1>5 DEF PowerFails, Crash, StagingTypeOK
<1> QED
  BY <1>1, <1>3, <1>4, <1>6 DEF Fits

LEMMA StagingFits ==
  ASSUME WellFormed, Staging
  PROVE  WellFormed'
<1> USE DEF Staging
<1>1. DraftsKept
  BY DEF DraftsKept
<1>2. Fits
  <2>1. CASE RightsChange
    <3>1. UNCHANGED <<batches, disk, audit, receiving, probing, pc, job>>
          /\ capability' \in {"active", "lapsed", "revoked"}
      BY <2>1 DEF RightsChange, Provision, RevokeAccess, AccessLapses, RegainAccess
    <3>2. \A r \in Requests : pc[r] # "idle" => draft'[r] = draft[r]
      BY <1>1, <3>1 DEF DraftsKept
    <3>3. StagingTypeOK' /\ VersionsFit' /\ UploadsExclude'
      BY <3>1 DEF WellFormed, TypeOK, StagingTypeOK, VersionsFit, UploadsExclude, HoldsUploads
    <3>4. JobsFit'
      BY <3>1, <3>2 DEF WellFormed, JobsFit, Works
    <3> QED
      BY <3>3, <3>4 DEF Fits
  <2> QED
    BY <1>1, <2>1, ReceiveFits, ReserveFits, CommitIntentFits, PersistFits, StepFits, ProbeFits,
       EndingsFit, AdvancesFit, CrashesFit DEF StagingNext, Serve
<1>3. draft' \in [Requests -> Draft \cup {Null}]
  BY <1>1 DEF DraftsKept, WellFormed, TypeOK
<1> QED
  BY <1>2, <1>3 DEF Fits, WellFormed, TypeOK

-----------------------------------------------------------------------------
(* The drafts *)

\* A draft is at work on its batch alone, under the lock of the row, and what it
\* was checked on is what is there.
ReviewsExclude ==
  \A r, o \in Requests :
    pc[r] = "reviewing" /\ pc[o] = "reviewing" /\ job[r].batch = job[o].batch => r = o

ViewCurrent == \A r \in Requests : pc[r] = "reviewing" => draft[r].view = View(job[r].batch)

\* The drafts of other requests are not touched.
LEMMA ReviewFits ==
  ASSUME WellFormed, NEW r \in Requests, SendReview(r) \/ BeginReview(r) \/ SaveReview(r)
  PROVE  WellFormed'
<1>0. StagingTypeOK /\ TypeOK
  BY DEF WellFormed, TypeOK
<1>1. UNCHANGED batches /\ VersionsFit' /\ RowsMove(r)
  BY RowsRest DEF SendReview, BeginReview, SaveReview
<1>2. CASE SendReview(r)
  <2>0. PICK p \in Processes, b \in Stored, k \in Keys, e \in Edits :
          /\ batches[b].status = "NEEDS_MAPPING"
          /\ \E seen \in 0 .. Len(revisions[b]) :
               draft' = [draft EXCEPT ![r] =
                 [key |-> k, command |-> [batch |-> b, seen |-> seen, edits |-> e], view |-> Unread]]
          /\ job' = [job EXCEPT ![r] = [at |-> p, packet |-> batches[b].packet, batch |-> b,
                                        version |-> batches[b].version, ok |-> FALSE]]
    BY <1>2 DEF SendReview
  <2>1. PICK seen \in 0 .. Len(revisions[b]) :
          draft' = [draft EXCEPT ![r] =
            [key |-> k, command |-> [batch |-> b, seen |-> seen, edits |-> e], view |-> Unread]]
    BY <2>0
  <2> DEFINE task == [at |-> p, packet |-> batches[b].packet, batch |-> b,
                      version |-> batches[b].version, ok |-> FALSE]
             command == [batch |-> b, seen |-> seen, edits |-> e]
             d == [key |-> k, command |-> command, view |-> Unread]
  <2>2. b \in Batches /\ batches[b] \in Batch /\ batches[b] # Null
    BY <1>0 DEF Stored, StagingTypeOK
  <2>3. task \in Job /\ task.batch = b /\ task.packet = batches[b].packet /\ task.packet \in Packets
    BY <2>2 DEF Job, Batch
  <2>4. Unread \in [version: Nat, mapping: Mapping, eligible: SUBSET Outlets]
    BY DEF Unread, Blank, Mapping
  <2>5. command \in Command /\ command.batch = b
    BY <2>2, <2>1 DEF Command
  <2>6. d \in Draft /\ d.command.batch = b
    BY <2>4, <2>5 DEF Draft
  <2>7. job' = [job EXCEPT ![r] = task] /\ draft' = [draft EXCEPT ![r] = d]
    BY <2>0, <2>1
  <2> HIDE DEF task, d
  <2>8. /\ pc[r] = "idle" /\ pc' = [pc EXCEPT ![r] = "drafting"]
        /\ UNCHANGED <<batches, disk, audit, capability, receiving, probing, eligible, revisions, saved>>
    BY <1>2 DEF SendReview, Goes
  <2>9. TypeOK'
    BY <1>0, <2>3, <2>6, <2>7, <2>8 DEF StagingTypeOK, TypeOK
  <2>10. Works(r)'
    BY <1>0, <2>2, <2>3, <2>6, <2>7, <2>8 DEF StagingTypeOK, TypeOK, Works, OnBatch, OnRow, Drafting
  <2>11. JobsFit' /\ UploadsExclude'
    BY <1>0, <1>1, <2>7, <2>8, <2>10, MoveFits DEF StagingTypeOK, TypeOK
  <2> QED
    BY <1>1, <2>9, <2>11 DEF WellFormed
<1>3. CASE BeginReview(r)
  <2> DEFINE b == job[r].batch
             d == [draft[r] EXCEPT !.view = View(b)]
  <2>1. /\ pc[r] = "drafting" /\ pc' = [pc EXCEPT ![r] = "reviewing"] /\ draft' = [draft EXCEPT ![r] = d]
        /\ UNCHANGED <<batches, disk, audit, capability, receiving, probing, job, eligible, revisions, saved>>
    BY <1>3 DEF BeginReview, Goes
  <2>2. Works(r) /\ draft[r] \in Draft /\ draft[r].command.batch = b /\ b \in Batches
    BY <2>1 DEF WellFormed, JobsFit, Works, Drafting, OnBatch
  <2>3. View(b) \in [version: Nat, mapping: Mapping, eligible: SUBSET Outlets]
    <3>1. revisions[b] \in Seq(Revision) /\ eligible \in SUBSET Outlets
      BY <1>0, <2>2 DEF TypeOK
    <3>2. CASE revisions[b] = <<>>
      BY <3>1, <3>2 DEF View, Current, Blank, Mapping
    <3>3. CASE revisions[b] # <<>>
      <4>1. Len(revisions[b]) \in 1 .. Len(revisions[b]) /\ Len(revisions[b]) \in Nat
        BY <3>1, <3>3
      <4>2. revisions[b][Len(revisions[b])] \in Revision
        BY <3>1, <4>1, ElementOfSeq
      <4>3. revisions[b][Len(revisions[b])].mapping \in Mapping
        BY <4>2 DEF Revision
      <4> QED
        BY <3>1, <3>3, <4>1, <4>3 DEF View, Current
    <3> QED
      BY <3>2, <3>3
  <2>4. d \in Draft /\ d.command = draft[r].command
    BY <2>2, <2>3 DEF Draft
  <2> HIDE DEF d
  <2>5. TypeOK'
    BY <1>0, <2>1, <2>4 DEF StagingTypeOK, TypeOK
  <2>6. Works(r)'
    BY <1>0, <2>1, <2>2, <2>4 DEF StagingTypeOK, TypeOK, Works, OnBatch, OnRow, Drafting
  <2>7. JobsFit' /\ UploadsExclude'
    BY <1>0, <1>1, <2>1, <2>6, MoveFits DEF StagingTypeOK, TypeOK
  <2> QED
    BY <1>1, <2>5, <2>7 DEF WellFormed
<1>4. CASE SaveReview(r)
  <2> DEFINE d == draft[r]
             b == d.command.batch
  <2>1. /\ pc[r] = "reviewing" /\ End(r) /\ draft' = [draft EXCEPT ![r] = Null]
        /\ UNCHANGED <<batches, disk, audit, capability, eligible>>
    BY <1>4 DEF SaveReview
  <2>2. d \in Draft /\ b \in Batches /\ d.command \in Command /\ d.key \in Keys
    BY <2>1 DEF WellFormed, JobsFit, Works, Drafting, Draft, Command
  <2>3. revisions' \in [Batches -> Seq(Revision)] /\ saved' \in [Keys -> Command \cup {Null}]
    <3>1. CASE UNCHANGED <<revisions, saved>>
      BY <1>0, <3>1 DEF TypeOK
    <3>2. CASE ~UNCHANGED <<revisions, saved>>
      <4> DEFINE rev == [seen |-> d.command.seen, edits |-> d.command.edits,
                         mapping |-> Edited(d.view.mapping, d.command.edits)]
      <4>1. revisions' = [revisions EXCEPT ![b] = Append(@, rev)] /\ saved' = [saved EXCEPT ![d.key] = d.command]
        BY <1>4, <3>2 DEF SaveReview
      <4>2. Edited(d.view.mapping, d.command.edits) \in Mapping
        <5>1. d.command.edits \in Edit /\ d.view.mapping \in Mapping
          BY <2>2, ReviewAssumption DEF Draft, Command
        <5>2. PICK D \in SUBSET Rows : d.command.edits \in [D -> Outlets \cup {Null}]
          BY <5>1 DEF Edit
        <5> QED
          BY <5>1, <5>2 DEF Edited, Mapping
      <4>3. rev \in Revision
        BY <2>2, <4>2 DEF Revision, Command
      <4> HIDE DEF rev
      <4> QED
        BY <1>0, <2>2, <4>1, <4>3 DEF TypeOK
    <3> QED
      BY <3>1, <3>2
  <2> QED
    BY <1>0, <1>1, <2>1, <2>3, EndFits DEF TypeOK, StagingTypeOK, WellFormed
<1> QED
  BY <1>2, <1>3, <1>4

\* Every step keeps the requests, the rows and the drafts well-formed.
THEOREM NextWellFormed ==
  ASSUME WellFormed, [Next]_vars
  PROVE  WellFormed'
<1>1. CASE Staging
  BY <1>1, StagingFits
<1>2. CASE \E r \in Requests : SendReview(r) \/ BeginReview(r) \/ SaveReview(r)
  BY <1>2, ReviewFits
<1>3. CASE DirectoryChanges
  BY <1>3 DEF DirectoryChanges, stagingVars, WellFormed, TypeOK, StagingTypeOK, JobsFit, Works,
              UploadsExclude, HoldsUploads, VersionsFit
<1>4. CASE UNCHANGED vars
  BY <1>4 DEF vars, reviewVars, stagingVars, WellFormed, TypeOK, StagingTypeOK, JobsFit, Works,
              UploadsExclude, HoldsUploads, VersionsFit
<1> QED
  BY <1>1, <1>2, <1>3, <1>4 DEF Next

\* TypeOK holds, and every request that is not idle has the batch, the packet and
\* the draft its step works on.
THEOREM ReportsWellFormed == Spec => []TypeOK
<1>1. Init => WellFormed
  BY InitWellFormed
<1>2. WellFormed /\ [Next]_vars => WellFormed'
  BY NextWellFormed
<1>3. WellFormed => TypeOK
  BY DEF WellFormed
<1> QED
  BY <1>1, <1>2, <1>3, PTL DEF Spec

-----------------------------------------------------------------------------
(* Rights *)

RightsHeld == \A r \in Requests : HoldsAccess(r) => NotRevoked

\* How a request can go on in a step of the staging.
LEMMA StagingEdges ==
  ASSUME WellFormed, StagingNext, NEW o \in Requests, pc'[o] # "idle"
  PROVE  \/ pc'[o] = pc[o] /\ job'[o] = job[o]
         \/ /\ pc'[o] \in {"reserving", "finishing", "settling"}
            /\ MayStage /\ capability' = capability
         \/ /\ pc[o] = "reserving" /\ pc'[o] = "reserved" /\ capability' = capability
         \/ pc'[o] \in {"receiving", "persisting", "probing", "read", "parsing", "parsed"}
<1>0. pc = [x \in Requests |-> pc[x]] /\ job = [x \in Requests |-> job[x]]
  BY DEF WellFormed, TypeOK, StagingTypeOK
<1>1. CASE RightsChange \/ PowerFails \/ \E p \in Processes : Crash(p)
  BY <1>1 DEF RightsChange, Provision, RevokeAccess, AccessLapses, RegainAccess, PowerFails, Crash
<1> SUFFICES ASSUME NEW r \in Requests,
                    ReceiveUpload(r) \/ SendProbe(r) \/ Serve(r) \/ RejectUpload(r) \/ Fail(r)
             PROVE  \/ pc'[o] = pc[o] /\ job'[o] = job[o]
                    \/ /\ pc'[o] \in {"reserving", "finishing", "settling"}
                       /\ MayStage /\ capability' = capability
                    \/ /\ pc[o] = "reserving" /\ pc'[o] = "reserved" /\ capability' = capability
                    \/ pc'[o] \in {"receiving", "persisting", "probing", "read", "parsing", "parsed"}
  BY <1>1 DEF StagingNext
<1>2. CASE End(r)
  BY <1>0, <1>2 DEF End
<1>3. CASE ReceiveUpload(r) \/ SendProbe(r)
  BY <1>0, <1>3 DEF ReceiveUpload, SendProbe, Goes
<1>4. CASE BeginReserve(r) \/ BeginFinish(r) \/ BeginVerdict(r)
  BY <1>0, <1>4 DEF BeginReserve, BeginFinish, BeginVerdict, Goes
<1>5. CASE Reserve(r) /\ ~End(r)
  BY <1>0, <1>5 DEF Reserve
<1>6. CASE CommitIntent(r) \/ WorkerAnswers(r)
  BY <1>0, <1>6 DEF CommitIntent, WorkerAnswers, Goes
<1>7. CASE (ReadSources(r) \/ StartWorker(r)) /\ ~End(r)
  BY <1>0, <1>7 DEF ReadSources, StartWorker
<1>8. CASE PersistSources(r)
  BY <1>8, PersistWrites
<1> QED
  BY <1>2, <1>3, <1>4, <1>5, <1>6, <1>7, <1>8
     DEF Serve, RejectUpload, Fail, Refuse, Finish, CommitVerdict

LEMMA NextRights ==
  ASSUME WellFormed, RightsHeld, [Next]_vars
  PROVE  RightsHeld'
<1> SUFFICES ASSUME NEW o \in Requests, HoldsAccess(o)' PROVE NotRevoked'
  BY DEF RightsHeld
<1>0. pc'[o] \in {"reserving", "reserved", "finishing", "settling", "reviewing"}
  BY DEF HoldsAccess
<1>1. CASE Staging
  <2>1. CASE Provision \/ AccessLapses \/ RegainAccess
    BY <2>1 DEF Provision, AccessLapses, RegainAccess, NotRevoked
  <2>2. CASE RevokeAccess
    BY <1>0, <2>2 DEF RevokeAccess, HoldsAccess
  <2>3. CASE ~RightsChange
    <3>1. capability' = capability
      BY <1>1, <2>3 DEF Staging, StagingNext, Serve, PowerFails, Crash, ReceiveUpload, SendProbe,
         RejectUpload, Fail, Refuse, BeginReserve, Reserve, CommitIntent, PersistSources, MakeDirectory,
         WriteFile, SyncNames, BeginFinish, Finish, ReadSources, StartWorker, WorkerAnswers,
         BeginVerdict, CommitVerdict
    <3>2. HoldsAccess(o) \/ MayStage
      BY <1>0, <1>1, StagingEdges DEF Staging, HoldsAccess
    <3> QED
      BY <3>1, <3>2 DEF RightsHeld, MayStage, NotRevoked
  <2> QED
    BY <2>1, <2>2, <2>3 DEF RightsChange
<1>2. ASSUME NEW r \in Requests, SendReview(r) \/ BeginReview(r) \/ SaveReview(r)
      PROVE  NotRevoked'
  <2>1. capability' = capability
    BY <1>2 DEF SendReview, BeginReview, SaveReview
  <2>2. HoldsAccess(o) \/ MayStage
    BY <1>0, <1>2 DEF SendReview, BeginReview, SaveReview, End, Goes, HoldsAccess,
       WellFormed, TypeOK, StagingTypeOK
  <2> QED
    BY <2>1, <2>2 DEF RightsHeld, MayStage, NotRevoked
<1>3. CASE DirectoryChanges \/ UNCHANGED vars
  BY <1>3 DEF DirectoryChanges, vars, stagingVars, RightsHeld, HoldsAccess, NotRevoked
<1> QED
  BY <1>1, <1>2, <1>3 DEF Next

\* What a batch or its drafts gain is committed while nobody has revoked the rights.
LEMMA CommitsHoldRights ==
  ASSUME WellFormed, RightsHeld, [Next]_vars, batches' # batches \/ revisions' # revisions
  PROVE  NotRevoked
<1>1. \E r \in Requests : CommitIntent(r) \/ Finish(r) \/ CommitVerdict(r) \/ SaveReview(r)
  BY PersistWrites
     DEF Next, vars, stagingVars, reviewVars, Staging, StagingNext, Serve, PowerFails, Crash, ReceiveUpload,
     SendProbe, RejectUpload, Fail, Refuse, BeginReserve, Reserve, BeginFinish, ReadSources, StartWorker,
     WorkerAnswers, BeginVerdict, RightsChange, Provision, RevokeAccess, AccessLapses, RegainAccess, SendReview, BeginReview, DirectoryChanges
<1> QED
  BY <1>1 DEF CommitIntent, Finish, CommitVerdict, SaveReview, Goes, RightsHeld, HoldsAccess

\* RightsHeldAtCommit: the SHARE locks of an open transaction keep the rows that it
\* has found, whatever provisioning, revocations and crashes race it.
THEOREM RightsStand == Spec => RightsHeldAtCommit
<1>1. Init => WellFormed /\ RightsHeld
  BY InitWellFormed DEF Init, StagingInit, RightsHeld, HoldsAccess
<1>2. WellFormed /\ RightsHeld /\ [Next]_vars => (WellFormed /\ RightsHeld)'
  BY NextWellFormed, NextRights
<1>3. WellFormed /\ RightsHeld /\ [Next]_vars
        => [batches' # batches \/ revisions' # revisions => NotRevoked]_vars
  BY CommitsHoldRights
<1> QED
  BY <1>1, <1>2, <1>3, PTL DEF Spec, RightsHeldAtCommit

-----------------------------------------------------------------------------
(* Drafts *)

Undisturbed == ReviewsExclude /\ ViewCurrent /\ NoDraftLost

LEMMA StagingKeepsReviews ==
  ASSUME WellFormed, Staging, NEW o \in Requests, pc'[o] = "reviewing"
  PROVE  pc[o] = "reviewing" /\ job'[o] = job[o] /\ draft'[o] = draft[o]
BY StagingEdges DEF Staging

\* What a revision more leaves of the ones before it.
LEMMA AppendGrows ==
  ASSUME NEW S, NEW s \in Seq(S), NEW e
  PROVE  /\ Len(s) \in Nat
         /\ Len(Append(s, e)) = Len(s) + 1
         /\ \A k \in 1 .. Len(s) : Append(s, e)[k] = s[k]
         /\ Append(s, e)[Len(s) + 1] = e
         /\ Len(s) = 0 <=> s = <<>>
<1>1. Len(s) \in Nat
  BY LenProperties
<1>2. Len(Append(s, e)) = Len(s) + 1
  OBVIOUS
<1>3. \A k \in 1 .. Len(s) : Append(s, e)[k] = s[k]
  OBVIOUS
<1>4. Append(s, e)[Len(s) + 1] = e
  OBVIOUS
<1>5. Len(s) = 0 => s = <<>>
  OBVIOUS
<1>6. s = <<>> => Len(s) = 0
  OBVIOUS
<1> QED
  BY <1>1, <1>2, <1>3, <1>4, <1>5, <1>6

LEMMA NextUndisturbed ==
  ASSUME WellFormed, Undisturbed, [Next]_vars
  PROVE  Undisturbed'
<1>0. TypeOK /\ StagingTypeOK
  BY DEF WellFormed, TypeOK
<1>1. CASE Staging
  <2>1. ReviewsExclude'
    BY <1>1, StagingKeepsReviews DEF Undisturbed, ReviewsExclude
  <2>2. UNCHANGED <<eligible, revisions>>
    BY <1>1 DEF Staging
  <2>3. ViewCurrent'
    BY <1>1, <2>2, StagingKeepsReviews DEF Undisturbed, ViewCurrent, View, Current
  <2>4. NoDraftLost'
    BY <2>2 DEF Undisturbed, NoDraftLost
  <2> QED
    BY <2>1, <2>3, <2>4 DEF Undisturbed
<1>2. ASSUME NEW r \in Requests, SendReview(r)
      PROVE  Undisturbed'
  <2>1. /\ UNCHANGED <<eligible, revisions>>
        /\ \A o \in Requests : pc'[o] = "reviewing"
             => pc[o] = "reviewing" /\ job'[o] = job[o] /\ draft'[o] = draft[o]
    BY <1>0, <1>2 DEF SendReview, Goes, TypeOK, StagingTypeOK
  <2> QED
    BY <2>1 DEF Undisturbed, ReviewsExclude, ViewCurrent, View, Current, NoDraftLost
<1>3. ASSUME NEW r \in Requests, BeginReview(r)
      PROVE  Undisturbed'
  <2> DEFINE view == View(job[r].batch)
  <2>1. UNCHANGED <<eligible, revisions, job>> /\ pc[r] = "drafting" /\ pc' = [pc EXCEPT ![r] = "reviewing"]
    BY <1>3 DEF BeginReview, Goes
  <2>2. /\ \A o \in Requests \ {r} : draft'[o] = draft[o] /\ pc'[o] = pc[o]
        /\ draft'[r] = [draft[r] EXCEPT !.view = view]
    BY <1>0, <1>3, <2>1 DEF BeginReview, TypeOK, StagingTypeOK
  <2>3. draft[r] \in Draft
    BY <2>1 DEF WellFormed, JobsFit, Works, Drafting
  <2>4. draft'[r].view = view
    BY <2>2, <2>3 DEF Draft
  <2>5. view' = view
    BY <2>1 DEF View, Current
  <2>6. \A o \in Requests \ {r} : pc[o] = "reviewing" => job[o].batch # job[r].batch
    BY <1>3 DEF BeginReview, HoldsBatch
  <2>7. ReviewsExclude'
    BY <1>0, <2>1, <2>2, <2>6 DEF Undisturbed, ReviewsExclude
  <2>8. ASSUME NEW o \in Requests, pc'[o] = "reviewing"
        PROVE  draft'[o].view = View(job[o].batch)'
    <3>1. CASE o = r
      BY <3>1, <2>4, <2>5
    <3>2. CASE o # r
      <4>1. draft[o].view = View(job[o].batch)
        BY <2>2, <2>8, <3>2 DEF Undisturbed, ViewCurrent
      <4> QED
        BY <2>1, <2>2, <3>2, <4>1 DEF View, Current
    <3> QED
      BY <3>1, <3>2
  <2>9. ViewCurrent'
    BY <2>8 DEF ViewCurrent
  <2>10. NoDraftLost'
    BY <2>1 DEF Undisturbed, NoDraftLost
  <2> QED
    BY <2>7, <2>9, <2>10 DEF Undisturbed
<1>4. ASSUME NEW r \in Requests, SaveReview(r)
      PROVE  Undisturbed'
  <2> DEFINE d == draft[r]
             b == d.command.batch
             rev == [seen |-> d.command.seen, edits |-> d.command.edits,
                     mapping |-> Edited(d.view.mapping, d.command.edits)]
  <2>1. /\ pc[r] = "reviewing" /\ pc' = [pc EXCEPT ![r] = "idle"] /\ job' = [job EXCEPT ![r] = Null]
        /\ draft' = [draft EXCEPT ![r] = Null] /\ eligible' = eligible
    BY <1>4 DEF SaveReview, End
  <2>2. b \in Batches /\ b = job[r].batch /\ d.view = View(b)
    BY <2>1 DEF WellFormed, JobsFit, Works, Drafting, OnBatch, Undisturbed, ViewCurrent
  <2>3. \A o \in Requests : pc'[o] = "reviewing"
          => o # r /\ pc[o] = "reviewing" /\ job'[o] = job[o] /\ draft'[o] = draft[o] /\ job[o].batch # b
    BY <1>0, <2>1, <2>2 DEF TypeOK, StagingTypeOK, Undisturbed, ReviewsExclude
  <2>4. ReviewsExclude'
    BY <2>3 DEF Undisturbed, ReviewsExclude
  <2>5. CASE revisions' = revisions
    <3>1. ASSUME NEW o \in Requests, pc'[o] = "reviewing"
          PROVE  draft'[o].view = View(job[o].batch)'
      <4>1. /\ draft'[o] = draft[o] /\ job'[o] = job[o]
            /\ draft[o].view = View(job[o].batch)
        BY <2>3, <3>1 DEF Undisturbed, ViewCurrent
      <4> QED
        BY <2>1, <2>5, <4>1 DEF View, Current
    <3>2. ViewCurrent'
      BY <3>1 DEF ViewCurrent
    <3>3. NoDraftLost'
      BY <2>5 DEF Undisturbed, NoDraftLost
    <3> QED
      BY <2>4, <3>2, <3>3 DEF Undisturbed
  <2>6. CASE revisions' # revisions
    <3>1. revisions' = [revisions EXCEPT ![b] = Append(@, rev)] /\ d.command.seen = d.view.version
      BY <1>4, <2>6 DEF SaveReview, Acceptable
    <3>2. /\ rev.seen = Len(revisions[b]) /\ rev.edits = d.command.edits
          /\ rev.mapping = Edited(Current(b), rev.edits)
      BY <2>2, <3>1 DEF View
    <3> HIDE DEF rev
    <3>3. revisions[b] \in Seq(Revision) /\ \A c \in Batches : c # b => revisions'[c] = revisions[c]
      BY <1>0, <2>2, <3>1 DEF TypeOK
    <3>4. revisions'[b] = Append(revisions[b], rev)
      BY <1>0, <2>2, <3>1 DEF TypeOK
    <3>5. /\ Len(revisions[b]) \in Nat /\ Len(revisions'[b]) = Len(revisions[b]) + 1
          /\ \A k \in 1 .. Len(revisions[b]) : revisions'[b][k] = revisions[b][k]
          /\ revisions'[b][Len(revisions[b]) + 1] = rev
          /\ Len(revisions[b]) = 0 <=> revisions[b] = <<>>
      BY <3>3, <3>4, AppendGrows
    <3>6. ViewCurrent'
      <4> SUFFICES ASSUME NEW o \in Requests, pc'[o] = "reviewing"
                   PROVE  draft'[o].view = View(job[o].batch)'
        BY DEF ViewCurrent
      <4>1. /\ pc[o] = "reviewing" /\ job'[o] = job[o] /\ draft'[o] = draft[o] /\ job[o].batch # b
            /\ job[o].batch \in Batches
        BY <2>3 DEF WellFormed, JobsFit, Works, OnBatch
      <4>2. draft[o].view = View(job[o].batch)
        BY <4>1 DEF Undisturbed, ViewCurrent
      <4>3. revisions'[job[o].batch] = revisions[job[o].batch]
        BY <3>3, <4>1
      <4> QED
        BY <2>1, <4>1, <4>2, <4>3 DEF View, Current
    <3>7. ASSUME NEW c \in Batches, NEW n \in 1 .. Len(revisions'[c])
          PROVE  LET before == IF n = 1 THEN Blank ELSE revisions'[c][n - 1].mapping
                 IN  /\ revisions'[c][n].seen = n - 1
                     /\ revisions'[c][n].mapping = Edited(before, revisions'[c][n].edits)
      <4>1. CASE c # b
        BY <3>3, <3>7, <4>1 DEF Undisturbed, NoDraftLost
      <4>2. CASE c = b /\ n # Len(revisions[b]) + 1
        <5>1. /\ n \in 1 .. Len(revisions[b]) /\ revisions'[b][n] = revisions[b][n]
              /\ n # 1 => revisions'[b][n - 1] = revisions[b][n - 1]
          <6>1. n \in 1 .. Len(revisions[b]) /\ (n # 1 => n - 1 \in 1 .. Len(revisions[b]))
            BY <3>7, <3>5, <4>2
          <6> QED
            BY <3>5, <6>1
        <5>2. LET before == IF n = 1 THEN Blank ELSE revisions[b][n - 1].mapping
              IN  /\ revisions[b][n].seen = n - 1
                  /\ revisions[b][n].mapping = Edited(before, revisions[b][n].edits)
          BY <2>2, <5>1 DEF Undisturbed, NoDraftLost
        <5>3. CASE n = 1
          BY <4>2, <5>1, <5>2, <5>3
        <5>4. CASE n # 1
          BY <4>2, <5>1, <5>2, <5>4
        <5> QED
          BY <5>3, <5>4
      <4>3. CASE c = b /\ n = Len(revisions[b]) + 1
        <5>1. revisions'[b][n] = rev /\ n - 1 = Len(revisions[b])
          BY <3>5, <4>3
        <5>2. n # 1 => revisions'[b][n - 1] = revisions[b][Len(revisions[b])] /\ revisions[b] # <<>>
          <6>1. n # 1 => Len(revisions[b]) # 0
            BY <4>3
          <6>2. n # 1 => n - 1 \in 1 .. Len(revisions[b])
            BY <3>5, <4>3, <6>1
          <6> QED
            BY <3>5, <5>1, <6>1, <6>2
        <5>3. n = 1 => revisions[b] = <<>>
          BY <3>5, <4>3
        <5>4. Current(b) = IF n = 1 THEN Blank ELSE revisions'[b][n - 1].mapping
          BY <5>2, <5>3 DEF Current
        <5> QED
          BY <3>2, <4>3, <5>1, <5>4
      <4> QED
        BY <4>1, <4>2, <4>3
    <3>8. NoDraftLost'
      BY <3>7 DEF NoDraftLost
    <3> QED
      BY <2>4, <3>6, <3>8 DEF Undisturbed
  <2> QED
    BY <2>5, <2>6
<1>5. CASE DirectoryChanges
  BY <1>5 DEF DirectoryChanges, stagingVars, HoldsDirectory, Undisturbed, ReviewsExclude, ViewCurrent, NoDraftLost
<1>6. CASE UNCHANGED vars
  BY <1>6 DEF vars, stagingVars, reviewVars, Undisturbed, ReviewsExclude, ViewCurrent, NoDraftLost, View, Current
<1> QED
  BY <1>1, <1>2, <1>3, <1>4, <1>5, <1>6 DEF Next

LEMMA UndisturbedAlways == Spec => [](WellFormed /\ Undisturbed)
<1>1. Init => WellFormed /\ Undisturbed
  <2>1. Init => Undisturbed
    BY DEF Init, StagingInit, Undisturbed, ReviewsExclude, ViewCurrent, NoDraftLost
  <2> QED
    BY <2>1, InitWellFormed
<1>2. WellFormed /\ Undisturbed /\ [Next]_vars => (WellFormed /\ Undisturbed)'
  BY NextWellFormed, NextUndisturbed
<1> QED
  BY <1>1, <1>2, PTL DEF Spec

\* NoDraftLost: each revision is the one before it with the edits of a client who
\* had read that one, whatever requests, keys and processes race.
THEOREM DraftsKeepTheirEdits == Spec => []NoDraftLost
BY UndisturbedAlways, PTL DEF Undisturbed

\* DraftsFitDirectory: the SHARE lock on the directory keeps the outlets a draft
\* was checked against until it is committed.
THEOREM DraftsStayInNetwork == Spec => DraftsFitDirectory
<1>1. WellFormed /\ Undisturbed /\ [Next]_vars
        => [\A b \in Batches : Len(revisions'[b]) > Len(revisions[b]) =>
              LET mapping == revisions'[b][Len(revisions'[b])].mapping
              IN  /\ \A x \in Rows : mapping[x] # Null => mapping[x] \in eligible'
                  /\ \A x, y \in Rows :
                       x # y /\ KindOf[x] = KindOf[y] /\ mapping[x] # Null
                         => mapping[x] # mapping[y]]_vars
  <2> SUFFICES ASSUME WellFormed, Undisturbed, Next, NEW b \in Batches,
                      Len(revisions'[b]) > Len(revisions[b])
               PROVE  LET mapping == revisions'[b][Len(revisions'[b])].mapping
                      IN  /\ \A x \in Rows : mapping[x] # Null => mapping[x] \in eligible'
                          /\ \A x, y \in Rows :
                               x # y /\ KindOf[x] = KindOf[y] /\ mapping[x] # Null
                                 => mapping[x] # mapping[y]
    OBVIOUS
  <2>1. PICK r \in Requests : SaveReview(r) /\ revisions' # revisions
    <3>1. revisions' # revisions
      BY DEF WellFormed, TypeOK
    <3> QED
      BY <3>1 DEF Next, Staging, SendReview, BeginReview, DirectoryChanges
  <2> DEFINE d == draft[r]
             mapping == Edited(d.view.mapping, d.command.edits)
             rev == [seen |-> d.command.seen, edits |-> d.command.edits, mapping |-> mapping]
  <2>2. /\ pc[r] = "reviewing" /\ eligible' = eligible /\ Usable(d, mapping)
        /\ revisions' = [revisions EXCEPT ![d.command.batch] = Append(@, rev)]
    BY <2>1 DEF SaveReview, Acceptable
  <2>3. d.view = View(job[r].batch)
    BY <2>2 DEF Undisturbed, ViewCurrent
  <2>4. d.view.eligible = eligible
    BY <2>3 DEF View
  <2>5. rev.mapping = mapping
    OBVIOUS
  <2>6. Usable(d, rev.mapping)
    BY <2>2, <2>5
  <2> HIDE DEF mapping, rev
  <2>7. revisions \in [Batches -> Seq(Revision)]
    BY DEF WellFormed, TypeOK
  <2>8. d.command.batch = b /\ revisions'[b] = Append(revisions[b], rev)
    BY <2>2, <2>7
  <2>9. revisions'[b][Len(revisions'[b])] = rev
    BY <2>7, <2>8
  <2> QED
    BY <2>2, <2>4, <2>6, <2>9 DEF Usable
<1> QED
  BY <1>1, UndisturbedAlways, PTL DEF Spec, DraftsFitDirectory

-----------------------------------------------------------------------------
(* Rows, audit and disk *)

Reserved(k) == [packet |-> k, status |-> "QUARANTINE", storage |-> "WRITING", version |-> 1]

Advanced(row, status) ==
  [packet |-> row.packet, status |-> status, storage |-> "READY", version |-> row.version + 1]

EntryOf(action, version) == [action |-> action, version |-> version]

\* The ways the row of a batch changes, with its audit.
Inserted(b) ==
  \E r \in Requests :
    /\ CommitIntent(r) /\ job[r].batch = b /\ batches[b] = Null
    /\ batches'[b] = Reserved(job[r].packet)
    /\ audit'[b] = audit[b] \cup {EntryOf("REPORT_UPLOAD_RESERVED", 1)}

Told(b, status, action) ==
  /\ batches[b] # Null /\ batches[b].status = "QUARANTINE"
  /\ batches'[b] = Advanced(batches[b], status)
  /\ audit'[b] = audit[b] \cup {EntryOf(action, batches[b].version + 1)}

Quarantined(b) ==
  /\ batches[b].storage = "WRITING"
  /\ \E r \in Requests : pc[r] = "finishing" /\ job[r].batch = b
  /\ Told(b, "QUARANTINE", "REPORT_QUARANTINED")

Probed(b) == \E status \in {"NEEDS_MAPPING", "REJECTED"} : Told(b, status, "REPORT_PROBED")

LEMMA NextRow ==
  ASSUME WellFormed, [Next]_vars, NEW b \in Batches
  PROVE  \/ batches'[b] = batches[b] /\ audit'[b] = audit[b]
         \/ Inserted(b) \/ Quarantined(b) \/ Probed(b)
<1>0. batches \in [Batches -> Batch \cup {Null}] /\ audit \in [Batches -> SUBSET Entry]
  BY DEF WellFormed, TypeOK, StagingTypeOK
<1>1. ASSUME NEW r \in Requests, CommitIntent(r), job[r].batch = b
      PROVE  Inserted(b)
  <2>1. batches[b] = Null
    BY <1>1 DEF CommitIntent, Goes, WellFormed, JobsFit, Works
  <2> QED
    BY <1>0, <1>1, <2>1 DEF CommitIntent, Inserted, Reserved, EntryOf
<1>2. ASSUME NEW r \in Requests, Finish(r), job[r].batch = b, ~UNCHANGED <<batches, audit>>
      PROVE  Quarantined(b)
  <2>1. /\ pc[r] = "finishing" /\ batches[b] # Null
        /\ batches[b].status = "QUARANTINE" /\ batches[b].storage # "READY"
        /\ Advance(b, "QUARANTINE", "REPORT_QUARANTINED")
    BY <1>2 DEF Finish, WellFormed, JobsFit, Works, OnBatch, OnRow
  <2>2. batches[b].storage = "WRITING"
    BY <1>0, <2>1 DEF Batch
  <2>3. batches'[b] = Advanced(batches[b], "QUARANTINE")
    BY <1>0, <2>1, AdvanceFits DEF Advanced
  <2> QED
    BY <1>0, <1>2, <2>1, <2>2, <2>3 DEF Quarantined, Told, Advance, EntryOf
<1>3. ASSUME NEW r \in Requests, CommitVerdict(r), job[r].batch = b, ~UNCHANGED <<batches, audit>>
      PROVE  Probed(b)
  <2> DEFINE status == Verdict(job[r].ok)
  <2>1. /\ batches[b] # Null /\ batches[b].status = "QUARANTINE"
        /\ Advance(b, status, "REPORT_PROBED")
    BY <1>3 DEF CommitVerdict, WellFormed, JobsFit, Works, OnBatch, OnRow
  <2>2. status \in {"NEEDS_MAPPING", "REJECTED"}
    BY DEF Verdict
  <2> HIDE DEF status
  <2>3. batches'[b] = Advanced(batches[b], status)
    BY <1>0, <2>1, <2>2, AdvanceFits DEF Advanced
  <2> QED
    BY <1>0, <2>1, <2>2, <2>3 DEF Probed, Told, Advance, EntryOf
<1>4. ASSUME NEW r \in Requests, CommitIntent(r) \/ Finish(r) \/ CommitVerdict(r), job[r].batch # b
      PROVE  batches'[b] = batches[b] /\ audit'[b] = audit[b]
  BY <1>0, <1>4 DEF CommitIntent, Finish, CommitVerdict, Advance
<1>5. \/ UNCHANGED <<batches, audit>>
      \/ \E r \in Requests : CommitIntent(r) \/ Finish(r) \/ CommitVerdict(r)
  BY PersistWrites
     DEF Next, vars, stagingVars, reviewVars, Staging, StagingNext, Serve, PowerFails, Crash, ReceiveUpload,
     SendProbe, RejectUpload, Fail, Refuse, BeginReserve, Reserve, BeginFinish, ReadSources, StartWorker,
     WorkerAnswers, BeginVerdict, RightsChange, Provision, RevokeAccess, AccessLapses, RegainAccess, SendReview, BeginReview, SaveReview, DirectoryChanges
<1> QED
  BY <1>1, <1>2, <1>3, <1>4, <1>5

\* A row that is there stays, with its packet.
LEMMA RowKept ==
  ASSUME WellFormed, [Next]_vars, NEW b \in Batches, batches[b] # Null
  PROVE  batches'[b] # Null /\ batches'[b].packet = batches[b].packet
<1>1. WellFormed'
  BY NextWellFormed
<1>2. \A status : Advanced(batches[b], status).packet = batches[b].packet
  BY DEF Advanced
<1>3. batches'[b].packet = batches[b].packet
  BY <1>2, NextRow DEF Inserted, Quarantined, Probed, Told
<1>4. CASE batches'[b] = batches[b]
  BY <1>4
<1>5. CASE Quarantined(b) \/ Probed(b)
  <2>1. PICK status \in {"QUARANTINE", "NEEDS_MAPPING", "REJECTED"} : batches'[b] = Advanced(batches[b], status)
    BY <1>5 DEF Quarantined, Probed, Told
  <2>2. batches[b] \in Batch /\ batches[b].version \in 1 .. 2
    BY <1>5 DEF Quarantined, Probed, Told, WellFormed, TypeOK, StagingTypeOK, VersionsFit, Batch
  <2>3. Advanced(batches[b], status) \in Batch
    BY <2>2 DEF Advanced, Batch
  <2> QED
    BY <1>3, <2>1, <2>3, StagingAssumption
<1> QED
  BY <1>3, <1>4, <1>5, NextRow DEF Inserted

\* The audit of a batch, as its row tells it.
Story(row) ==
  {EntryOf("REPORT_UPLOAD_RESERVED", 1)}
    \cup (IF row.version > (IF row.status = "QUARANTINE" THEN 1 ELSE 2)
            THEN {EntryOf("REPORT_QUARANTINED", 2)} ELSE {})
    \cup (IF row.status # "QUARANTINE" THEN {EntryOf("REPORT_PROBED", row.version)} ELSE {})

AuditShape ==
  \A b \in Batches :
    IF batches[b] = Null
      THEN audit[b] = {}
      ELSE /\ audit[b] = Story(batches[b])
           /\ batches[b].status # "QUARANTINE" => batches[b].version \in 2 .. 3

LEMMA NextAuditShape ==
  ASSUME WellFormed, AuditShape, [Next]_vars
  PROVE  AuditShape'
<1> SUFFICES ASSUME NEW b \in Batches
             PROVE  IF batches'[b] = Null
                      THEN audit'[b] = {}
                      ELSE /\ audit'[b] = Story(batches'[b])
                           /\ batches'[b].status # "QUARANTINE" => batches'[b].version \in 2 .. 3
  BY DEF AuditShape, Story
<1>1. CASE batches'[b] = batches[b] /\ audit'[b] = audit[b]
  BY <1>1 DEF AuditShape
<1>2. CASE Inserted(b)
  <2>1. audit'[b] = {EntryOf("REPORT_UPLOAD_RESERVED", 1)}
    BY <1>2 DEF Inserted, AuditShape
  <2>2. \A k : Reserved(k).status = "QUARANTINE" /\ Reserved(k).version = 1
    BY DEF Reserved
  <2>3. batches'[b].status = "QUARANTINE" /\ batches'[b].version = 1
    BY <1>2, <2>2 DEF Inserted
  <2>4. Story(batches'[b]) = {EntryOf("REPORT_UPLOAD_RESERVED", 1)}
    BY <2>3 DEF Story
  <2>5. batches'[b] # Null
    <3>1. PICK k \in Packets : batches'[b] = Reserved(k)
      BY <1>2 DEF Inserted, CommitIntent, Goes, WellFormed, JobsFit, Works
    <3>2. Reserved(k) \in Batch
      BY DEF Reserved, Batch
    <3> QED
      BY <3>1, <3>2, StagingAssumption
  <2> QED
    BY <2>1, <2>3, <2>4, <2>5
<1>3. CASE Quarantined(b) \/ Probed(b)
  <2> DEFINE v == batches[b].version
  <2>0. /\ batches[b] # Null /\ batches[b].status = "QUARANTINE"
        /\ audit[b] = Story(batches[b])
        /\ v = IF batches[b].storage = "READY" THEN 2 ELSE 1
    BY <1>3 DEF Quarantined, Probed, Told, AuditShape, WellFormed, VersionsFit
  <2>1. batches'[b] # Null
    BY <2>0, RowKept
  <2>2. \A status : Advanced(batches[b], status).status = status /\ Advanced(batches[b], status).version = v + 1
    BY DEF Advanced
  <2>3. CASE Quarantined(b)
    <3>1. v = 1 /\ batches'[b].status = "QUARANTINE" /\ batches'[b].version = 2
          /\ audit'[b] = audit[b] \cup {EntryOf("REPORT_QUARANTINED", 2)}
      BY <2>0, <2>2, <2>3 DEF Quarantined, Told
    <3> QED
      BY <2>0, <2>1, <3>1 DEF Story
  <2>4. CASE Probed(b)
    <3>1. /\ v \in 1 .. 2 /\ batches'[b].status # "QUARANTINE" /\ batches'[b].version = v + 1
          /\ audit'[b] = audit[b] \cup {EntryOf("REPORT_PROBED", v + 1)}
      BY <2>0, <2>2, <2>4 DEF Probed, Told
    <3> QED
      BY <2>0, <2>1, <3>1 DEF Story
  <2> QED
    BY <1>3, <2>3, <2>4
<1> QED
  BY <1>1, <1>2, <1>3, NextRow

LEMMA ShapeTells ==
  ASSUME WellFormed, AuditShape
  PROVE  AuditTellsBatch
<1> SUFFICES ASSUME NEW b \in Batches, batches[b] # Null
             PROVE  /\ {a.version : a \in audit[b]} = 1 .. batches[b].version
                    /\ Cardinality(audit[b]) = batches[b].version
                    /\ Cardinality({a.action : a \in audit[b]}) = batches[b].version
                    /\ \A a \in audit[b] :
                         (a.action = "REPORT_PROBED") <=>
                           (a.version = batches[b].version /\ batches[b].status # "QUARANTINE")
  BY DEF AuditTellsBatch, AuditShape
<1> DEFINE first == EntryOf("REPORT_UPLOAD_RESERVED", 1)
           second == EntryOf("REPORT_QUARANTINED", 2)
           last(v) == EntryOf("REPORT_PROBED", v)
<1>1. /\ first.action = "REPORT_UPLOAD_RESERVED" /\ first.version = 1
      /\ second.action = "REPORT_QUARANTINED" /\ second.version = 2
      /\ \A v : last(v).action = "REPORT_PROBED" /\ last(v).version = v
  BY DEF EntryOf
<1> HIDE DEF first, second, last
<1>11. first # second /\ \A v : first # last(v) /\ second # last(v)
  BY <1>1
<1>2. /\ audit[b] = Story(batches[b])
      /\ batches[b].status # "QUARANTINE" => batches[b].version \in 2 .. 3
      /\ batches[b].status = "QUARANTINE" => batches[b].version \in 1 .. 2
  BY DEF AuditShape, WellFormed, VersionsFit
<1>3. \A x : Cardinality({x}) = 1 /\ IsFiniteSet({x})
  BY FS_Singleton
<1>4. \A x, y : x # y => Cardinality({x, y}) = 2 /\ IsFiniteSet({x, y})
  <2> TAKE x, y
  <2>1. {x} \cup {y} = {x, y}
    OBVIOUS
  <2>2. IsFiniteSet({x}) /\ Cardinality({x}) = 1
    BY <1>3
  <2>3. /\ IsFiniteSet({x} \cup {y})
        /\ Cardinality({x} \cup {y}) = IF y \in {x} THEN Cardinality({x}) ELSE Cardinality({x}) + 1
    BY <2>2, FS_AddElement
  <2> QED
    BY <2>1, <2>2, <2>3
<1>5. \A x, y, z : x # y /\ y # z /\ x # z => Cardinality({x, y, z}) = 3
  <2> TAKE x, y, z
  <2> SUFFICES ASSUME x # y, y # z, x # z PROVE Cardinality({x, y, z}) = 3
    OBVIOUS
  <2>1. {x, y} \cup {z} = {x, y, z}
    OBVIOUS
  <2>2. IsFiniteSet({x, y}) /\ Cardinality({x, y}) = 2
    BY <1>4
  <2>3. Cardinality({x, y} \cup {z}) = IF z \in {x, y} THEN Cardinality({x, y}) ELSE Cardinality({x, y}) + 1
    BY <2>2, FS_AddElement
  <2> QED
    BY <2>1, <2>2, <2>3
<1>6. CASE batches[b].status = "QUARANTINE" /\ batches[b].version = 1
  <2>1. audit[b] = {first}
    BY <1>2, <1>6 DEF Story, first
  <2>2. {a.version : a \in audit[b]} = {1} /\ {a.action : a \in audit[b]} = {"REPORT_UPLOAD_RESERVED"}
    BY <1>1, <2>1
  <2>3. Cardinality(audit[b]) = 1
    <3>1. Cardinality({first}) = 1
      BY <1>11, <1>3, Zenon
    <3> QED
      BY <2>1, <3>1
  <2>4. Cardinality({a.action : a \in audit[b]}) = 1
    <3>1. Cardinality({"REPORT_UPLOAD_RESERVED"}) = 1
      BY <1>3, Zenon
    <3> QED
      BY <2>2, <3>1
  <2>5. \A a \in audit[b] :
          (a.action = "REPORT_PROBED") <=>
            (a.version = batches[b].version /\ batches[b].status # "QUARANTINE")
    BY <1>1, <1>6, <2>1
  <2>6. {a.version : a \in audit[b]} = 1 .. 1
    BY <2>2
  <2> QED
    BY <1>6, <2>3, <2>4, <2>5, <2>6
<1>7. CASE batches[b].status = "QUARANTINE" /\ batches[b].version = 2
  <2>1. audit[b] = {first, second}
    BY <1>2, <1>7 DEF Story, first, second
  <2>2. /\ {a.version : a \in audit[b]} = {1, 2}
        /\ {a.action : a \in audit[b]} = {"REPORT_UPLOAD_RESERVED", "REPORT_QUARANTINED"}
    BY <1>1, <2>1
  <2>3. Cardinality(audit[b]) = 2
    <3>1. Cardinality({first, second}) = 2
      BY <1>11, <1>4, Zenon
    <3> QED
      BY <2>1, <3>1
  <2>4. Cardinality({a.action : a \in audit[b]}) = 2
    <3>1. Cardinality({"REPORT_UPLOAD_RESERVED", "REPORT_QUARANTINED"}) = 2
      BY <1>4, Zenon
    <3> QED
      BY <2>2, <3>1
  <2>5. \A a \in audit[b] :
          (a.action = "REPORT_PROBED") <=>
            (a.version = batches[b].version /\ batches[b].status # "QUARANTINE")
    BY <1>1, <1>7, <2>1
  <2>6. {a.version : a \in audit[b]} = 1 .. 2
    BY <2>2
  <2> QED
    BY <1>7, <2>3, <2>4, <2>5, <2>6
<1>8. CASE batches[b].status # "QUARANTINE" /\ batches[b].version = 2
  <2>1. audit[b] = {first, last(2)}
    BY <1>2, <1>8 DEF Story, first, last
  <2>2. /\ {a.version : a \in audit[b]} = {1, 2}
        /\ {a.action : a \in audit[b]} = {"REPORT_UPLOAD_RESERVED", "REPORT_PROBED"}
    BY <1>1, <2>1
  <2>3. Cardinality(audit[b]) = 2
    <3>1. Cardinality({first, last(2)}) = 2
      BY <1>11, <1>4, Zenon
    <3> QED
      BY <2>1, <3>1
  <2>4. Cardinality({a.action : a \in audit[b]}) = 2
    <3>1. Cardinality({"REPORT_UPLOAD_RESERVED", "REPORT_PROBED"}) = 2
      BY <1>4, Zenon
    <3> QED
      BY <2>2, <3>1
  <2>5. \A a \in audit[b] :
          (a.action = "REPORT_PROBED") <=>
            (a.version = batches[b].version /\ batches[b].status # "QUARANTINE")
    BY <1>1, <1>8, <2>1
  <2>6. {a.version : a \in audit[b]} = 1 .. 2
    BY <2>2
  <2> QED
    BY <1>8, <2>3, <2>4, <2>5, <2>6
<1>9. CASE batches[b].status # "QUARANTINE" /\ batches[b].version = 3
  <2>1. audit[b] = {first, second, last(3)}
    BY <1>2, <1>9 DEF Story, first, second, last
  <2>2. /\ {a.version : a \in audit[b]} = {1, 2, 3}
        /\ {a.action : a \in audit[b]} = {"REPORT_UPLOAD_RESERVED", "REPORT_QUARANTINED", "REPORT_PROBED"}
    BY <1>1, <2>1
  <2>3. Cardinality(audit[b]) = 3
    <3>1. Cardinality({first, second, last(3)}) = 3
      BY <1>11, <1>5, Zenon
    <3> QED
      BY <2>1, <3>1
  <2>4. Cardinality({a.action : a \in audit[b]}) = 3
    <3>1. Cardinality({"REPORT_UPLOAD_RESERVED", "REPORT_QUARANTINED", "REPORT_PROBED"}) = 3
      BY <1>5, Zenon
    <3> QED
      BY <2>2, <3>1
  <2>5. \A a \in audit[b] :
          (a.action = "REPORT_PROBED") <=>
            (a.version = batches[b].version /\ batches[b].status # "QUARANTINE")
    BY <1>1, <1>9, <2>1
  <2>6. {a.version : a \in audit[b]} = 1 .. 3
    BY <2>2
  <2> QED
    BY <1>9, <2>3, <2>4, <2>5, <2>6
<1> QED
  BY <1>2, <1>6, <1>7, <1>8, <1>9

LEMMA ShapeAlways == Spec => [](WellFormed /\ AuditShape)
<1>1. Init => WellFormed /\ AuditShape
  BY InitWellFormed DEF Init, StagingInit, AuditShape
<1>2. WellFormed /\ AuditShape /\ [Next]_vars => (WellFormed /\ AuditShape)'
  BY NextWellFormed, NextAuditShape
<1> QED
  BY <1>1, <1>2, PTL DEF Spec

\* AuditTellsBatch: every version of a batch has its one audit row, in the order
\* of the life of a batch, whichever of upload and probe is faster.
THEOREM AuditTells == Spec => []AuditTellsBatch
BY ShapeAlways, ShapeTells, PTL

-----------------------------------------------------------------------------
(* Quota *)

\* An upload that has decided to insert still has the room it has counted.
Room ==
  /\ IsFiniteSet(Stored) /\ IsFiniteSet(FilesStored)
  /\ QuotaHolds
  /\ \A r \in Requests : pc[r] = "reserved" => WithinQuota(job[r].packet)

\* Only a reservation adds to what is stored.
LEMMA StoredKept ==
  ASSUME WellFormed, [Next]_vars, \A r \in Requests : ~CommitIntent(r)
  PROVE  Stored' = Stored /\ FilesStored' = FilesStored
<1>1. \A b \in Batches : batches[b] = Null => batches'[b] = Null
  BY NextRow DEF Inserted, Quarantined, Probed, Told
<1>2. \A b \in Batches : batches[b] # Null => batches'[b] # Null /\ batches'[b].packet = batches[b].packet
  BY RowKept
<1>3. Stored' = Stored
  BY <1>1, <1>2 DEF Stored
<1> QED
  BY <1>2, <1>3 DEF FilesStored, Stored

LEMMA StoredGrows ==
  ASSUME WellFormed, [Next]_vars, NEW r \in Requests, CommitIntent(r)
  PROVE  /\ Stored' = Stored \cup {job[r].batch}
         /\ FilesStored' = FilesStored \cup ({job[r].batch} \X job[r].packet)
<1> DEFINE b == job[r].batch
           k == job[r].packet
<1>0. b \in Batches /\ batches[b] = Null /\ k \in Packets
  BY DEF CommitIntent, Goes, WellFormed, JobsFit, Works, OnBatch
<1>1. batches' = [batches EXCEPT ![b] = Reserved(k)]
  BY DEF CommitIntent, Reserved
<1>2. Reserved(k) # Null /\ Reserved(k).packet = k
  <2>1. Reserved(k) \in Batch
    BY <1>0 DEF Reserved, Batch
  <2> QED
    BY <2>1, StagingAssumption DEF Reserved
<1>3. k \subseteq Originals
  BY <1>0, StagingAssumption
<1> HIDE DEF b, k
<1>4. batches'[b] = Reserved(k) /\ \A c \in Batches : c # b => batches'[c] = batches[c]
  BY <1>0, <1>1 DEF WellFormed, TypeOK, StagingTypeOK
<1>5. Stored' = Stored \cup {b}
  BY <1>0, <1>2, <1>4 DEF Stored
<1>6. ASSUME NEW x PROVE x \in FilesStored' <=> x \in FilesStored \cup ({b} \X k)
  <2>1. CASE x \in Stored \X Originals
    <3>1. x[1] \in Batches /\ x[1] # b
      BY <1>0, <2>1 DEF Stored
    <3> QED
      BY <1>4, <1>5, <2>1, <3>1 DEF FilesStored
  <2>2. CASE x \in {b} \X Originals
    <3>1. x[1] = b /\ b \notin Stored
      BY <1>0, <2>2 DEF Stored
    <3> QED
      BY <1>2, <1>3, <1>4, <1>5, <2>2, <3>1 DEF FilesStored
  <2>3. CASE x \notin Stored \X Originals /\ x \notin {b} \X Originals
    BY <1>3, <1>5, <2>3 DEF FilesStored
  <2> QED
    BY <2>1, <2>2, <2>3
<1> QED
  BY <1>5, <1>6 DEF b, k

\* Who is about to insert has just counted, or waits since.
LEMMA ReservedHow ==
  ASSUME WellFormed, [Next]_vars, NEW o \in Requests, pc'[o] = "reserved"
  PROVE  /\ \/ pc[o] = "reserved" /\ job'[o] = job[o]
            \/ WithinQuota(job'[o].packet)
         /\ \A r \in Requests : ~CommitIntent(r)
<1>0. pc = [x \in Requests |-> pc[x]] /\ job = [x \in Requests |-> job[x]] /\ job \in [Requests -> Job \cup {Null}]
  BY DEF WellFormed, TypeOK, StagingTypeOK
<1>1. CASE Reserve(o) /\ ~End(o)
  <2>1. PICK b \in Batches : job' = [job EXCEPT ![o].batch = b]
    BY <1>1 DEF Reserve
  <2>2. WithinQuota(job[o].packet) /\ pc[o] = "reserving" /\ batches' = batches
    BY <1>1 DEF Reserve
  <2>3. job[o] \in Job
    BY <2>2 DEF WellFormed, JobsFit, Works
  <2>4. job'[o].packet = job[o].packet
    BY <1>0, <2>1, <2>3 DEF Job
  <2>5. \A r \in Requests : ~CommitIntent(r)
    BY <1>1, <2>2 DEF WellFormed, UploadsExclude, HoldsUploads, CommitIntent, Goes
  <2> QED
    BY <2>2, <2>4, <2>5
<1>2. CASE ~(Reserve(o) /\ ~End(o))
  <2>1. pc[o] = "reserved" /\ job'[o] = job[o]
    <3>1. CASE Staging
      <4>1. pc[o] = "reserving" => ~(pc'[o] = "reserved")
        <5>1. CASE RightsChange \/ PowerFails \/ \E p \in Processes : Crash(p)
          BY <5>1 DEF RightsChange, Provision, RevokeAccess, AccessLapses, RegainAccess, PowerFails, Crash
        <5>2. ASSUME NEW r \in Requests, Reserve(r) /\ ~End(r)
              PROVE  pc[o] = "reserving" => ~(pc'[o] = "reserved")
          BY <1>0, <1>2, <5>2 DEF Reserve
        <5>3. ASSUME NEW r \in Requests, End(r)
              PROVE  pc[o] = "reserving" => ~(pc'[o] = "reserved")
          BY <1>0, <5>3 DEF End
        <5>4. ASSUME NEW r \in Requests,
                     ReceiveUpload(r) \/ SendProbe(r) \/ BeginReserve(r) \/ BeginFinish(r) \/ BeginVerdict(r)
                       \/ CommitIntent(r) \/ WorkerAnswers(r)
              PROVE  pc[o] = "reserving" => ~(pc'[o] = "reserved")
          BY <1>0, <5>4 DEF ReceiveUpload, SendProbe, BeginReserve, BeginFinish, BeginVerdict,
             CommitIntent, WorkerAnswers, Goes
        <5>5. ASSUME NEW r \in Requests, (ReadSources(r) \/ StartWorker(r)) /\ ~End(r)
              PROVE  pc[o] = "reserving" => ~(pc'[o] = "reserved")
          BY <1>0, <5>5 DEF ReadSources, StartWorker
        <5>6. ASSUME NEW r \in Requests, PersistSources(r)
              PROVE  pc[o] = "reserving" => ~(pc'[o] = "reserved")
          BY <5>6, PersistWrites
        <5> QED
          BY <3>1, <5>1, <5>2, <5>3, <5>4, <5>5, <5>6
             DEF Staging, StagingNext, Serve, RejectUpload, Fail, Refuse, Finish, CommitVerdict
      <4> QED
        BY <3>1, <4>1, StagingEdges DEF Staging
    <3>2. ASSUME NEW r \in Requests, SendReview(r) \/ BeginReview(r) \/ SaveReview(r)
          PROVE  pc[o] = "reserved" /\ job'[o] = job[o]
      BY <1>0, <3>2 DEF SendReview, BeginReview, SaveReview, End, Goes
    <3>3. CASE DirectoryChanges \/ UNCHANGED vars
      BY <3>3 DEF DirectoryChanges, vars, stagingVars
    <3> QED
      BY <3>1, <3>2, <3>3 DEF Next
  <2>2. ASSUME NEW r \in Requests, CommitIntent(r) PROVE FALSE
    <3>1. pc[r] = "reserved" /\ pc'[r] = "persisting"
      BY <1>0, <2>2 DEF CommitIntent, Goes
    <3> QED
      BY <2>1, <3>1 DEF WellFormed, UploadsExclude, HoldsUploads
  <2> QED
    BY <2>1, <2>2
<1> QED
  BY <1>1, <1>2

LEMMA NextRoom ==
  ASSUME WellFormed, Room, [Next]_vars
  PROVE  Room'
<1>1. CASE \A r \in Requests : ~CommitIntent(r)
  <2>1. Stored' = Stored /\ FilesStored' = FilesStored
    BY <1>1, StoredKept
  <2>2. \A k : WithinQuota(k)' <=> WithinQuota(k)
    BY <2>1 DEF WithinQuota
  <2>3. \A o \in Requests : pc'[o] = "reserved" => WithinQuota(job'[o].packet)
    BY ReservedHow DEF Room
  <2> QED
    BY <2>1, <2>2, <2>3 DEF Room, QuotaHolds, WithinQuota
<1>2. ASSUME NEW r \in Requests, CommitIntent(r) PROVE Room'
  <2> DEFINE b == job[r].batch
             k == job[r].packet
  <2>1. WithinQuota(k) /\ IsFiniteSet(k)
    BY <1>2, StagingAssumption DEF CommitIntent, Goes, Room, WellFormed, JobsFit, Works
  <2>2. IsFiniteSet({b} \X k) /\ Cardinality({b} \X k) = Cardinality(k) /\ Cardinality(k) \in Nat
    <3>1. IsFiniteSet({b}) /\ Cardinality({b}) = 1
      BY FS_Singleton
    <3>2. IsFiniteSet({b} \X k) /\ Cardinality({b} \X k) = Cardinality({b}) * Cardinality(k)
      BY <2>1, <3>1, FS_Product
    <3>3. Cardinality(k) \in Nat
      BY <2>1, FS_CardinalityType
    <3> QED
      BY <3>1, <3>2, <3>3
  <2>3. Stored' = Stored \cup {b} /\ FilesStored' = FilesStored \cup ({b} \X k)
    BY <1>2, StoredGrows
  <2>4. /\ IsFiniteSet(Stored') /\ Cardinality(Stored') <= Cardinality(Stored) + 1
        /\ Cardinality(Stored) \in Nat /\ Cardinality(Stored') \in Nat
    <3> DEFINE old == Stored
    <3>1. IsFiniteSet(old)
      BY DEF Room
    <3> HIDE DEF old
    <3>2. /\ IsFiniteSet(old \cup {b})
          /\ Cardinality(old \cup {b}) = IF b \in old THEN Cardinality(old) ELSE Cardinality(old) + 1
      BY <3>1, FS_AddElement
    <3>3. Cardinality(old) \in Nat
      BY <3>1, FS_CardinalityType
    <3> QED
      BY <2>3, <3>2, <3>3 DEF old
  <2>5. IsFiniteSet(FilesStored') /\ Cardinality(FilesStored') <= Cardinality(FilesStored) + Cardinality(k)
        /\ Cardinality(FilesStored) \in Nat /\ Cardinality(FilesStored') \in Nat
    <3> DEFINE new == {b} \X k
               old == FilesStored
    <3>1. IsFiniteSet(old) /\ IsFiniteSet(new)
      BY <2>2 DEF Room
    <3> HIDE DEF new, old
    <3>2. IsFiniteSet(old \cup new)
          /\ Cardinality(old \cup new) = Cardinality(old) + Cardinality(new) - Cardinality(old \cap new)
      BY <3>1, FS_Union
    <3>3. Cardinality(old \cap new) \in Nat /\ Cardinality(old) \in Nat /\ Cardinality(new) \in Nat
      BY <3>1, FS_Intersection, FS_CardinalityType
    <3>4. Cardinality(old \cup new) <= Cardinality(old) + Cardinality(new)
      BY <3>2, <3>3
    <3>5. Cardinality(old \cup new) \in Nat
      BY <3>2, FS_CardinalityType
    <3> QED
      BY <2>2, <2>3, <3>2, <3>3, <3>4, <3>5 DEF new, old
  <2>6. QuotaHolds'
    BY <2>1, <2>2, <2>4, <2>5, StagingAssumption DEF QuotaHolds, WithinQuota
  <2>7. \A o \in Requests : pc'[o] # "reserved"
    BY <1>2, ReservedHow
  <2> QED
    BY <2>4, <2>5, <2>6, <2>7 DEF Room
<1> QED
  BY <1>1, <1>2

\* QuotaHolds: the lock of the actor keeps what an upload has counted until it has
\* inserted, however many uploads race.
THEOREM QuotaKept == Spec => []QuotaHolds
<1>1. Init => WellFormed /\ Room
  <2> SUFFICES ASSUME Init PROVE Room
    BY InitWellFormed
  <2>1. Stored = {} /\ FilesStored = {}
    BY DEF Init, StagingInit, Stored, FilesStored
  <2> QED
    BY <2>1, FS_EmptySet, StagingAssumption DEF Room, QuotaHolds, Init, StagingInit
<1>2. WellFormed /\ Room /\ [Next]_vars => (WellFormed /\ Room)'
  BY NextWellFormed, NextRoom
<1>3. Room => QuotaHolds
  BY DEF Room
<1> QED
  BY <1>1, <1>2, <1>3, PTL DEF Spec

-----------------------------------------------------------------------------
(* The disk *)

AllSynced(b) == \A f \in batches[b].packet : disk[b].files[f] = "synced"

\* Nobody has made a directory without a row; an upload syncs names after files,
\* and announces its batch after both.
OnDisk ==
  /\ DirectoryHasIntent
  /\ \A r \in Requests :
       /\ pc[r] = "persisting" /\ disk[job[r].batch] # Null /\ disk[job[r].batch].names # "loose"
       => AllSynced(job[r].batch)
  /\ \A r \in Requests : pc[r] = "finishing" => Durable(job[r].batch)
  /\ QuarantinedIsDurable

\* What an upload writes to the directory of its batch.
LEMMA DirectoryWrites ==
  ASSUME WellFormed, OnDisk, NEW r \in Requests, PersistSources(r)
  PROVE  LET c == job[r].batch
         IN  /\ \A b \in Batches : b # c => disk'[b] = disk[b]
             /\ disk'[c] # Null
             /\ ~Durable(c)
             /\ disk'[c].names # "loose" => \A f \in batches[c].packet : disk'[c].files[f] = "synced"
<1> DEFINE c == job[r].batch
<1>0. disk \in [Batches -> Directory \cup {Null}]
  BY DEF WellFormed, TypeOK, StagingTypeOK
<1>1. /\ pc[r] = "persisting" /\ c \in Batches /\ batches[c] # Null /\ batches[c].packet = job[r].packet
      /\ job[r].packet \subseteq Originals
  BY PersistWrites, StagingAssumption DEF WellFormed, JobsFit, Works, OnBatch, OnRow
<1>2. disk[c] # Null /\ disk[c].names # "loose" => AllSynced(c)
  BY <1>1 DEF OnDisk
<1>3. PICK dir \in Directory : disk' = [disk EXCEPT ![c] = dir]
  BY PersistWrites
<1>4. disk'[c] = dir /\ dir # Null /\ \A b \in Batches : b # c => disk'[b] = disk[b]
  BY <1>0, <1>1, <1>3, StagingAssumption
<1>5. CASE MakeDirectory(r)
  <2>1. disk[c] = Null /\ disk'[c] = NoDirectory
    BY <1>0, <1>1, <1>5 DEF MakeDirectory
  <2>2. NoDirectory.names = "loose"
    BY DEF NoDirectory
  <2> QED
    BY <1>4, <2>1, <2>2 DEF Durable
<1>6. ASSUME NEW from \in {"none", "created", "written"}, NEW to, WriteFile(r, from, to)
      PROVE  ~Durable(c) /\ disk'[c].names = "loose"
  <2>1. PICK f \in Originals : f \in job[r].packet /\ disk[c].files[f] = from /\ disk[c] # Null
                               /\ disk' = [disk EXCEPT ![c].files[f] = to]
    BY <1>1, <1>6 DEF WriteFile
  <2>2. ~AllSynced(c)
    BY <1>1, <2>1 DEF AllSynced
  <2>3. disk[c].names = "loose" /\ disk[c] \in Directory
    BY <1>0, <1>1, <1>2, <2>1, <2>2
  <2>4. disk'[c] = [disk[c] EXCEPT !.files[f] = to]
    BY <1>0, <1>1, <2>1
  <2>5. disk'[c].names = "loose"
    BY <2>3, <2>4 DEF Directory
  <2> QED
    BY <2>3, <2>5 DEF Durable
<1>7. ASSUME NEW from \in {"loose", "dir"}, NEW to, SyncNames(r, from, to)
      PROVE  ~Durable(c) /\ \A f \in batches[c].packet : disk'[c].files[f] = "synced"
  <2>1. /\ disk[c] # Null /\ disk[c].names = from
        /\ \A f \in job[r].packet : disk[c].files[f] = "synced"
        /\ disk' = [disk EXCEPT ![c].names = to]
    BY <1>7 DEF SyncNames
  <2>2. disk'[c] = [disk[c] EXCEPT !.names = to] /\ disk[c] \in Directory
    BY <1>0, <1>1, <2>1
  <2>3. disk'[c].files = disk[c].files
    BY <2>2 DEF Directory
  <2> QED
    BY <1>1, <2>1, <2>3 DEF Durable
<1> QED
  BY <1>4, <1>5, <1>6, <1>7 DEF PersistSources

\* What outlives a loss of power is what is durable.
LEMMA PowerSpares ==
  ASSUME PowerFails, NEW b \in Batches
  PROVE  /\ disk'[b] # Null => disk[b] # Null
         /\ Durable(b) /\ batches[b].packet \subseteq Originals => Durable(b)'
<1>1. Survives(disk[b], disk'[b]) /\ batches' = batches
  BY DEF PowerFails
<1>2. disk'[b] # Null => disk[b] # Null
  BY <1>1 DEF Survives
<1>3. ASSUME Durable(b), batches[b].packet \subseteq Originals PROVE Durable(b)'
  <2>1. disk[b] # Null /\ disk[b].names = "root" /\ \A f \in batches[b].packet : disk[b].files[f] = "synced"
    BY <1>3 DEF Durable
  <2>2. disk'[b] # Null
    BY <1>1, <2>1 DEF Survives
  <2>3. disk'[b].names = "root" /\ \A f \in batches[b].packet : disk'[b].files[f] = "synced"
    BY <1>1, <1>3, <2>1, <2>2 DEF Survives
  <2> QED
    BY <1>1, <2>2, <2>3 DEF Durable
<1> QED
  BY <1>2, <1>3

\* The disk changes by an upload that writes and by a loss of power only.
LEMMA NextDisk ==
  ASSUME [Next]_vars
  PROVE  disk' = disk \/ PowerFails \/ \E r \in Requests : PersistSources(r)
BY DEF Next, vars, stagingVars, Staging, StagingNext, Serve, Crash, ReceiveUpload, SendProbe, RejectUpload,
   Fail, Refuse, BeginReserve, Reserve, CommitIntent, BeginFinish, Finish, ReadSources, StartWorker,
   WorkerAnswers, BeginVerdict, CommitVerdict, RightsChange, Provision, RevokeAccess, AccessLapses, RegainAccess, SendReview, BeginReview, SaveReview,
   DirectoryChanges

LEMMA DurableStays ==
  ASSUME WellFormed, OnDisk, [Next]_vars, NEW b \in Batches, batches[b] # Null, Durable(b)
  PROVE  Durable(b)'
<1>1. batches'[b].packet = batches[b].packet
  BY RowKept
<1>2. batches[b].packet \subseteq Originals
  BY StagingAssumption DEF WellFormed, TypeOK, StagingTypeOK, Batch
<1>3. CASE disk'[b] = disk[b]
  BY <1>1, <1>3 DEF Durable
<1>4. CASE PowerFails
  BY <1>2, <1>4, PowerSpares
<1>5. ASSUME NEW r \in Requests, PersistSources(r) PROVE disk'[b] = disk[b]
  BY <1>5, DirectoryWrites
<1> QED
  BY <1>3, <1>4, <1>5, NextDisk

\* How a request comes to write, and to announce, its batch.
LEMMA WritesHow ==
  ASSUME WellFormed, [Next]_vars, NEW o \in Requests, pc'[o] \in {"persisting", "finishing"}
  PROVE  /\ job'[o] = job[o] /\ ~PowerFails
         /\ \/ pc'[o] = pc[o]
            \/ pc'[o] = "persisting" /\ CommitIntent(o)
            \/ pc'[o] = "finishing" /\ BeginFinish(o)
<1>0. pc = [x \in Requests |-> pc[x]] /\ job = [x \in Requests |-> job[x]]
  BY DEF WellFormed, TypeOK, StagingTypeOK
<1> DEFINE How == /\ job'[o] = job[o] /\ ~PowerFails
                  /\ \/ pc'[o] = pc[o]
                     \/ pc'[o] = "persisting" /\ CommitIntent(o)
                     \/ pc'[o] = "finishing" /\ BeginFinish(o)
<1>1. ~PowerFails
  BY DEF PowerFails
<1>2. CASE RightsChange \/ \E p \in Processes : Crash(p)
  BY <1>1, <1>2 DEF RightsChange, Provision, RevokeAccess, AccessLapses, RegainAccess, Crash
<1>3. ASSUME NEW r \in Requests, End(r) PROVE How
  BY <1>0, <1>1, <1>3 DEF End
<1>4. ASSUME NEW r \in Requests,
             ReceiveUpload(r) \/ SendProbe(r) \/ BeginReserve(r) \/ BeginVerdict(r) \/ WorkerAnswers(r)
      PROVE  How
  BY <1>0, <1>1, <1>4 DEF ReceiveUpload, SendProbe, BeginReserve, BeginVerdict, WorkerAnswers, Goes
<1>5. ASSUME NEW r \in Requests, CommitIntent(r) \/ BeginFinish(r) PROVE How
  BY <1>0, <1>1, <1>5 DEF CommitIntent, BeginFinish, Goes
<1>6. ASSUME NEW r \in Requests, (ReadSources(r) \/ StartWorker(r) \/ Reserve(r)) /\ ~End(r) PROVE How
  BY <1>0, <1>1, <1>6 DEF ReadSources, StartWorker, Reserve
<1>7. ASSUME NEW r \in Requests, PersistSources(r) PROVE How
  BY <1>1, <1>7, PersistWrites
<1>8. ASSUME NEW r \in Requests, SendReview(r) \/ BeginReview(r) PROVE How
  BY <1>0, <1>1, <1>8 DEF SendReview, BeginReview, Goes
<1>9. CASE DirectoryChanges \/ UNCHANGED vars
  BY <1>1, <1>9 DEF DirectoryChanges, vars, stagingVars
<1> HIDE DEF How
<1>10. How
  BY <1>1, <1>2, <1>3, <1>4, <1>5, <1>6, <1>7, <1>8, <1>9
     DEF Next, Staging, StagingNext, Serve, RejectUpload, Fail, Refuse, Finish, CommitVerdict, SaveReview, How
<1> QED
  BY <1>10 DEF How

LEMMA NextOnDisk ==
  ASSUME WellFormed, AuditShape, OnDisk, [Next]_vars
  PROVE  OnDisk'
<1>0. disk \in [Batches -> Directory \cup {Null}]
  BY DEF WellFormed, TypeOK, StagingTypeOK
<1>1. DirectoryHasIntent'
  <2> SUFFICES ASSUME NEW b \in Batches, disk'[b] # Null PROVE batches'[b] # Null
    BY DEF DirectoryHasIntent
  <2>1. ASSUME NEW r \in Requests, PersistSources(r) PROVE batches[b] # Null
    <3>1. batches[job[r].batch] # Null
      BY <2>1, PersistWrites DEF WellFormed, JobsFit, Works, OnBatch, OnRow
    <3> QED
      BY <2>1, <3>1, DirectoryWrites DEF OnDisk, DirectoryHasIntent
  <2>2. batches[b] # Null
    BY <2>1, NextDisk, PowerSpares DEF OnDisk, DirectoryHasIntent
  <2> QED
    BY <2>2, RowKept
<1>2. ASSUME NEW o \in Requests, pc'[o] = "persisting", disk'[job'[o].batch] # Null,
             disk'[job'[o].batch].names # "loose"
      PROVE  \A f \in batches'[job'[o].batch].packet : disk'[job'[o].batch].files[f] = "synced"
  <2> DEFINE b == job[o].batch
  <2>1. job'[o] = job[o] /\ ~PowerFails /\ (pc[o] = "persisting" \/ CommitIntent(o))
    BY <1>2, WritesHow
  <2>2. CASE CommitIntent(o)
    <3>1. b \in Batches /\ batches[b] = Null /\ disk' = disk
      BY <2>2 DEF CommitIntent, Goes, WellFormed, JobsFit, Works, OnBatch
    <3>2. disk[b] = Null
      BY <3>1 DEF OnDisk, DirectoryHasIntent
    <3> QED
      BY <1>2, <2>1, <3>1, <3>2
  <2>3. CASE pc[o] = "persisting"
    <3>1. b \in Batches /\ batches[b] # Null
      BY <2>3 DEF WellFormed, JobsFit, Works, OnBatch, OnRow
    <3>2. batches'[b].packet = batches[b].packet
      BY <3>1, RowKept
    <3>3. CASE disk'[b] = disk[b]
      BY <1>2, <2>1, <2>3, <3>1, <3>2, <3>3 DEF OnDisk, AllSynced
    <3>4. ASSUME NEW r \in Requests, PersistSources(r), disk'[b] # disk[b]
          PROVE  \A f \in batches[b].packet : disk'[b].files[f] = "synced"
      BY <1>2, <2>1, <3>1, <3>4, DirectoryWrites
    <3> QED
      BY <2>1, <3>2, <3>3, <3>4, NextDisk
  <2> QED
    BY <2>1, <2>2, <2>3
<1>3. ASSUME NEW o \in Requests, pc'[o] = "finishing"
      PROVE  Durable(job[o].batch)' /\ job'[o] = job[o]
  <2> DEFINE b == job[o].batch
  <2>1. job'[o] = job[o] /\ ~PowerFails /\ (pc[o] = "finishing" \/ BeginFinish(o))
    BY <1>3, WritesHow
  <2>2. b \in Batches /\ batches[b] # Null
    BY <2>1 DEF BeginFinish, Goes, WellFormed, JobsFit, Works, OnBatch, OnRow
  <2>3. Durable(b)
    <3>1. CASE BeginFinish(o)
      <4>1. pc[o] = "persisting" /\ disk[b] # Null /\ disk[b].names = "root"
        BY <3>1 DEF BeginFinish, Goes
      <4>2. AllSynced(b)
        BY <4>1 DEF OnDisk
      <4> QED
        BY <4>1, <4>2 DEF Durable, AllSynced
    <3> QED
      BY <2>1, <3>1 DEF OnDisk
  <2>4. \A c \in Batches : c = b => Durable(c)'
    BY <2>2, <2>3, DurableStays
  <2> QED
    BY <2>1, <2>2, <2>4 DEF Durable
<1>4. QuarantinedIsDurable'
  <2> SUFFICES ASSUME NEW b \in Batches, NEW a \in audit'[b], a.action = "REPORT_QUARANTINED"
               PROVE  batches'[b] # Null /\ Durable(b)'
    BY DEF QuarantinedIsDurable, Durable
  <2>1. batches[b] # Null /\ Durable(b)
    <3>1. \A v : EntryOf("REPORT_PROBED", v).action # "REPORT_QUARANTINED"
                 /\ EntryOf("REPORT_UPLOAD_RESERVED", v).action # "REPORT_QUARANTINED"
      BY DEF EntryOf
    <3>2. CASE a \in audit[b]
      BY <3>2 DEF OnDisk, QuarantinedIsDurable
    <3>3. CASE a \notin audit[b]
      <4>1. Quarantined(b)
        BY <3>1, <3>3, NextRow DEF Inserted, Probed, Told
      <4> QED
        BY <4>1 DEF Quarantined, Told, OnDisk
    <3> QED
      BY <3>2, <3>3
  <2> QED
    BY <2>1, RowKept, DurableStays
<1> QED
  BY <1>1, <1>2, <1>3, <1>4 DEF OnDisk, AllSynced

LEMMA OnDiskAlways == Spec => [](WellFormed /\ AuditShape /\ OnDisk)
<1>1. Init => WellFormed /\ AuditShape /\ OnDisk
  BY InitWellFormed DEF Init, StagingInit, AuditShape, OnDisk, DirectoryHasIntent, QuarantinedIsDurable
<1>2. WellFormed /\ AuditShape /\ OnDisk /\ [Next]_vars => (WellFormed /\ AuditShape /\ OnDisk)'
  BY NextWellFormed, NextAuditShape, NextOnDisk
<1> QED
  BY <1>1, <1>2, PTL DEF Spec

\* DirectoryHasIntent: whatever crashes, no directory is left that the database
\* does not know of.
THEOREM IntentsComeFirst == Spec => []DirectoryHasIntent
BY OnDiskAlways, PTL DEF OnDisk

\* QuarantinedIsDurable: a batch whose upload has announced it keeps its originals
\* whenever, and however often, the power fails.
THEOREM OriginalsSurvive == Spec => []QuarantinedIsDurable
BY OnDiskAlways, PTL DEF OnDisk

-----------------------------------------------------------------------------
(* The slots of a process *)

Parses(r) == pc[r] = "parsing"

\* The flag, and the worker, of a process are those of one request.
SlotsFit ==
  /\ \A r \in Requests : Receives(r) => job[r].at \in receiving
  /\ \A p \in receiving : \E r \in Requests : Receives(r) /\ job[r].at = p
  /\ \A r, o \in Requests : Receives(r) /\ Receives(o) /\ job[r].at = job[o].at => r = o
  /\ \A r \in Requests : Parses(r) => job[r].at \in probing
  /\ \A p \in probing : \E r \in Requests : Parses(r) /\ job[r].at = p
  /\ \A r, o \in Requests : Parses(r) /\ Parses(o) /\ job[r].at = job[o].at => r = o

\* A request that goes on keeps its process and what it has taken.
SameSlots ==
  /\ receiving' = receiving /\ probing' = probing
  /\ \A o \in Requests : /\ Receives(o)' <=> Receives(o)
                         /\ Parses(o)' <=> Parses(o)
                         /\ Receives(o) \/ Parses(o) => job'[o].at = job[o].at

LEMMA SameFits ==
  ASSUME SlotsFit, SameSlots
  PROVE  SlotsFit'
BY DEF SlotsFit, SameSlots

LEMMA EndSlots ==
  ASSUME WellFormed, SlotsFit, NEW r \in Requests, End(r)
  PROVE  SlotsFit'
<1>1. /\ pc'[r] = "idle"
      /\ \A o \in Requests : o # r => pc'[o] = pc[o] /\ job'[o] = job[o]
      /\ receiving' = IF Receives(r) THEN receiving \ {job[r].at} ELSE receiving
      /\ probing' = IF Parses(r) THEN probing \ {job[r].at} ELSE probing
  BY DEF End, Parses, WellFormed, TypeOK, StagingTypeOK
<1>2. \A o \in Requests : /\ Receives(o)' <=> o # r /\ Receives(o)
                          /\ Parses(o)' <=> o # r /\ Parses(o)
                          /\ o # r => job'[o].at = job[o].at
  BY <1>1 DEF Receives, Parses
<1>3. /\ \A o \in Requests : Receives(o)' => job'[o].at \in receiving'
      /\ \A o \in Requests : Parses(o)' => job'[o].at \in probing'
  BY <1>1, <1>2 DEF SlotsFit
<1>4. /\ \A p \in receiving' : \E o \in Requests : Receives(o)' /\ job'[o].at = p
      /\ \A p \in probing' : \E o \in Requests : Parses(o)' /\ job'[o].at = p
  BY <1>1, <1>2 DEF SlotsFit
<1>5. /\ \A q, o \in Requests : Receives(q)' /\ Receives(o)' /\ job'[q].at = job'[o].at => q = o
      /\ \A q, o \in Requests : Parses(q)' /\ Parses(o)' /\ job'[q].at = job'[o].at => q = o
  BY <1>2 DEF SlotsFit
<1> QED
  BY <1>3, <1>4, <1>5 DEF SlotsFit

\* A request takes what its process has free.
LEMMA TakeSlots ==
  ASSUME WellFormed, SlotsFit, NEW r \in Requests,
         ReceiveUpload(r) \/ WorkerAnswers(r) \/ (StartWorker(r) /\ ~End(r))
  PROVE  SlotsFit'
<1>0. pc = [x \in Requests |-> pc[x]] /\ job = [x \in Requests |-> job[x]]
  BY DEF WellFormed, TypeOK, StagingTypeOK
<1>1. \A o \in Requests : o # r => /\ pc'[o] = pc[o] /\ job'[o] = job[o]
                                   /\ Receives(o)' = Receives(o) /\ Parses(o)' = Parses(o)
  BY <1>0 DEF ReceiveUpload, WorkerAnswers, StartWorker, Goes, Receives, Parses
<1>2. CASE ReceiveUpload(r)
  <2>1. PICK p \in Processes \ receiving, k \in Packets :
          /\ receiving' = receiving \cup {p}
          /\ job' = [job EXCEPT ![r] =
               [at |-> p, packet |-> k, batch |-> Null, version |-> 0, ok |-> FALSE]]
    BY <1>2 DEF ReceiveUpload
  <2>2. job'[r].at = p
    BY <1>0, <2>1
  <2>3. pc[r] = "idle" /\ pc'[r] = "receiving" /\ probing' = probing
    BY <1>0, <1>2 DEF ReceiveUpload, Goes
  <2>4. ~Receives(r) /\ ~Parses(r) /\ Receives(r)' /\ ~Parses(r)'
    BY <2>3 DEF Receives, Parses
  <2> QED
    BY <1>1, <2>1, <2>2, <2>3, <2>4 DEF SlotsFit
<1>3. CASE WorkerAnswers(r)
  <2>1. pc[r] = "parsing" /\ pc'[r] = "parsed" /\ receiving' = receiving /\ probing' = probing \ {job[r].at}
    BY <1>0, <1>3 DEF WorkerAnswers, Goes
  <2>2. Parses(r) /\ ~Receives(r) /\ ~Parses(r)' /\ ~Receives(r)'
    BY <2>1 DEF Receives, Parses
  <2> QED
    BY <1>1, <2>1, <2>2 DEF SlotsFit
<1>4. CASE StartWorker(r) /\ ~End(r)
  <2>1. /\ pc[r] = "read" /\ pc'[r] = "parsing" /\ receiving' = receiving /\ job' = job
        /\ job[r].at \notin probing /\ probing' = probing \cup {job[r].at}
    BY <1>0, <1>4 DEF StartWorker
  <2>2. ~Parses(r) /\ ~Receives(r) /\ Parses(r)' /\ ~Receives(r)'
    BY <2>1 DEF Receives, Parses
  <2> QED
    BY <1>1, <2>1, <2>2 DEF SlotsFit
<1> QED
  BY <1>2, <1>3, <1>4

\* The other steps of a request.
LEMMA KeepSlots ==
  ASSUME WellFormed, NEW r \in Requests,
         \/ BeginReserve(r) \/ (Reserve(r) /\ ~End(r)) \/ CommitIntent(r) \/ PersistSources(r)
         \/ BeginFinish(r) \/ SendProbe(r) \/ (ReadSources(r) /\ ~End(r)) \/ BeginVerdict(r)
         \/ SendReview(r) \/ BeginReview(r)
  PROVE  SameSlots
<1>0. pc = [x \in Requests |-> pc[x]] /\ job = [x \in Requests |-> job[x]]
  BY DEF WellFormed, TypeOK, StagingTypeOK
<1>1. receiving' = receiving /\ probing' = probing
  BY PersistWrites DEF BeginReserve, Reserve, CommitIntent, BeginFinish, SendProbe, ReadSources, BeginVerdict,
     SendReview, BeginReview
<1>2. CASE Reserve(r) /\ ~End(r)
  <2>1. PICK b \in Batches : job' = [job EXCEPT ![r].batch = b]
    BY <1>2 DEF Reserve
  <2>2. job[r] \in Job /\ pc[r] = "reserving" /\ pc' = [pc EXCEPT ![r] = "reserved"]
    BY <1>2 DEF Reserve, WellFormed, JobsFit, Works
  <2>3. \A o \in Requests : job'[o].at = job[o].at
    BY <1>0, <2>1, <2>2 DEF Job
  <2> QED
    BY <1>0, <1>1, <2>2, <2>3 DEF SameSlots, Receives, Parses
<1>3. CASE SendProbe(r) \/ SendReview(r)
  <2>1. /\ pc[r] = "idle" /\ \E to \in {"probing", "drafting"} : pc' = [pc EXCEPT ![r] = to]
        /\ \A o \in Requests : o # r => job'[o] = job[o]
    BY <1>0, <1>3 DEF SendProbe, SendReview, Goes
  <2> QED
    BY <1>0, <1>1, <2>1 DEF SameSlots, Receives, Parses
<1>4. CASE PersistSources(r)
  BY <1>1, <1>4, PersistWrites DEF SameSlots, Receives, Parses
<1>5. CASE BeginReserve(r) \/ CommitIntent(r) \/ BeginFinish(r) \/ BeginVerdict(r) \/ BeginReview(r)
  BY <1>0, <1>1, <1>5 DEF BeginReserve, CommitIntent, BeginFinish, BeginVerdict, BeginReview, Goes,
     SameSlots, Receives, Parses
<1>6. CASE ReadSources(r) /\ ~End(r)
  BY <1>0, <1>1, <1>6 DEF ReadSources, SameSlots, Receives, Parses
<1> QED
  BY <1>2, <1>3, <1>4, <1>5, <1>6

LEMMA CrashSlots ==
  ASSUME WellFormed, SlotsFit, PowerFails \/ \E p \in Processes : Crash(p)
  PROVE  SlotsFit'
<1>1. CASE PowerFails
  BY <1>1 DEF PowerFails, SlotsFit, Receives, Parses
<1>2. ASSUME NEW p \in Processes, Crash(p) PROVE SlotsFit'
  <2>1. receiving' = receiving \ {p} /\ probing' = probing \ {p}
    BY <1>2 DEF Crash
  <2>2. \A o \in Requests : IF pc[o] # "idle" /\ job[o].at = p THEN pc'[o] = "idle"
                                                             ELSE pc'[o] = pc[o] /\ job'[o] = job[o]
    BY <1>2 DEF Crash
  <2>3. \A o \in Requests : /\ Receives(o)' <=> Receives(o) /\ job[o].at # p
                            /\ Parses(o)' <=> Parses(o) /\ job[o].at # p
                            /\ (Receives(o) \/ Parses(o)) /\ job[o].at # p => job'[o].at = job[o].at
    BY <2>2 DEF Receives, Parses
  <2> QED
    BY <2>1, <2>3 DEF SlotsFit
<1> QED
  BY <1>1, <1>2

LEMMA NextSlots ==
  ASSUME WellFormed, SlotsFit, [Next]_vars
  PROVE  SlotsFit'
<1>1. CASE RightsChange \/ DirectoryChanges \/ UNCHANGED vars
  <2>1. UNCHANGED <<pc, job, receiving, probing>>
    BY <1>1 DEF RightsChange, Provision, RevokeAccess, AccessLapses, RegainAccess, DirectoryChanges, vars, stagingVars
  <2>2. SameSlots
    BY <2>1 DEF SameSlots, Receives, Parses
  <2> QED
    BY <2>2, SameFits
<1> QED
  BY <1>1, EndSlots, TakeSlots, KeepSlots, SameFits, CrashSlots
     DEF Next, Staging, StagingNext, Serve, RejectUpload, Fail, Refuse, Finish, CommitVerdict, SaveReview

\* SlotsHaveOneUser: however requests end, and whatever dies, a process that says
\* it is busy works on exactly one request, and one that is free on none.
THEOREM SlotsGiveBack == Spec => []SlotsHaveOneUser
<1>1. Init => WellFormed /\ SlotsFit
  BY InitWellFormed DEF Init, StagingInit, SlotsFit, Receives, Parses
<1>2. WellFormed /\ SlotsFit /\ [Next]_vars => (WellFormed /\ SlotsFit)'
  BY NextWellFormed, NextSlots
<1>3. SlotsFit => SlotsHaveOneUser
  <2> SUFFICES ASSUME SlotsFit, NEW p \in Processes
               PROVE  /\ Cardinality({r \in Requests : Receives(r) /\ job[r].at = p})
                           = IF p \in receiving THEN 1 ELSE 0
                      /\ Cardinality({r \in Requests : pc[r] = "parsing" /\ job[r].at = p})
                           = IF p \in probing THEN 1 ELSE 0
    BY DEF SlotsHaveOneUser
  <2> DEFINE uploads == {r \in Requests : Receives(r) /\ job[r].at = p}
             workers == {r \in Requests : pc[r] = "parsing" /\ job[r].at = p}
  <2>1. (p \in receiving => \E r : uploads = {r}) /\ (p \notin receiving => uploads = {})
    <3>1. CASE p \in receiving
      <4>1. PICK r \in Requests : Receives(r) /\ job[r].at = p
        BY <3>1 DEF SlotsFit
      <4>2. \A o \in Requests : Receives(o) /\ job[o].at = p => o = r
        BY <4>1 DEF SlotsFit
      <4>3. uploads = {r}
        BY <4>1, <4>2
      <4> HIDE DEF uploads
      <4> QED
        BY <3>1, <4>3
    <3>2. CASE p \notin receiving
      BY <3>2 DEF SlotsFit
    <3> QED
      BY <3>1, <3>2
  <2>2. (p \in probing => \E r : workers = {r}) /\ (p \notin probing => workers = {})
    <3>1. CASE p \in probing
      <4>1. PICK r \in Requests : Parses(r) /\ job[r].at = p
        BY <3>1 DEF SlotsFit
      <4>2. \A o \in Requests : Parses(o) /\ job[o].at = p => o = r
        BY <4>1 DEF SlotsFit
      <4>3. workers = {r}
        BY <4>1, <4>2 DEF Parses
      <4> HIDE DEF workers
      <4> QED
        BY <3>1, <4>3
    <3>2. CASE p \notin probing
      BY <3>2 DEF SlotsFit, Parses
    <3> QED
      BY <3>1, <3>2
  <2> HIDE DEF uploads, workers
  <2>3. (\A r : Cardinality({r}) = 1) /\ Cardinality({}) = 0
    BY FS_Singleton, FS_EmptySet
  <2>4. Cardinality(uploads) = IF p \in receiving THEN 1 ELSE 0
    <3>1. CASE p \in receiving
      <4>1. PICK r : uploads = {r}
        BY <2>1, <3>1
      <4>2. Cardinality({r}) = 1
        BY <2>3
      <4> QED
        BY <3>1, <4>1, <4>2
    <3>2. CASE p \notin receiving
      BY <2>1, <2>3, <3>2
    <3> QED
      BY <3>1, <3>2
  <2>5. Cardinality(workers) = IF p \in probing THEN 1 ELSE 0
    <3>1. CASE p \in probing
      <4>1. PICK r : workers = {r}
        BY <2>2, <3>1
      <4>2. Cardinality({r}) = 1
        BY <2>3
      <4> QED
        BY <3>1, <4>1, <4>2
    <3>2. CASE p \notin probing
      BY <2>2, <2>3, <3>2
    <3> QED
      BY <3>1, <3>2
  <2> QED
    BY <2>4, <2>5 DEF uploads, workers
<1> QED
  BY <1>1, <1>2, <1>3, PTL DEF Spec
=============================================================================
