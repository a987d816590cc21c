----------------------------- MODULE ReportReview -----------------------------
(***************************************************************************)
(* Drafts over a staged report, server/src/reporting/review.ts: the rows   *)
(* of a preview are proposed for outlets of the network, in revisions that *)
(* are only ever added. The module extends ReportStaging: a draft needs a  *)
(* batch whose verdict is NEEDS_MAPPING, is carried by the same requests   *)
(* and processes, and needs the same rights. The directory changes beside  *)
(* it, by the commands of OrgChanges.                                      *)
(***************************************************************************)
EXTENDS ReportStaging

CONSTANTS
  Rows,         \* source rows of the reports of a preview (sourceItemId)
  KindOf,       \* the report each row belongs to
  Outlets,      \* org_directory_units of kind ORG_UNIT
  Keys,         \* Idempotency-Key header values
  Edits,        \* bound: the edits clients send
  MaxRevisions  \* revisions of a batch, 1000 in the code

VARIABLES
  eligible,   \* outlets that hang from the network of the batches today
  revisions,  \* report_review_revisions of each batch, by version
  saved,      \* idempotency_records of reportReviewDraft, by key
  draft       \* what the request of each slot proposes, and the view it was checked on

reviewVars == <<eligible, revisions, saved, draft>>
vars == <<stagingVars, reviewVars>>

Mapping == [Rows -> Outlets \cup {Null}]

Edit == UNION {[D -> Outlets \cup {Null}] : D \in SUBSET Rows}

Blank == [x \in Rows |-> Null]

\* What the client saw, what he changes, and the mapping that comes of it.
Revision == [seen: Nat, edits: Edits, mapping: Mapping]

\* The body of a request, as its hash tells bodies apart.
Command == [batch: Batches, seen: Nat, edits: Edits]

Draft == [key: Keys, command: Command, view: [version: Nat, mapping: Mapping, eligible: SUBSET Outlets]]

ASSUME ReviewAssumption ==
  /\ Null \notin Outlets
  /\ Null \notin Command
  /\ Null \notin Draft
  /\ Edits \subseteq Edit
  /\ MaxRevisions \in Nat

Edited(mapping, e) == [x \in Rows |-> IF x \in DOMAIN e THEN e[x] ELSE mapping[x]]

Current(b) == IF revisions[b] = <<>> THEN Blank ELSE revisions[b][Len(revisions[b])].mapping

View(b) == [version |-> Len(revisions[b]), mapping |-> Current(b), eligible |-> eligible]

Unread == [version |-> 0, mapping |-> Blank, eligible |-> {}]

-----------------------------------------------------------------------------
(* The directory *)

\* LOCK TABLE org_directory_units, ... IN SHARE MODE, to the end of the transaction.
HoldsDirectory(r) == pc[r] = "reviewing"

\* An applied change takes an outlet to another network, or brings it back.
DirectoryChanges ==
  /\ \A r \in Requests : ~HoldsDirectory(r)
  /\ \E u \in Outlets : eligible' = IF u \in eligible THEN eligible \ {u} ELSE eligible \cup {u}
  /\ UNCHANGED <<stagingVars, revisions, saved, draft>>

-----------------------------------------------------------------------------
(* Saving a draft *)

\* A client sends edits of a version he has read, maybe long ago, or repeats
\* what he has sent before.
SendReview(r) ==
  /\ Goes(r, "idle", "drafting")
  /\ MayStage
  /\ \E p \in Processes, b \in Stored, k \in Keys, e \in Edits :
       /\ batches[b].status = "NEEDS_MAPPING"
       /\ \E seen \in 0 .. Len(revisions[b]) :
            draft' = [draft EXCEPT ![r] =
              [key |-> k, command |-> [batch |-> b, seen |-> seen, edits |-> e], view |-> Unread]]
       /\ job' = [job EXCEPT ![r] = [at |-> p, packet |-> batches[b].packet, batch |-> b,
                                     version |-> batches[b].version, ok |-> FALSE]]
  /\ UNCHANGED <<batches, disk, audit, capability, receiving, probing, eligible, revisions, saved>>

\* SELECT ... FOR UPDATE of the batch, to the end of the transaction.
HoldsBatch(r, b) == pc[r] = "reviewing" /\ job[r].batch = b

\* context: capability, directory, batch, and then what is there is read. The batch
\* must have passed its probe.
BeginReview(r) ==
  LET b == job[r].batch
  IN  /\ Goes(r, "drafting", "reviewing")
      /\ MayStage
      /\ \A o \in Requests \ {r} : ~HoldsBatch(o, b)
      /\ batches[b].storage = "READY"
      /\ batches[b].status = "NEEDS_MAPPING"
      /\ draft' = [draft EXCEPT ![r].view = View(b)]
      /\ UNCHANGED <<batches, disk, audit, capability, receiving, probing, job, eligible, revisions, saved>>

\* Mutant: only what is edited is looked at.
UsableEdits(d, mapping) ==
  \A x \in DOMAIN d.command.edits : d.command.edits[x] \in d.view.eligible \cup {Null}

\* Every outlet proposed, now or in an earlier revision, is still one of the
\* network, and no two rows of a report propose the same.
Usable(d, mapping) ==
  /\ \A x \in Rows : mapping[x] \in d.view.eligible \cup {Null}
  /\ \A x, y \in Rows :
       x # y /\ KindOf[x] = KindOf[y] /\ mapping[x] # Null => mapping[x] # mapping[y]

\* Mutant: the version is not compared.
AcceptableLate(d) ==
  /\ saved[d.key] = Null
  /\ d.view.version < MaxRevisions
  /\ Usable(d, Edited(d.view.mapping, d.command.edits))

\* A key that is known is a replay or an error; then the version, the limit
\* and the mapping.
Acceptable(d) ==
  /\ saved[d.key] = Null
  /\ d.command.seen = d.view.version
  /\ d.view.version < MaxRevisions
  /\ Usable(d, Edited(d.view.mapping, d.command.edits))

\* The revision, its audit row and the saved answer are one transaction.
SaveReview(r) ==
  LET d == draft[r]
      b == d.command.batch
  IN  /\ pc[r] = "reviewing"
      /\ IF Acceptable(d)
           THEN /\ revisions' = [revisions EXCEPT ![b] = Append(@,
                     [seen |-> d.command.seen, edits |-> d.command.edits,
                      mapping |-> Edited(d.view.mapping, d.command.edits)])]
                /\ saved' = [saved EXCEPT ![d.key] = d.command]
           ELSE UNCHANGED <<revisions, saved>>
      /\ End(r)
      /\ draft' = [draft EXCEPT ![r] = Null]
      /\ UNCHANGED <<batches, disk, audit, capability, eligible>>

-----------------------------------------------------------------------------

Init ==
  /\ StagingInit
  /\ eligible = Outlets
  /\ revisions = [b \in Batches |-> <<>>]
  /\ saved = [k \in Keys |-> Null]
  /\ draft = [r \in Requests |-> Null]

\* A step of the staging; a draft whose request fails or dies with it is gone.
Staging ==
  /\ StagingNext
  /\ draft' = [r \in Requests |-> IF pc'[r] = "idle" THEN Null ELSE draft[r]]
  /\ UNCHANGED <<eligible, revisions, saved>>

Next ==
  \/ Staging
  \/ \E r \in Requests : SendReview(r) \/ BeginReview(r) \/ SaveReview(r)
  \/ DirectoryChanges

Spec == Init /\ [][Next]_vars

-----------------------------------------------------------------------------
(* Properties *)

TypeOK ==
  /\ StagingTypeOK
  /\ eligible \subseteq Outlets
  /\ revisions \in [Batches -> Seq(Revision)]
  /\ saved \in [Keys -> Command \cup {Null}]
  /\ draft \in [Requests -> Draft \cup {Null}]

\* No editor's work is overwritten by one who had not seen it: each revision is
\* the one before it with the edits of a client who had read that one, whatever
\* tabs, retries and processes race (saveReview).
NoDraftLost ==
  \A b \in Batches : \A n \in 1 .. Len(revisions[b]) :
    LET before == IF n = 1 THEN Blank ELSE revisions[b][n - 1].mapping
        rev == revisions[b][n]
    IN  rev.seen = n - 1 /\ rev.mapping = Edited(before, rev.edits)

\* When a revision is committed every outlet it names hangs from the network,
\* the ones kept from earlier revisions included, and no report has two rows
\* on one outlet.
DraftsFitDirectory ==
  [][\A b \in Batches : Len(revisions'[b]) > Len(revisions[b]) =>
       LET mapping == revisions'[b][Len(revisions'[b])].mapping
       IN  /\ \A x \in Rows : mapping[x] # Null => mapping[x] \in eligible'
           /\ \A x, y \in Rows :
                x # y /\ KindOf[x] = KindOf[y] /\ mapping[x] # Null
                  => mapping[x] # mapping[y]]_vars

\* A step that stores, finishes or judges a batch, or saves a draft, is committed
\* while nobody has revoked the rights it was let in with: a logout, or the end of a
\* grant or of the capability by hand, comes before its check or after its COMMIT.
\* Time alone may end them in between: it is compared once, at the check.
RightsHeldAtCommit == [][batches' # batches \/ revisions' # revisions => NotRevoked]_vars
=============================================================================
