--------------------------- MODULE OrgChangesProofs ---------------------------
(***************************************************************************)
(* What OrgChanges promises for any users, proposals, units, changes, keys *)
(* and requests. The argument goes in layers:                              *)
(*                                                                         *)
(*   Slots        a command in flight names a proposal that is there; the  *)
(*                directory has one holder; whoever holds the rights has   *)
(*                them                                                     *)
(*   Fits         what a command has written, to be seen at its COMMIT,    *)
(*                still is what its checks allow: the tables cannot change *)
(*                under the lock                                           *)
(*   Numbered     the audit rows of a proposal end with its last change    *)
(*   Previewed    a preview is never ahead of the revision, and whatever   *)
(*                changes the directory moves the revision; a proposal     *)
(*                that has been applied has its unit                       *)
(*   Settled      every history is unbroken, and every parent bears        *)
(*                                                                         *)
(* Of the walk up the directory one unfolding is needed: what Covers says  *)
(* of the parent itself, as every unit that is there has been placed in    *)
(* the same way. That the recursion has a solution rests on the four kinds.*)
(*                                                                         *)
(* At the end: the rows implement the calendar of DirectoryCalendar. What  *)
(* CanFollow and Succeeded do to rows, Free and Planned do to days; every  *)
(* COMMIT is a step of the calendar, by a key not on record (KeysFresh).   *)
(***************************************************************************)
EXTENDS OrgChanges, FiniteSetTheorems, SequenceTheorems, TLAPS

-----------------------------------------------------------------------------
(* The invariant *)

WellSent(q) ==
  /\ q \in Request
  /\ q.action = "create" => q.id = Null
  /\ q.action # "create" => q.id # Null /\ proposals[q.id] # Null
  /\ q.action \in {"create", "edit"} => q.change # Null

Slots ==
  /\ \A r \in Requests : pc[r] # "idle" => WellSent(request[r])
  /\ \A r \in Requests : pc[r] = "applied" => pending[r] # Null
  /\ \A r \in Requests : pc[r] # "replied" => reply[r] = Null
  /\ \A r \in Requests : HoldsRights(r) => MayAct(request[r])
  /\ \A r, o \in Requests : HoldsDirectory(r) /\ HoldsDirectory(o) => r = o

\* What a command that applies proposal p to have n in its place has checked.
Applying(q, w, p, n) ==
  /\ n.status = "APPLIED" /\ n.change = p.change
  /\ p.status = "PREVIEW"
  /\ p.preview.actor = q.actor
  /\ p.preview.base = revision
  /\ p.preview.of = p.change
  /\ Valid(p, 0)
  /\ w.unit = After(p.change, directory[p.target])
  /\ w.statements = Bumps(p.change)

Previewing(q, p, n) ==
  /\ n.change = p.change
  /\ n.status \in {"DRAFT", "PREVIEW"}
  /\ n.status = "PREVIEW" =>
       /\ n.preview # Null
       /\ n.preview.actor = q.actor
       /\ n.preview.of = p.change
       /\ n.preview.base = revision
       /\ n.preview.before = directory[p.target]
       /\ Valid(p, 0)

\* The command q may write w in place of proposal p.
Fitting(q, w, p) ==
  LET n == w.proposal
  IN  /\ w.entry.action = q.action /\ w.entry.actor = q.actor /\ w.entry.version = n.version
      /\ q.action = "create" =>
           /\ p = Null
           /\ n.version = 1 /\ n.status = "DRAFT"
           /\ n.target = Target(w.id, n.change)
      /\ q.action # "create" =>
           /\ w.id = q.id /\ p # Null /\ p.status # "APPLIED"
           /\ n.version = p.version + 1
           /\ n.target = p.target
      /\ q.action = "edit" =>
           /\ n.status = "DRAFT"
           /\ n.change.target = p.change.target
      /\ q.action = "preview" => Previewing(q, p, n)
      /\ q.action = "apply" => Applying(q, w, p, n)
      /\ q.action # "apply" => w.unit = Null /\ w.statements = 0 /\ n.status # "APPLIED"

Fits(r) ==
  /\ MayChange(request[r])
  /\ Fitting(request[r], pending[r], proposals[pending[r].id])

Writing == \A r \in Requests : pc[r] = "applied" => Fits(r)

Unapplied(id) == \A n \in DOMAIN audit[id] : audit[id][n].action # "apply"

Numbered ==
  \A id \in Proposals :
    LET p == proposals[id]
        rows == audit[id]
    IN  /\ (p # Null /\ p.status # "APPLIED") => Unapplied(id)
        /\ (p # Null /\ p.status = "PREVIEW") =>
             /\ Len(rows) > 0
             /\ rows[Len(rows)].action = "preview"
             /\ rows[Len(rows)].actor = p.preview.actor

Previewed ==
  \A id \in Proposals :
    LET p == proposals[id]
    IN  p # Null =>
          /\ p.target = Target(id, p.change)
          /\ p.status = "PREVIEW" => p.preview # Null /\ p.preview.base <= revision
          /\ p.status = "APPLIED" => directory[p.target] # Null

Settled ==
  \A u \in Units : directory[u] # Null =>
    /\ Unbroken(directory[u].names, directory[u].from)
    /\ Unbroken(directory[u].parents, directory[u].from)
    /\ \A n \in DOMAIN directory[u].parents :
         Bears(directory, directory[u].parents[n].value, directory[u].kind,
               directory[u].parents[n].from)

OrgInv ==
  /\ TypeOK
  /\ Slots
  /\ Writing
  /\ ApplyFollowsPreview
  /\ Numbered
  /\ Previewed
  /\ PreviewStillHolds
  /\ DirectoryTellsProposals
  /\ Settled

-----------------------------------------------------------------------------
(* The walk *)

\* One step of the walk, f standing for the rest of it.
OneStep(dir, f, walk) ==
  LET p == dir[walk[1]]
      child == walk[2]
      d == walk[3]
  IN  /\ p # Null
      /\ p.from <= d
      /\ p.kind \in ParentKinds[child]
      /\ NoGap(p.parents, d)
      /\ \A n \in EndingAfter(p.parents, d) :
           LET link == p.parents[n]
           IN  IF p.kind = "NETWORK"
                 THEN link.value = Null
                 ELSE link.value # Null /\ f[<<link.value, p.kind, Later(link.from, d)>>]

Walks == Units \X Kinds \X Dates

Walk(dir, f) == [walk \in Walks |-> OneStep(dir, f, walk)]

CoversOf(dir) == CHOOSE f : f = Walk(dir, f)

LEMMA CoversWalk == Covers = CoversOf(directory)
  BY DEF Covers, CoversOf, Walk, Walks, OneStep

LEMMA CoversStays == UNCHANGED directory => Covers' = Covers
<1>1. (Covers = CoversOf(directory))'
  BY CoversWalk, PTL
<1>2. directory' = directory => CoversOf(directory)' = CoversOf(directory)
  OBVIOUS
<1> QED BY <1>1, <1>2, CoversWalk

\* The rows of a history are spans.
LEMMA SpanAt ==
  ASSUME NEW S, NEW spans \in Spans(S), NEW n \in DOMAIN spans
  PROVE  /\ spans[n] \in [value: S, from: Dates, to: Dates \cup {Null}]
         /\ spans[n].value \in S /\ spans[n].from \in Dates /\ spans[n].to \in Dates \cup {Null}
<1> DEFINE Span == [value: S, from: Dates, to: Dates \cup {Null}]
<1>1. spans \in Seq(Span)
  BY DEF Spans
<1>2. n \in 1 .. Len(spans)
  BY <1>1, LenProperties
<1>3. spans[n] \in Span
  BY <1>1, <1>2, ElementOfSeq
<1> QED BY <1>3

\* Two guesses that agree for the kind of the parent give the same step.
LEMMA StepsAgree ==
  ASSUME NEW dir \in [Units -> Unit \cup {Null}], NEW f, NEW g, NEW walk \in Walks,
         \A w \in Walks : w[2] \in ParentKinds[walk[2]] => f[w] = g[w]
  PROVE  OneStep(dir, f, walk) <=> OneStep(dir, g, walk)
<1> DEFINE p == dir[walk[1]]
           d == walk[3]
<1> SUFFICES ASSUME p # Null, p.kind \in ParentKinds[walk[2]]
             PROVE  OneStep(dir, f, walk) <=> OneStep(dir, g, walk)
  BY DEF OneStep
<1>1. p \in Unit /\ d \in Dates
  BY DEF Walks
<1>2. \A n \in DOMAIN p.parents :
        /\ p.parents[n].value \in Units \cup {Null}
        /\ Later(p.parents[n].from, d) \in Dates
  BY <1>1, SpanAt DEF Unit, Later
<1>3. \A n \in DOMAIN p.parents : p.parents[n].value # Null =>
        f[<<p.parents[n].value, p.kind, Later(p.parents[n].from, d)>>]
          = g[<<p.parents[n].value, p.kind, Later(p.parents[n].from, d)>>]
  BY <1>1, <1>2 DEF Walks, Unit
<1>4. EndingAfter(p.parents, d) \subseteq DOMAIN p.parents
  BY DEF EndingAfter
<1> QED BY <1>3, <1>4 DEF OneStep


\* Two guesses agree for the units of some kinds.
Agree(f, g, kinds) == \A w \in Walks : w[2] \in kinds => f[w] = g[w]

LEMMA WalksAgree ==
  ASSUME NEW dir \in [Units -> Unit \cup {Null}], NEW f, NEW g, NEW kinds, NEW more,
         Agree(f, g, kinds), \A k \in more : ParentKinds[k] \subseteq kinds
  PROVE  Agree(Walk(dir, f), Walk(dir, g), more)
<1> SUFFICES ASSUME NEW w \in Walks, w[2] \in more
             PROVE  Walk(dir, f)[w] = Walk(dir, g)[w]
  BY DEF Agree
<1> DEFINE a == OneStep(dir, f, w)
           b == OneStep(dir, g, w)
<1>1. a <=> b
  BY StepsAgree DEF Agree
<1>2. a \in BOOLEAN /\ b \in BOOLEAN
  BY DEF OneStep
<1>3. Walk(dir, f)[w] = a /\ Walk(dir, g)[w] = b
  BY DEF Walk
<1> HIDE DEF a, b
<1> QED BY <1>1, <1>2, <1>3

\* Kind by kind, from the networks down, the guesses agree: four steps find the walk.
LEMMA WalkExists ==
  ASSUME NEW dir \in [Units -> Unit \cup {Null}]
  PROVE  \E f : f = Walk(dir, f)
<1> DEFINE f0 == [w \in Walks |-> FALSE]
           f1 == Walk(dir, f0)
           f2 == Walk(dir, f1)
           f3 == Walk(dir, f2)
           f4 == Walk(dir, f3)
           f5 == Walk(dir, f4)
           K1 == {"NETWORK"}
           K2 == {"NETWORK", "DIVISION"}
           K3 == {"NETWORK", "DIVISION", "CLUSTER"}
<1>0. /\ f1 = Walk(dir, f0) /\ f2 = Walk(dir, f1) /\ f3 = Walk(dir, f2)
      /\ f4 = Walk(dir, f3) /\ f5 = Walk(dir, f4)
  OBVIOUS
<1>a. /\ \A k \in K1 : ParentKinds[k] \subseteq {}
      /\ \A k \in K2 : ParentKinds[k] \subseteq K1
      /\ \A k \in K3 : ParentKinds[k] \subseteq K2
      /\ \A k \in Kinds : ParentKinds[k] \subseteq K3
  BY DEF ParentKinds, Kinds
<1> HIDE DEF f0, f1, f2, f3, f4, f5, K1, K2, K3
<1>b. Agree(f0, f1, {})
  BY DEF Agree
<1>1. Agree(f1, f2, K1)
  BY <1>0, <1>a, <1>b, WalksAgree
<1>2. Agree(f2, f3, K2)
  BY <1>0, <1>a, <1>1, WalksAgree
<1>3. Agree(f3, f4, K3)
  BY <1>0, <1>a, <1>2, WalksAgree
<1>4. Agree(f4, f5, Kinds)
  BY <1>0, <1>a, <1>3, WalksAgree
<1>5. f4 = f5
  BY <1>0, <1>4 DEF Agree, Walk, Walks
<1> QED BY <1>0, <1>5

\* One unfolding of the walk: what it tells of the parent itself.
LEMMA CoversUnfolds ==
  ASSUME directory \in [Units -> Unit \cup {Null}],
         NEW w \in Walks, Covers[w]
  PROVE  /\ directory[w[1]] # Null
         /\ directory[w[1]].from <= w[3]
         /\ directory[w[1]].kind \in ParentKinds[w[2]]
<1>1. \E f : f = Walk(directory, f)
  BY WalkExists
<1>2. Covers = Walk(directory, Covers)
  BY <1>1, CoversWalk DEF CoversOf
<1>3. Covers[w] = OneStep(directory, Covers, w)
  BY <1>2 DEF Walk
<1> QED BY <1>3 DEF OneStep

-----------------------------------------------------------------------------
(* The three parts of DirectoryTellsProposals *)

CreatedByProposals ==
  \A u \in Proposals : (directory[u] # Null) <=> (AppliedTo(u, "ORG_UNIT_CREATE") # {})

CodesDiffer ==
  \A u, v \in Units :
    (u # v /\ directory[u] # Null /\ directory[v] # Null) => directory[u].code # directory[v].code

FoundedNames(u) == IF u \in Founded THEN Len(InitialDirectory[u].names) ELSE 0

FoundedParents(u) == IF u \in Founded THEN Len(InitialDirectory[u].parents) ELSE 0

NamedBy(u) == AppliedTo(u, "ORG_UNIT_CREATE") \cup AppliedTo(u, "ORG_UNIT_RENAME")

PlacedBy(u) == AppliedTo(u, "ORG_UNIT_CREATE") \cup AppliedTo(u, "ORG_UNIT_MOVE_TO_CLUSTER")

Entered(u) ==
  \A p \in AppliedTo(u, "ORG_UNIT_RENAME") : \E n \in DOMAIN directory[u].names :
     /\ directory[u].names[n].value = proposals[p].change.name
     /\ directory[u].names[n].from = proposals[p].change.date

Counted(u) ==
  /\ Len(directory[u].names) = FoundedNames(u) + Cardinality(NamedBy(u))
  /\ Len(directory[u].parents) = FoundedParents(u) + Cardinality(PlacedBy(u))

HistoriesTell == \A u \in Units : directory[u] # Null => Counted(u) /\ Entered(u)

LEMMA TellingParts ==
  DirectoryTellsProposals <=> CreatedByProposals /\ CodesDiffer /\ HistoriesTell
<1> DEFINE Body(u) ==
      LET founded == IF u \in Founded THEN InitialDirectory[u] ELSE [names |-> <<>>, parents |-> <<>>]
          created == AppliedTo(u, "ORG_UNIT_CREATE")
          renamed == AppliedTo(u, "ORG_UNIT_RENAME")
          moved == AppliedTo(u, "ORG_UNIT_MOVE_TO_CLUSTER")
      IN  /\ Len(directory[u].names) = Len(founded.names) + Cardinality(created \cup renamed)
          /\ Len(directory[u].parents) = Len(founded.parents) + Cardinality(created \cup moved)
          /\ \A p \in renamed : \E n \in DOMAIN directory[u].names :
               LET c == proposals[p].change
               IN  directory[u].names[n].value = c.name /\ directory[u].names[n].from = c.date
<1>1. DirectoryTellsProposals <=>
        CreatedByProposals /\ CodesDiffer /\ \A u \in Units : directory[u] # Null => Body(u)
  BY DEF DirectoryTellsProposals, CreatedByProposals, CodesDiffer
<1>2. ASSUME NEW u \in Units
      PROVE  Body(u) <=> Counted(u) /\ Entered(u)
  <2> DEFINE founded == IF u \in Founded THEN InitialDirectory[u] ELSE [names |-> <<>>, parents |-> <<>>]
  <2>1. Len(founded.names) = FoundedNames(u) /\ Len(founded.parents) = FoundedParents(u)
    BY DEF FoundedNames, FoundedParents
  <2> QED BY <2>1 DEF Counted, Entered, NamedBy, PlacedBy
<1> HIDE DEF Body
<1> QED BY <1>1, <1>2 DEF HistoriesTell

-----------------------------------------------------------------------------
(* The initial states *)

LEMMA OrgInitially == Init => OrgInv
<1> SUFFICES ASSUME Init PROVE OrgInv
  OBVIOUS
<1> USE ConstantsAssumption
<1>1. TypeOK
  BY DEF Init, TypeOK, Units
<1>2. Slots /\ Writing
  BY DEF Init, Slots, Writing, HoldsRights, HoldsDirectory
<1>3. ApplyFollowsPreview /\ Numbered /\ Previewed /\ PreviewStillHolds
  BY DEF Init, ApplyFollowsPreview, Numbered, Previewed, PreviewStillHolds
<1>4. \A u \in Units : /\ u \in Founded => directory[u] = InitialDirectory[u] /\ directory[u] # Null
                       /\ u \notin Founded => directory[u] = Null
  BY DEF Init, Units
<1>5. \A u, op : AppliedTo(u, op) = {}
  BY DEF Init, AppliedTo
<1>6. DirectoryTellsProposals
  <2>1. \A u \in Proposals : directory[u] = Null
    BY <1>4 DEF Units
  <2>2. \A u, v \in Units :
          (u # v /\ directory[u] # Null /\ directory[v] # Null) => directory[u].code # directory[v].code
    BY <1>4, FoundedAssumption
  <2>3. ASSUME NEW u \in Units, directory[u] # Null
        PROVE  /\ u \in Founded
               /\ Len(directory[u].names) = Len(InitialDirectory[u].names) + 0
               /\ Len(directory[u].parents) = Len(InitialDirectory[u].parents) + 0
    <3>1. u \in Founded /\ directory[u] = InitialDirectory[u]
      BY <1>4, <2>3
    <3>2. InitialDirectory[u] \in Unit
      BY <3>1
    <3>3. InitialDirectory[u].names \in Spans(Names) /\ InitialDirectory[u].parents \in Spans(Units \cup {Null})
      BY <3>2 DEF Unit
    <3>4. Len(InitialDirectory[u].names) \in Nat /\ Len(InitialDirectory[u].parents) \in Nat
      BY <3>3, LenProperties DEF Spans
    <3> QED BY <3>1, <3>4
  <2>4. Cardinality({} \cup {}) = 0
    BY FS_EmptySet
  <2> QED BY <1>5, <2>1, <2>2, <2>3, <2>4 DEF DirectoryTellsProposals
<1>7. Settled
  <2> SUFFICES ASSUME NEW u \in Units, directory[u] # Null
               PROVE  /\ Unbroken(directory[u].names, directory[u].from)
                      /\ Unbroken(directory[u].parents, directory[u].from)
                      /\ \A n \in DOMAIN directory[u].parents :
                           Bears(directory, directory[u].parents[n].value, directory[u].kind,
                                 directory[u].parents[n].from)
    BY DEF Settled
  <2>1. u \in Founded /\ directory[u] = InitialDirectory[u]
    BY <1>4
  <2>2. ASSUME NEW n \in DOMAIN InitialDirectory[u].parents
        PROVE  Bears(directory, InitialDirectory[u].parents[n].value, InitialDirectory[u].kind,
                     InitialDirectory[u].parents[n].from)
    <3>1. /\ InitialDirectory[u].parents[n].value \in Founded \cup {Null}
          /\ Bears(InitialDirectory, InitialDirectory[u].parents[n].value, InitialDirectory[u].kind,
                   InitialDirectory[u].parents[n].from)
      BY <2>1, FoundedAssumption
    <3>2. \A v \in Founded : directory[v] = InitialDirectory[v]
      BY <1>4 DEF Units
    <3> QED BY <3>1, <3>2 DEF Bears
  <2> QED BY <2>1, <2>2, FoundedAssumption
<1> QED BY <1>1, <1>2, <1>3, <1>6, <1>7 DEF OrgInv

-----------------------------------------------------------------------------
(* Steps that leave the tables alone *)

LEMMA TablesStay ==
  ASSUME OrgInv, UNCHANGED tables
  PROVE  /\ ApplyFollowsPreview' /\ Numbered' /\ Previewed'
         /\ PreviewStillHolds' /\ DirectoryTellsProposals' /\ Settled'
<1>1. /\ directory' = directory /\ revision' = revision /\ proposals' = proposals
      /\ audit' = audit
  BY DEF tables
<1>2. ApplyFollowsPreview' /\ Numbered' /\ Previewed'
  BY <1>1 DEF OrgInv, ApplyFollowsPreview, Numbered, Unapplied, Previewed
<1>3. PreviewStillHolds'
  <2> SUFFICES ASSUME NEW id \in Proposals, proposals[id] # Null, proposals[id].status = "PREVIEW"
               PROVE  /\ proposals[id].preview.of = proposals[id].change
                      /\ proposals[id].preview.base = revision =>
                           /\ proposals[id].preview.before = directory[proposals[id].target]
                           /\ Valid(proposals[id], 0)'
    BY <1>1 DEF PreviewStillHolds
  <2>1. Covers' = Covers
    BY <1>1, CoversStays
  <2>2. Valid(proposals[id], 0)' <=> Valid(proposals[id], 0)
    BY <1>1, <2>1 DEF Valid, Placed
  <2>3. /\ proposals[id].preview.of = proposals[id].change
        /\ proposals[id].preview.base = revision =>
             /\ proposals[id].preview.before = directory[proposals[id].target]
             /\ Valid(proposals[id], 0)
    BY DEF OrgInv, PreviewStillHolds
  <2> QED BY <2>2, <2>3
<1>4. DirectoryTellsProposals'
  <2>1. \A u, op : AppliedTo(u, op)' = AppliedTo(u, op)
    BY <1>1 DEF AppliedTo
  <2>2. CreatedByProposals' /\ CodesDiffer'
    BY <1>1, <2>1, TellingParts DEF OrgInv, CreatedByProposals, CodesDiffer
  <2>3. HistoriesTell'
    BY <1>1, <2>1, TellingParts
       DEF OrgInv, HistoriesTell, Counted, Entered, NamedBy, PlacedBy, FoundedNames, FoundedParents
  <2>4. DirectoryTellsProposals' <=> CreatedByProposals' /\ CodesDiffer' /\ HistoriesTell'
    BY TellingParts, PTL
  <2> QED BY <2>2, <2>3, <2>4
<1>5. Settled'
  BY <1>1 DEF OrgInv, Settled
<1> QED BY <1>2, <1>3, <1>4, <1>5

LEMMA FitsStay ==
  ASSUME NEW r \in Requests, Fits(r), UNCHANGED <<tables, rights>>,
         request'[r] = request[r], pending'[r] = pending[r]
  PROVE  Fits(r)'
<1> DEFINE q == request[r]
           w == pending[r]
           p == proposals[pending[r].id]
<1>1. directory' = directory /\ revision' = revision /\ proposals' = proposals
  BY DEF tables
<1>2. MayChange(request[r])'
  BY <1>1 DEF Fits, MayChange
<1>3. Covers' = Covers
  BY <1>1, CoversStays
<1>4. q' = q /\ w' = w /\ p' = p
  BY <1>1
<1>5. Valid(p, 0)' <=> Valid(p, 0)
  BY <1>1, <1>3, <1>4 DEF Valid, Placed
<1>6. Previewing(q, p, w.proposal)' <=> Previewing(q, p, w.proposal)
  BY <1>1, <1>4, <1>5 DEF Previewing
<1>7. Applying(q, w, p, w.proposal)' <=> Applying(q, w, p, w.proposal)
  BY <1>1, <1>4, <1>5 DEF Applying
<1>8. Fitting(q, w, p)' <=> Fitting(q, w, p)
  BY <1>1, <1>4, <1>6, <1>7 DEF Fitting
<1> QED BY <1>2, <1>8 DEF Fits

-----------------------------------------------------------------------------
(* The steps of a command up to its end *)

\* What a step keeps of the slots it does not touch.
LEMMA OthersKeep ==
  ASSUME OrgInv, NEW r \in Requests, UNCHANGED <<tables, rights>>,
         \A o \in Requests \ {r} : pc'[o] = pc[o] /\ request'[o] = request[o]
                                     /\ pending'[o] = pending[o] /\ reply'[o] = reply[o]
  PROVE  \A o \in Requests \ {r} :
           /\ pc'[o] # "idle" => WellSent(request[o])'
           /\ pc'[o] = "applied" => pending'[o] # Null /\ Fits(o)'
           /\ pc'[o] # "replied" => reply'[o] = Null
           /\ HoldsRights(o)' => HoldsRights(o) /\ MayAct(request[o])'
           /\ HoldsDirectory(o)' => HoldsDirectory(o)
<1> TAKE o \in Requests \ {r}
<1>1. pc'[o] # "idle" => WellSent(request[o])'
  BY DEF OrgInv, Slots, WellSent, tables
<1>2. pc'[o] = "applied" => pending'[o] # Null /\ Fits(o)'
  BY FitsStay DEF OrgInv, Slots, Writing
<1>3. pc'[o] # "replied" => reply'[o] = Null
  BY DEF OrgInv, Slots
<1>4. HoldsRights(o)' => HoldsRights(o) /\ MayAct(request[o])'
  BY DEF OrgInv, Slots, HoldsRights, MayAct
<1>5. HoldsDirectory(o)' => HoldsDirectory(o)
  BY DEF HoldsDirectory
<1> QED BY <1>1, <1>2, <1>3, <1>4, <1>5

\* What there is to say of the slot that takes the step.
LEMMA SlotsFrom ==
  ASSUME OrgInv, NEW r \in Requests, UNCHANGED <<tables, rights>>,
         \A o \in Requests \ {r} : pc'[o] = pc[o] /\ request'[o] = request[o]
                                     /\ pending'[o] = pending[o] /\ reply'[o] = reply[o],
         pc'[r] # "idle" => WellSent(request[r])',
         pc'[r] = "applied" => pending'[r] # Null /\ Fits(r)',
         pc'[r] # "replied" => reply'[r] = Null,
         HoldsRights(r)' => MayAct(request[r])',
         HoldsDirectory(r)' =>
           HoldsDirectory(r) \/ \A o \in Requests \ {r} : ~HoldsDirectory(o)
  PROVE  Slots' /\ Writing'
<1>1. \A o \in Requests : pc'[o] # "idle" => WellSent(request[o])'
  BY OthersKeep
<1>2. \A o \in Requests : pc'[o] = "applied" => pending'[o] # Null /\ Fits(o)'
  BY OthersKeep
<1>3. \A o \in Requests : pc'[o] # "replied" => reply'[o] = Null
  BY OthersKeep
<1>4. \A o \in Requests : HoldsRights(o)' => MayAct(request[o])'
  BY OthersKeep
<1>5. \A a, b \in Requests : HoldsDirectory(a)' /\ HoldsDirectory(b)' => a = b
  BY OthersKeep DEF OrgInv, Slots
<1> QED BY <1>1, <1>2, <1>3, <1>4, <1>5 DEF Slots, Writing

LEMMA AnswerKeeps ==
  ASSUME OrgInv, NEW r \in Requests, NEW code \in Answers, Answer(r, code), UNCHANGED tables,
         pc[r] # "idle"
  PROVE  TypeOK' /\ Slots' /\ Writing'
<1> USE DEF Answer
<1>1. TypeOK'
  BY DEF OrgInv, TypeOK, tables
<1>2. /\ \A o \in Requests \ {r} : pc'[o] = pc[o] /\ request'[o] = request[o]
                                     /\ pending'[o] = pending[o] /\ reply'[o] = reply[o]
      /\ pc'[r] = "replied"
  BY DEF OrgInv, TypeOK
<1>3. WellSent(request[r])'
  BY DEF OrgInv, Slots, WellSent, tables
<1> QED BY <1>1, <1>2, <1>3, SlotsFrom DEF HoldsRights, HoldsDirectory

LEMMA SendKeeps ==
  ASSUME OrgInv, NEW r \in Requests, Send(r)
  PROVE  TypeOK' /\ Slots' /\ Writing'
<1> USE DEF Send
<1>1. PICK q : q \in Request /\ request' = [request EXCEPT ![r] = q] /\ WellSent(q)
  <2> USE ConstantsAssumption
  <2>1. CASE \E id \in Proposals :
          /\ proposals[id] # Null
          /\ proposals[id].version < MaxVersion
          /\ \E q \in RequestsFor(id) : request' = [request EXCEPT ![r] = q]
    <3>1. PICK id \in Proposals :
            /\ proposals[id] # Null
            /\ \E q \in RequestsFor(id) : request' = [request EXCEPT ![r] = q]
      BY <2>1
    <3>2. PICK q \in RequestsFor(id) : request' = [request EXCEPT ![r] = q]
      BY <3>1
    <3>3. proposals[id] \in Proposal
      BY <3>1 DEF OrgInv, TypeOK
    <3>4. proposals[id].version \in Nat /\ proposals[id].token \in Token \cup {Null}
      BY <3>3 DEF Proposal
    <3>5. q \in Request
      BY <3>4 DEF RequestsFor, Request
    <3>6. q.id = id /\ q.action \in ClientActions \ {"create"} /\ (q.action = "edit" => q.change # Null)
      BY DEF RequestsFor
    <3>7. WellSent(q)
      BY <3>1, <3>5, <3>6 DEF WellSent, Units
    <3> QED BY <3>2, <3>5, <3>7
  <2>2. CASE \E q \in CreateRequests : request' = [request EXCEPT ![r] = q]
    <3>1. PICK q \in CreateRequests : request' = [request EXCEPT ![r] = q]
      BY <2>2
    <3>2. q \in Request /\ q.action = "create" /\ q.id = Null /\ q.change \in Changes
      BY DEF CreateRequests, Request, Actions
    <3> QED BY <3>1, <3>2 DEF WellSent
  <2> QED BY <2>1, <2>2
<1>2. TypeOK'
  BY <1>1 DEF OrgInv, TypeOK, tables
<1>3. /\ \A o \in Requests \ {r} : pc'[o] = pc[o] /\ request'[o] = request[o]
                                     /\ pending'[o] = pending[o] /\ reply'[o] = reply[o]
      /\ pc'[r] = "sent" /\ request'[r] = q /\ reply'[r] = Null
  BY <1>1 DEF OrgInv, TypeOK, Slots
<1>4. WellSent(request[r])'
  BY <1>1, <1>3 DEF WellSent, tables
<1> QED BY <1>2, <1>3, <1>4, SlotsFrom DEF HoldsRights, HoldsDirectory

LEMMA BeginKeeps ==
  ASSUME OrgInv, NEW r \in Requests, Begin(r)
  PROVE  TypeOK' /\ Slots' /\ Writing'
<1>1. CASE Answer(r, "REFUSED")
  BY <1>1, AnswerKeeps DEF Begin, Answers
<1>2. CASE /\ MayAct(request[r])
           /\ request[r].actor \notin lapsed
           /\ pc' = [pc EXCEPT ![r] = "authorized"]
           /\ start' = [start EXCEPT ![r] = clock]
           /\ UNCHANGED <<rights, lapsed, clock, request, pending, reply>>
  <2> USE DEF Begin
  <2>1. TypeOK'
    BY <1>2 DEF OrgInv, TypeOK, tables
  <2>2. /\ \A o \in Requests \ {r} : pc'[o] = pc[o] /\ request'[o] = request[o]
                                       /\ pending'[o] = pending[o] /\ reply'[o] = reply[o]
        /\ pc'[r] = "authorized" /\ reply'[r] = Null
    BY <1>2 DEF OrgInv, TypeOK, Slots
  <2>3. WellSent(request[r])' /\ MayAct(request[r])'
    BY <1>2 DEF OrgInv, Slots, WellSent, MayAct, tables
  <2> QED BY <1>2, <2>1, <2>2, <2>3, SlotsFrom DEF HoldsDirectory
<1> QED BY <1>1, <1>2 DEF Begin

LEMMA LockKeeps ==
  ASSUME OrgInv, NEW r \in Requests, Lock(r)
  PROVE  TypeOK' /\ Slots' /\ Writing'
<1> USE DEF Lock
<1>1. TypeOK'
  BY DEF OrgInv, TypeOK, tables
<1>2. /\ \A o \in Requests \ {r} : pc'[o] = pc[o] /\ request'[o] = request[o]
                                     /\ pending'[o] = pending[o] /\ reply'[o] = reply[o]
      /\ pc'[r] = "locked" /\ reply'[r] = Null
  BY DEF OrgInv, TypeOK, Slots
<1>3. WellSent(request[r])' /\ MayAct(request[r])'
  BY DEF OrgInv, Slots, WellSent, MayAct, tables, HoldsRights
<1> QED BY <1>1, <1>2, <1>3, SlotsFrom

LEMMA ReceiveKeeps ==
  ASSUME OrgInv, NEW r \in Requests, Receive(r)
  PROVE  TypeOK' /\ Slots' /\ Writing'
<1> USE DEF Receive
<1>1. TypeOK'
  BY DEF OrgInv, TypeOK, tables
<1>2. /\ \A o \in Requests \ {r} : pc'[o] = pc[o] /\ request'[o] = request[o]
                                     /\ pending'[o] = pending[o] /\ reply'[o] = reply[o]
      /\ pc'[r] = "idle" /\ reply'[r] = Null
  BY DEF OrgInv, TypeOK
<1> QED BY <1>1, <1>2, SlotsFrom DEF HoldsRights, HoldsDirectory

LEMMA RetryKeeps ==
  ASSUME OrgInv, NEW r \in Requests, Retry(r)
  PROVE  TypeOK' /\ Slots' /\ Writing'
<1> USE DEF Retry
<1>1. TypeOK'
  BY DEF OrgInv, TypeOK, tables
<1>2. /\ \A o \in Requests \ {r} : pc'[o] = pc[o] /\ request'[o] = request[o]
                                     /\ pending'[o] = pending[o] /\ reply'[o] = reply[o]
      /\ pc'[r] = "sent" /\ reply'[r] = Null
  BY DEF OrgInv, TypeOK
<1>3. WellSent(request[r])'
  BY DEF OrgInv, Slots, WellSent, tables
<1> QED BY <1>1, <1>2, <1>3, SlotsFrom DEF HoldsRights, HoldsDirectory

\* The rows of the users change only while no transaction has read them.
LEMMA RowsChangeKeeps ==
  ASSUME OrgInv, NEW u \in Revocable, RevokeRights(u) \/ RegainRights(u)
  PROVE  TypeOK' /\ Slots' /\ Writing'
<1> USE DEF RevokeRights, RegainRights
<1>1. TypeOK'
  <2>1. rights' \in [Users -> SUBSET Permissions]
    <3>1. rights \in [Users -> SUBSET Permissions]
      BY DEF OrgInv, TypeOK
    <3>2. InitialRights[u] \in SUBSET Permissions
      BY ConstantsAssumption
    <3>3. PICK P \in SUBSET Permissions : rights' = [rights EXCEPT ![u] = P]
      BY <3>2
    <3> QED BY <3>1, <3>3
  <2>2. lapsed' \subseteq Users
    BY DEF OrgInv, TypeOK
  <2> QED BY <2>1, <2>2 DEF OrgInv, TypeOK, tables
<1>2. \A r \in Requests : pc[r] \notin {"authorized", "locked", "applied"}
  BY DEF HoldsRights
<1>3. pc' = pc /\ request' = request /\ reply' = reply /\ proposals' = proposals
  BY DEF tables
<1>4. Slots'
  BY <1>2, <1>3 DEF OrgInv, Slots, WellSent, HoldsRights, HoldsDirectory
<1> QED BY <1>1, <1>2, <1>3, <1>4 DEF Writing

\* Time goes by, for previews and for rights.
LEMMA TimeKeeps ==
  ASSUME OrgInv, UNCHANGED <<tables, rights, pc, request, pending, reply>>, clock' \in Nat,
         lapsed' \subseteq Users, start' = start
  PROVE  TypeOK' /\ Slots' /\ Writing'
<1>1. TypeOK'
  BY DEF OrgInv, TypeOK, tables
<1>2. Slots'
  BY DEF OrgInv, Slots, WellSent, HoldsRights, HoldsDirectory, MayAct, tables
<1>3. Writing'
  BY FitsStay DEF OrgInv, Writing
<1> QED BY <1>1, <1>2, <1>3

-----------------------------------------------------------------------------
(* What a command writes *)

\* A history with one more row.
LEMMA SucceededLength ==
  ASSUME NEW S, NEW spans \in Spans(S), NEW value \in S, NEW d \in Dates
  PROVE  /\ Succeeded(spans, value, d) \in Spans(S)
         /\ Len(Succeeded(spans, value, d)) = Len(spans) + 1
         /\ Len(spans) \in Nat
         /\ DOMAIN spans = 1 .. Len(spans)
         /\ DOMAIN Succeeded(spans, value, d) = 1 .. Len(spans) + 1
<1> DEFINE Span == [value: S, from: Dates, to: Dates \cup {Null}]
           closed == [n \in DOMAIN spans |->
                        IF spans[n].to = Null THEN [spans[n] EXCEPT !.to = d] ELSE spans[n]]
           more == Append(closed, Opened(value, d))
<1>1. spans \in Seq(Span)
  BY DEF Spans
<1>2. Len(spans) \in Nat /\ DOMAIN spans = 1 .. Len(spans)
  BY <1>1, LenProperties
<1>3. \A n \in DOMAIN spans : closed[n] \in Span
  BY SpanAt
<1>4. closed \in Seq(Span) /\ Len(closed) = Len(spans)
  BY <1>2, <1>3
<1>5. Opened(value, d) \in Span
  BY DEF Opened
<1>6. more \in Seq(Span) /\ Len(more) = Len(spans) + 1
  BY <1>4, <1>5, AppendProperties
<1>7. DOMAIN more = 1 .. Len(spans) + 1
  BY <1>6, LenProperties
<1>8. more = Succeeded(spans, value, d)
  BY DEF Succeeded
<1> HIDE DEF more
<1> QED BY <1>2, <1>6, <1>7, <1>8 DEF Spans

LEMMA SucceededRows ==
  ASSUME NEW S, NEW spans \in Spans(S), NEW value \in S, NEW d \in Dates
  PROVE  /\ \A n \in DOMAIN spans :
              /\ Succeeded(spans, value, d)[n].value = spans[n].value
              /\ Succeeded(spans, value, d)[n].from = spans[n].from
              /\ Succeeded(spans, value, d)[n].to = IF spans[n].to = Null THEN d ELSE spans[n].to
         /\ Succeeded(spans, value, d)[Len(spans) + 1] = [value |-> value, from |-> d, to |-> Null]
<1> DEFINE Span == [value: S, from: Dates, to: Dates \cup {Null}]
           closed == [n \in DOMAIN spans |->
                        IF spans[n].to = Null THEN [spans[n] EXCEPT !.to = d] ELSE spans[n]]
           more == Append(closed, Opened(value, d))
<1>1. spans \in Seq(Span)
  BY DEF Spans
<1>2. Len(spans) \in Nat /\ DOMAIN spans = 1 .. Len(spans)
  BY <1>1, LenProperties
<1>3. \A n \in DOMAIN spans : spans[n] \in Span
  BY SpanAt
<1>4. closed \in Seq(Span) /\ Len(closed) = Len(spans)
  BY <1>2, <1>3
<1>5. Opened(value, d) \in Span
  BY DEF Opened
<1>6. /\ \A n \in 1 .. Len(spans) : more[n] = closed[n]
      /\ more[Len(spans) + 1] = Opened(value, d)
  BY <1>4, <1>5, AppendProperties
<1>7. more = Succeeded(spans, value, d)
  BY DEF Succeeded
<1>8. \A n \in DOMAIN spans :
         /\ more[n].value = spans[n].value
         /\ more[n].from = spans[n].from
         /\ more[n].to = IF spans[n].to = Null THEN d ELSE spans[n].to
  BY <1>2, <1>3, <1>6
<1> HIDE DEF more
<1> QED BY <1>6, <1>7, <1>8 DEF Opened

\* A validated change leaves a whole unit.
LEMMA AfterIsUnit ==
  ASSUME TypeOK, NEW p \in Proposal, Valid(p, 0)
  PROVE  After(p.change, directory[p.target]) \in Unit
<1> DEFINE c == p.change
           unit == directory[p.target]
<1>1. c \in Change /\ p.target \in Units
  BY ConstantsAssumption DEF Proposal
<1>2. unit \in Unit \cup {Null}
  BY <1>1 DEF TypeOK
<1>3. c.date \in Dates
  BY <1>1 DEF Valid, Change
<1>4. CASE c.op = "ORG_UNIT_CREATE"
  <2>1. c.name \in Names /\ c.code \in Codes /\ c.kind \in Kinds /\ c.parent \in Units \cup {Null}
    BY <1>1, <1>4 DEF Valid, Change
  <2>2. /\ <<Opened(c.name, c.date)>> \in Spans(Names)
        /\ <<Opened(c.parent, c.date)>> \in Spans(Units \cup {Null})
    BY <1>3, <2>1 DEF Spans, Opened
  <2> QED BY <1>3, <1>4, <2>1, <2>2 DEF After, Unit
<1>5. CASE c.op = "ORG_UNIT_RENAME"
  <2>1. c.name \in Names /\ unit \in Unit
    BY <1>1, <1>2, <1>5 DEF Valid, Change
  <2>2. Succeeded(unit.names, c.name, c.date) \in Spans(Names)
    BY <1>3, <2>1, SucceededLength DEF Unit
  <2> HIDE DEF c, unit
  <2>3. [unit EXCEPT !.names = Succeeded(@, c.name, c.date)] \in Unit
    BY <2>1, <2>2 DEF Unit
  <2> QED BY <1>5, <2>3 DEF After, c, unit
<1>6. CASE c.op = "ORG_UNIT_MOVE_TO_CLUSTER"
  <2>1. c.parent \in Units \cup {Null} /\ unit \in Unit
    BY <1>1, <1>2, <1>6 DEF Valid, Change
  <2>2. Succeeded(unit.parents, c.parent, c.date) \in Spans(Units \cup {Null})
    BY <1>3, <2>1, SucceededLength DEF Unit
  <2> HIDE DEF c, unit
  <2>3. [unit EXCEPT !.parents = Succeeded(@, c.parent, c.date)] \in Unit
    BY <2>1, <2>2 DEF Unit
  <2> QED BY <1>6, <2>3 DEF After, c, unit
<1> QED BY <1>1, <1>4, <1>5, <1>6 DEF Change, ChangeOps

\* What is possible at a day of now is possible, the date apart.
LEMMA ValidOnceThenEver ==
  ASSUME NEW p \in Proposal, NEW today, Valid(p, today)
  PROVE  Valid(p, 0)
<1>1. p.change \in Change
  BY ConstantsAssumption DEF Proposal
<1>2. p.change.date \in Nat
  BY <1>1, ConstantsAssumption DEF Valid, Change
<1> QED BY <1>2 DEF Valid

LEMMA WriteKeeps ==
  ASSUME OrgInv, NEW r \in Requests, pc[r] = "locked", MayChange(request[r]),
         NEW w \in Writes, Fitting(request[r], w, proposals[w.id]),
         pending' = [pending EXCEPT ![r] = w], pc' = [pc EXCEPT ![r] = "applied"],
         UNCHANGED <<tables, rights, lapsed, clock, request, start, reply>>
  PROVE  TypeOK' /\ Slots' /\ Writing'
<1> DEFINE q == request[r]
           p == proposals[w.id]
<1>1. TypeOK'
  BY DEF OrgInv, TypeOK, tables
<1>2. /\ \A o \in Requests \ {r} : pc'[o] = pc[o] /\ request'[o] = request[o]
                                     /\ pending'[o] = pending[o] /\ reply'[o] = reply[o]
      /\ pc'[r] = "applied" /\ reply'[r] = Null /\ pending'[r] = w /\ w # Null
  BY ConstantsAssumption DEF OrgInv, TypeOK, Slots
<1>3. WellSent(request[r])' /\ MayAct(request[r])'
  BY DEF OrgInv, Slots, WellSent, MayAct, tables, HoldsRights
<1>4. directory' = directory /\ revision' = revision /\ proposals' = proposals
  BY DEF tables
<1>5. Covers' = Covers
  BY <1>4, CoversStays
<1>6. q' = q /\ p' = p
  BY <1>4
<1>7. Valid(p, 0)' <=> Valid(p, 0)
  BY <1>4, <1>5, <1>6 DEF Valid, Placed
<1>8. Previewing(q, p, w.proposal)' <=> Previewing(q, p, w.proposal)
  BY <1>4, <1>6, <1>7 DEF Previewing
<1>9. Applying(q, w, p, w.proposal)' <=> Applying(q, w, p, w.proposal)
  BY <1>4, <1>6, <1>7 DEF Applying
<1>10. Fitting(q, w, p)'
  BY <1>4, <1>6, <1>8, <1>9 DEF Fitting
<1>11. Fitting(request[r], pending[r], proposals[pending[r].id])'
  BY <1>2, <1>10
<1>12. MayChange(request[r])'
  BY <1>4 DEF MayChange
<1>13. Fits(r)'
  BY <1>11, <1>12 DEF Fits
<1> QED BY <1>1, <1>2, <1>3, <1>13, SlotsFrom DEF HoldsDirectory

\* The proposal a running command names.
LEMMA RunsOn ==
  ASSUME OrgInv, NEW r \in Requests, NEW action \in Actions, Runs(r, action)
  PROVE  /\ pc[r] = "locked" /\ MayChange(request[r])
         /\ request[r] \in Request /\ request[r].action = action
         /\ request[r].actor \in Users
         /\ action = "create" => request[r].id = Null
         /\ action # "create" =>
              /\ request[r].id \in Proposals
              /\ proposals[request[r].id] \in Proposal
              /\ proposals[request[r].id].status # "APPLIED"
         /\ action \in {"create", "edit"} => request[r].change \in Changes
<1>1. /\ pc[r] = "locked" /\ MayChange(request[r]) /\ request[r].action = action
      /\ request[r].id # Null => proposals[request[r].id].status # "APPLIED"
  BY DEF Runs, Fresh
<1>2. WellSent(request[r])
  BY <1>1 DEF OrgInv, Slots
<1>3. request[r] \in Request
  BY <1>2 DEF WellSent
<1>4. /\ request[r].actor \in Users /\ request[r].id \in Proposals \cup {Null}
      /\ request[r].change \in Changes \cup {Null}
  BY <1>3 DEF Request
<1>5. action # "create" => request[r].id \in Proposals /\ proposals[request[r].id] # Null
  BY <1>1, <1>2, <1>4 DEF WellSent
<1>6. action # "create" => proposals[request[r].id] \in Proposal
  BY <1>5 DEF OrgInv, TypeOK
<1> QED BY <1>1, <1>2, <1>3, <1>4, <1>5, <1>6 DEF WellSent

LEMMA CreateKeeps ==
  ASSUME OrgInv, NEW r \in Requests, CreateOrgChange(r)
  PROVE  TypeOK' /\ Slots' /\ Writing'
<1> DEFINE q == request[r]
           c == request[r].change
<1>1. Runs(r, "create")
  BY DEF CreateOrgChange
<1>2. /\ pc[r] = "locked" /\ MayChange(q) /\ q.action = "create" /\ q.actor \in Users
      /\ c \in Changes
  BY <1>1, RunsOn DEF Actions
<1>3. PICK id \in Proposals :
        /\ proposals[id] = Null
        /\ Write(r, id,
                 [target |-> Target(id, c), change |-> c,
                  version |-> 1, status |-> "DRAFT", token |-> Null, preview |-> Null], Null, 0)
  BY DEF CreateOrgChange
<1> DEFINE n == [target |-> Target(id, c), change |-> c,
                 version |-> 1, status |-> "DRAFT", token |-> Null, preview |-> Null]
           written == [id |-> id, proposal |-> n, unit |-> Null, statements |-> 0,
                       entry |-> [action |-> q.action, actor |-> q.actor, version |-> n.version]]
<1>4. /\ pending' = [pending EXCEPT ![r] = written] /\ pc' = [pc EXCEPT ![r] = "applied"]
      /\ UNCHANGED <<tables, rights, lapsed, clock, request, start, reply>>
  BY <1>3 DEF Write
<1>5. c \in Change
  BY <1>2, ConstantsAssumption
<1>6. Target(id, c) \in Units
  BY <1>5 DEF Target, Units, Change
<1>7. n \in Proposal
  BY <1>2, <1>6 DEF Proposal
<1>8. written \in Writes
  BY <1>2, <1>7 DEF Writes, Entry, Actions
<1>9. Fitting(q, written, proposals[written.id])
  BY <1>2, <1>3 DEF Fitting
<1> HIDE DEF written
<1>10. PICK w \in Writes : w = written
  BY <1>8
<1> QED BY <1>2, <1>4, <1>9, <1>10, WriteKeeps

\* A proposal with some of its fields replaced.
Statuses == {"DRAFT", "PREVIEW", "APPLIED"}
Tokens == Token \cup {Null}
Pictures == Preview \cup {Null}

With(p, v, st, tok, pv) ==
  [p EXCEPT !.version = v, !.status = st, !.token = tok, !.preview = pv]

LEMMA ProposalWith ==
  ASSUME NEW p \in Proposal, NEW v \in Nat, NEW st \in Statuses, NEW tok \in Tokens, NEW pv \in Pictures
  PROVE  LET n == With(p, v, st, tok, pv)
         IN  /\ n \in Proposal
             /\ n.version = v /\ n.status = st /\ n.preview = pv
             /\ n.target = p.target /\ n.change = p.change
<1> DEFINE n1 == [p EXCEPT !.version = v]
           n2 == [n1 EXCEPT !.status = st]
           n3 == [n2 EXCEPT !.token = tok]
           n4 == [n3 EXCEPT !.preview = pv]
<1>1. /\ n1 \in Proposal
      /\ n1.version = v /\ n1.target = p.target /\ n1.change = p.change
  BY DEF Proposal, Statuses, Tokens, Pictures
<1>5. n4 = With(p, v, st, tok, pv)
  BY DEF With
<1> HIDE DEF n1
<1>2. /\ n2 \in Proposal
      /\ n2.version = v /\ n2.status = st /\ n2.target = p.target /\ n2.change = p.change
  BY <1>1 DEF Proposal, Statuses, Tokens, Pictures
<1> HIDE DEF n2
<1>3. /\ n3 \in Proposal
      /\ n3.version = v /\ n3.status = st /\ n3.target = p.target /\ n3.change = p.change
  BY <1>2 DEF Proposal, Statuses, Tokens, Pictures
<1> HIDE DEF n3
<1>4. /\ n4 \in Proposal
      /\ n4.version = v /\ n4.status = st /\ n4.preview = pv
      /\ n4.target = p.target /\ n4.change = p.change
  BY <1>3 DEF Proposal, Statuses, Tokens, Pictures
<1> HIDE DEF n4
<1> QED BY <1>4, <1>5

LEMMA EditKeeps ==
  ASSUME OrgInv, NEW r \in Requests, EditOrgChange(r)
  PROVE  TypeOK' /\ Slots' /\ Writing'
<1> DEFINE q == request[r]
           p == proposals[request[r].id]
           n == [p EXCEPT !.change = q.change, !.version = @ + 1, !.status = "DRAFT",
                          !.token = Null, !.preview = Null]
           written == [id |-> q.id, proposal |-> n, unit |-> Null, statements |-> 0,
                       entry |-> [action |-> q.action, actor |-> q.actor, version |-> n.version]]
<1>1. Runs(r, "edit") /\ MayEdit(q)
  BY DEF EditOrgChange
<1>2. /\ pc[r] = "locked" /\ MayChange(q) /\ q.action = "edit" /\ q.actor \in Users
      /\ q.id \in Proposals /\ p \in Proposal /\ p.status # "APPLIED" /\ q.change \in Changes
  BY <1>1, RunsOn DEF Actions
<1>3. /\ pending' = [pending EXCEPT ![r] = written] /\ pc' = [pc EXCEPT ![r] = "applied"]
      /\ UNCHANGED <<tables, rights, lapsed, clock, request, start, reply>>
  BY DEF EditOrgChange, Write
<1>4. /\ n \in Proposal
      /\ n.version = p.version + 1 /\ n.status = "DRAFT" /\ n.target = p.target
      /\ n.change = q.change /\ n.version \in Nat
  <2> DEFINE m == [p EXCEPT !.change = q.change]
             u == With(m, p.version + 1, "DRAFT", Null, Null)
  <2>1. /\ m \in Proposal /\ p.version \in Nat /\ m.target = p.target /\ m.change = q.change
    BY <1>2 DEF Proposal
  <2>2. n = u
    BY DEF With
  <2> HIDE DEF m, n
  <2>3. /\ u \in Proposal /\ u.version = p.version + 1 /\ u.status = "DRAFT" /\ u.target = m.target
        /\ u.change = m.change
    <3>1. "DRAFT" \in Statuses /\ Null \in Tokens /\ Null \in Pictures /\ p.version + 1 \in Nat
      BY <2>1 DEF Statuses, Tokens, Pictures
    <3> QED BY <2>1, <3>1, ProposalWith
  <2> QED BY <2>1, <2>2, <2>3
<1>5. p # Null /\ n.change.target = p.change.target
  BY <1>1, <1>2, <1>4, ConstantsAssumption DEF MayEdit
<1> HIDE DEF n
<1>6. written \in Writes
  BY <1>2, <1>4 DEF Writes, Entry, Actions
<1>7. Fitting(q, written, proposals[written.id])
  BY <1>2, <1>4, <1>5 DEF Fitting
<1> HIDE DEF written
<1>8. PICK w \in Writes : w = written
  BY <1>6
<1> QED BY <1>2, <1>3, <1>7, <1>8, WriteKeeps

\* A preview writes its result, good or not.
LEMMA PreviewWrites ==
  ASSUME OrgInv, NEW r \in Requests, Runs(r, "preview"), NEW n \in Proposal,
         Write(r, request[r].id, n, Null, 0),
         n.version = proposals[request[r].id].version + 1,
         n.target = proposals[request[r].id].target,
         Previewing(request[r], proposals[request[r].id], n)
  PROVE  TypeOK' /\ Slots' /\ Writing'
<1> DEFINE q == request[r]
           p == proposals[request[r].id]
<1>1. /\ pc[r] = "locked" /\ MayChange(q) /\ q.action = "preview" /\ q.actor \in Users
      /\ q.id \in Proposals /\ p \in Proposal /\ p.status # "APPLIED"
  BY RunsOn DEF Actions
<1>2. PICK w : w = [id |-> q.id, proposal |-> n, unit |-> Null, statements |-> 0,
                    entry |-> [action |-> q.action, actor |-> q.actor, version |-> n.version]]
  OBVIOUS
<1>3. /\ pending' = [pending EXCEPT ![r] = w] /\ pc' = [pc EXCEPT ![r] = "applied"]
      /\ UNCHANGED <<tables, rights, lapsed, clock, request, start, reply>>
  BY <1>2 DEF Write
<1>4. w \in Writes
  BY <1>1, <1>2 DEF Writes, Entry, Actions, Proposal
<1>5. Fitting(q, w, proposals[w.id])
  BY <1>1, <1>2, ConstantsAssumption DEF Fitting, Previewing
<1> QED BY <1>1, <1>3, <1>4, <1>5, WriteKeeps

LEMMA PreviewKeeps ==
  ASSUME OrgInv, NEW r \in Requests, PreviewOrgChange(r)
  PROVE  TypeOK' /\ Slots' /\ Writing'
<1> DEFINE q == request[r]
           p == proposals[request[r].id]
           valid == Valid(p, Day(start[r]))
           seen == [actor |-> q.actor, of |-> p.change, base |-> revision,
                    expires |-> start[r] + PreviewLife, before |-> directory[p.target]]
           good == With(p, p.version + 1, "PREVIEW", <<q.id, p.version + 1>>, seen)
           bad == With(p, p.version + 1, "DRAFT", Null, seen)
<1>1. Runs(r, "preview")
  BY DEF PreviewOrgChange
<1>2. q.actor \in Users /\ q.id \in Proposals /\ p \in Proposal /\ p.status # "APPLIED"
  BY <1>1, RunsOn DEF Actions
<1>3. p.target \in Units /\ p.version \in Nat /\ p.change \in Changes
  BY <1>2 DEF Proposal
<1>4. /\ seen \in Preview /\ seen # Null
      /\ seen.actor = q.actor /\ seen.of = p.change /\ seen.base = revision
      /\ seen.before = directory[p.target]
  BY <1>2, <1>3, ConstantsAssumption DEF OrgInv, TypeOK, Preview
<1>5. /\ p.version + 1 \in Nat /\ <<q.id, p.version + 1>> \in Tokens /\ Null \in Tokens
      /\ "DRAFT" \in Statuses /\ "PREVIEW" \in Statuses /\ seen \in Pictures
  BY <1>2, <1>3, <1>4 DEF Token, Tokens, Statuses, Pictures
<1>6. CASE valid /\ Write(r, q.id, good, Null, 0)
  <2> HIDE DEF seen
  <2>1. /\ good \in Proposal
        /\ good.version = p.version + 1 /\ good.status = "PREVIEW" /\ good.preview = seen
        /\ good.target = p.target /\ good.change = p.change
    BY <1>2, <1>4, <1>5, ProposalWith, SMTT(40)
  <2>2. Valid(p, 0)
    BY <1>2, <1>6, ValidOnceThenEver
  <2>3. PICK n \in Proposal : n = good
    BY <2>1
  <2>4. Previewing(q, p, n)
    BY <1>4, <2>1, <2>2, <2>3 DEF Previewing
  <2> QED BY <1>1, <1>6, <2>1, <2>3, <2>4, PreviewWrites
<1>7. CASE Write(r, q.id, bad, Null, 0)
  <2> HIDE DEF seen
  <2>1. /\ bad \in Proposal
        /\ bad.version = p.version + 1 /\ bad.status = "DRAFT"
        /\ bad.target = p.target /\ bad.change = p.change
    BY <1>2, <1>4, <1>5, ProposalWith, SMTT(40)
  <2>2. PICK n \in Proposal : n = bad
    BY <2>1
  <2>3. Previewing(q, p, n)
    BY <2>1, <2>2 DEF Previewing
  <2> QED BY <1>1, <1>7, <2>1, <2>2, <2>3, PreviewWrites
<1>8. \/ valid /\ Write(r, q.id, good, Null, 0)
      \/ Write(r, q.id, bad, Null, 0)
  <2> DEFINE new == [p EXCEPT !.version = @ + 1, !.preview = seen]
  <2>1. new.version = p.version + 1
    BY <1>2 DEF Proposal
  <2>2. good = [new EXCEPT !.status = "PREVIEW", !.token = <<q.id, new.version>>]
    <3> HIDE DEF seen
    <3> QED BY <1>2, <2>1 DEF Proposal, With
  <2>3. bad = [new EXCEPT !.status = "DRAFT", !.token = Null]
    <3> HIDE DEF seen
    <3> QED BY <1>2 DEF Proposal, With
  <2> QED BY <2>2, <2>3 DEF PreviewOrgChange
<1> QED BY <1>6, <1>7, <1>8

LEMMA ApplyKeeps ==
  ASSUME OrgInv, NEW r \in Requests, ApplyOrgChange(r)
  PROVE  TypeOK' /\ Slots' /\ Writing'
<1> DEFINE q == request[r]
           p == proposals[request[r].id]
           n == [p EXCEPT !.version = @ + 1, !.status = "APPLIED", !.token = Null,
                          !.preview.before = directory[p.target]]
           unit == After(p.change, directory[p.target])
           written == [id |-> q.id, proposal |-> n, unit |-> unit, statements |-> Bumps(p.change),
                       entry |-> [action |-> q.action, actor |-> q.actor, version |-> n.version]]
<1>1. Runs(r, "apply") /\ MayApply(r, q)
  BY DEF ApplyOrgChange
<1>2. /\ pc[r] = "locked" /\ MayChange(q) /\ q.action = "apply" /\ q.actor \in Users
      /\ q.id \in Proposals /\ p \in Proposal /\ p.status # "APPLIED"
  BY <1>1, RunsOn DEF Actions
<1>3. /\ pending' = [pending EXCEPT ![r] = written] /\ pc' = [pc EXCEPT ![r] = "applied"]
      /\ UNCHANGED <<tables, rights, lapsed, clock, request, start, reply>>
  BY DEF ApplyOrgChange, Write
<1>4. /\ p.status = "PREVIEW" /\ p.preview.actor = q.actor /\ p.preview.base = revision
      /\ p.preview.of = p.change /\ Valid(p, 0)
  BY <1>1, <1>2, ValidOnceThenEver DEF MayApply
<1>5. p # Null
  BY <1>2, ConstantsAssumption
<1>6. p.preview \in Preview
  BY <1>2, <1>4, <1>5 DEF OrgInv, Previewed, Proposal
<1>7. p.target \in Units /\ p.version \in Nat /\ p.change \in Changes
  BY <1>2 DEF Proposal
<1>8. directory[p.target] \in Unit \cup {Null}
  BY <1>7 DEF OrgInv, TypeOK
<1>9. [p.preview EXCEPT !.before = directory[p.target]] \in Preview
  BY <1>6, <1>8 DEF Preview
<1>10. n = With(p, p.version + 1, "APPLIED", Null,
                [p.preview EXCEPT !.before = directory[p.target]])
  BY <1>2 DEF Proposal, With
<1>11. /\ n \in Proposal
       /\ n.version = p.version + 1 /\ n.status = "APPLIED" /\ n.target = p.target
       /\ n.change = p.change /\ n.version \in Nat
  <2>1. /\ p.version + 1 \in Nat /\ "APPLIED" \in Statuses /\ Null \in Tokens
        /\ [p.preview EXCEPT !.before = directory[p.target]] \in Pictures
    BY <1>7, <1>9 DEF Statuses, Tokens, Pictures
  <2> QED BY <1>2, <1>10, <2>1, ProposalWith
<1> HIDE DEF n
<1>12. unit \in Unit
  BY <1>2, <1>4, AfterIsUnit DEF OrgInv
<1>13. Bumps(p.change) \in 0 .. 3
  BY DEF Bumps
<1>14. PICK pr \in Proposal : pr = n
  BY <1>11
<1>15. PICK w : w = [id |-> q.id, proposal |-> pr, unit |-> unit, statements |-> Bumps(p.change),
                     entry |-> [action |-> q.action, actor |-> q.actor, version |-> pr.version]]
  OBVIOUS
<1>16. pending' = [pending EXCEPT ![r] = w]
  BY <1>3, <1>14, <1>15
<1>17. w \in Writes
  BY <1>2, <1>11, <1>12, <1>13, <1>14, <1>15 DEF Writes, Entry, Actions
<1>18. Applying(q, w, p, pr)
  BY <1>4, <1>11, <1>14, <1>15 DEF Applying
<1>19. Fitting(q, w, proposals[w.id])
  BY <1>2, <1>5, <1>11, <1>14, <1>15, <1>18 DEF Fitting
<1> QED BY <1>2, <1>3, <1>16, <1>17, <1>19, WriteKeeps

-----------------------------------------------------------------------------
(* The commit *)

\* The command q enters w in place of proposal p.
Entering(q, w, p) ==
  /\ q \in Request /\ w \in Writes /\ p \in Proposal \cup {Null}
  /\ p = proposals[w.id]
  /\ Fitting(q, w, p)
  /\ proposals' = [proposals EXCEPT ![w.id] = w.proposal]
  /\ directory' = IF w.unit = Null THEN directory
                                   ELSE [directory EXCEPT ![w.proposal.target] = w.unit]
  /\ revision' = revision + w.statements
  /\ audit' = [audit EXCEPT ![w.id] = Append(@, w.entry)]

LEMMA CommitEnters ==
  ASSUME OrgInv, NEW r \in Requests, Commit(r)
  PROVE  \E q, w, p : q = request[r] /\ w = pending[r] /\ Entering(q, w, p)
<1>1. pc[r] = "applied"
  BY DEF Commit
<1>2. request[r] \in Request
  BY <1>1 DEF OrgInv, Slots, WellSent
<1>3. pending[r] \in Writes
  BY <1>1 DEF OrgInv, Slots, TypeOK
<1>4. pending[r].id \in Proposals
  BY <1>3 DEF Writes
<1>5. proposals[pending[r].id] \in Proposal \cup {Null}
  BY <1>4 DEF OrgInv, TypeOK
<1>6. Fitting(request[r], pending[r], proposals[pending[r].id])
  BY <1>1 DEF OrgInv, Writing, Fits
<1>7. PICK q, w, p : q = request[r] /\ w = pending[r] /\ p = proposals[pending[r].id]
  OBVIOUS
<1>8. Entering(q, w, p)
  BY <1>2, <1>3, <1>5, <1>6, <1>7 DEF Commit, Entering
<1> QED BY <1>7, <1>8

\* The parts of a write, and what they can be.
LEMMA WriteParts ==
  ASSUME OrgInv, NEW q, NEW w, NEW p, Entering(q, w, p)
  PROVE  /\ w.id \in Proposals /\ w.proposal \in Proposal /\ w.unit \in Unit \cup {Null}
         /\ w.statements \in Nat /\ w.entry \in Entry /\ q.action \in Actions
         /\ w.proposal # Null /\ w.proposal.version \in Nat /\ w.proposal.target \in Units
         /\ p # Null => p \in Proposal
<1>1. /\ w.id \in Proposals /\ w.proposal \in Proposal /\ w.unit \in Unit \cup {Null}
      /\ w.statements \in Nat /\ w.entry \in Entry /\ q.action \in Actions
  BY DEF Entering, Writes, Request
<1> QED BY <1>1, ConstantsAssumption DEF Entering, Proposal

\* Only an application writes into the directory, and it always does.
LEMMA UnitsAreApplied ==
  ASSUME OrgInv, NEW q, NEW w, NEW p, Entering(q, w, p)
  PROVE  /\ w.unit = Null => /\ q.action # "apply" /\ w.statements = 0
                             /\ directory' = directory /\ revision' = revision
                             /\ w.proposal.status # "APPLIED"
         /\ w.unit # Null => /\ q.action = "apply" /\ p \in Proposal
                             /\ Applying(q, w, p, w.proposal)
                             /\ w.proposal.target = p.target
                             /\ w.unit \in Unit /\ p.target \in Units
                             /\ directory' = [directory EXCEPT ![p.target] = w.unit]
                             /\ revision' > revision
<1>1. /\ w.unit \in Unit \cup {Null}
      /\ p # Null => p \in Proposal
  BY WriteParts
<1>2. q.action = "apply" => w.unit # Null
  <2> SUFFICES ASSUME q.action = "apply" PROVE w.unit # Null
    OBVIOUS
  <2>1. Applying(q, w, p, w.proposal) /\ p \in Proposal
    BY <1>1 DEF Entering, Fitting
  <2>2. w.unit = After(p.change, directory[p.target]) /\ Valid(p, 0)
    BY <2>1 DEF Applying
  <2>3. w.unit \in Unit
    BY <2>1, <2>2, AfterIsUnit DEF OrgInv
  <2> QED BY <2>3, ConstantsAssumption
<1>3. revision \in Nat
  BY DEF OrgInv, TypeOK
<1>4. CASE w.unit = Null
  BY <1>2, <1>3, <1>4 DEF Entering, Fitting
<1>5. CASE w.unit # Null
  <2>1. q.action = "apply" /\ p \in Proposal /\ Applying(q, w, p, w.proposal) /\ w.proposal.target = p.target
    BY <1>1, <1>5 DEF Entering, Fitting
  <2>2. directory' = [directory EXCEPT ![p.target] = w.unit]
    BY <1>5, <2>1 DEF Entering
  <2>3. w.statements = 2 \/ w.statements = 3
    BY <2>1 DEF Applying, Bumps
  <2>4. p.target \in Units
    BY <2>1 DEF Proposal
  <2>5. revision' > revision
    <3>1. revision' = revision + w.statements
      BY DEF Entering
    <3> QED BY <1>3, <2>3, <3>1
  <2>6. w.unit \in Unit
    BY <1>1, <1>5
  <2> QED BY <1>5, <2>1, <2>2, <2>4, <2>5, <2>6
<1> QED BY <1>4, <1>5

LEMMA CommitTyped ==
  ASSUME OrgInv, NEW r \in Requests, Commit(r)
  PROVE  TypeOK'
<1>1. PICK q, w, p : q = request[r] /\ w = pending[r] /\ Entering(q, w, p)
  BY CommitEnters
<1>2. /\ w.id \in Proposals /\ w.proposal \in Proposal /\ w.unit \in Unit \cup {Null}
      /\ w.statements \in Nat /\ w.entry \in Entry
  BY <1>1, WriteParts
<1>3. directory' \in [Units -> Unit \cup {Null}]
  BY <1>1, <1>2 DEF OrgInv, TypeOK, Entering
<1>4. revision' \in Nat \ {0}
  BY <1>1, <1>2 DEF OrgInv, TypeOK, Entering
<1>5. proposals' \in [Proposals -> Proposal \cup {Null}]
  BY <1>1, <1>2 DEF OrgInv, TypeOK, Entering
<1>6. audit' \in [Proposals -> Seq(Entry)]
  BY <1>1, <1>2 DEF OrgInv, TypeOK, Entering
<1>7. records' \in [Users \X Actions \X Keys -> Request \cup {Null}]
  BY <1>1 DEF OrgInv, TypeOK, Entering, Commit
<1>8. PICK code \in {"OK", "UNAVAILABLE"} : Answer(r, code)
  BY DEF Commit
<1>9. /\ rights' \in [Users -> SUBSET Permissions]
      /\ clock' \in Nat
      /\ lapsed' \subseteq Users
      /\ pc' \in [Requests -> {"idle", "sent", "authorized", "locked", "applied", "replied"}]
      /\ request' \in [Requests -> Request \cup {Null}]
      /\ start' \in [Requests -> Nat]
      /\ pending' \in [Requests -> Writes \cup {Null}]
      /\ reply' \in [Requests -> Answers \cup {Null}]
  BY <1>8 DEF OrgInv, TypeOK, Answer, Answers
<1> QED BY <1>3, <1>4, <1>5, <1>6, <1>7, <1>9 DEF TypeOK

LEMMA CommitSlots ==
  ASSUME OrgInv, NEW r \in Requests, Commit(r)
  PROVE  Slots' /\ Writing'
<1>1. PICK q, w, p : q = request[r] /\ w = pending[r] /\ Entering(q, w, p)
  BY CommitEnters
<1>2. pc[r] = "applied"
  BY DEF Commit
<1>3. /\ pc' = [pc EXCEPT ![r] = "replied"] /\ request' = request /\ rights' = rights
      /\ \A o \in Requests \ {r} : reply'[o] = reply[o]
  BY DEF Commit, Answer, OrgInv, TypeOK
<1>4. \A o \in Requests : /\ o # r => pc'[o] = pc[o] /\ pc[o] \notin {"locked", "applied"}
                          /\ o = r => pc'[o] = "replied"
  BY <1>2, <1>3 DEF OrgInv, TypeOK, Slots, HoldsDirectory
<1>5. \A id \in Proposals : proposals[id] # Null => proposals'[id] # Null
  BY <1>1, WriteParts DEF Entering, OrgInv, TypeOK
<1>6. \A o \in Requests : pc'[o] # "idle" => WellSent(request[o])'
  <2> SUFFICES ASSUME NEW o \in Requests, pc'[o] # "idle" PROVE WellSent(request[o])'
    OBVIOUS
  <2>1. WellSent(request[o])
    BY <1>2, <1>4 DEF OrgInv, Slots
  <2>2. request[o].id \in Proposals \cup {Null}
    BY <2>1 DEF WellSent, Request
  <2> QED BY <1>3, <1>5, <2>1, <2>2 DEF WellSent
<1>7. \A o \in Requests : pc'[o] # "replied" => reply'[o] = Null
  BY <1>3, <1>4 DEF OrgInv, Slots
<1>8. \A o \in Requests : HoldsRights(o)' => MayAct(request[o])'
  BY <1>3, <1>4 DEF OrgInv, Slots, HoldsRights, MayAct
<1>9. \A o \in Requests : pc'[o] # "applied" /\ ~HoldsDirectory(o)'
  BY <1>4 DEF HoldsDirectory
<1> QED BY <1>6, <1>7, <1>8, <1>9 DEF Slots, Writing

LEMMA CommitPreviewed ==
  ASSUME OrgInv, NEW q, NEW w, NEW p, Entering(q, w, p)
  PROVE  Previewed'
<1> DEFINE n == w.proposal
<1>1. /\ w.id \in Proposals /\ n \in Proposal /\ n # Null /\ n.target \in Units
      /\ q.action \in Actions /\ w.statements \in Nat /\ revision \in Nat
      /\ p # Null => p \in Proposal
  BY WriteParts DEF OrgInv, TypeOK
<1>2. \A id \in Proposals : proposals'[id] = IF id = w.id THEN n ELSE proposals[id]
  BY <1>1 DEF Entering, OrgInv, TypeOK
<1>3. revision' = revision + w.statements
  BY DEF Entering
<1>4. \A u \in Units : directory[u] # Null => directory'[u] # Null
  BY <1>1 DEF Entering, OrgInv, TypeOK
<1>5. ASSUME NEW id \in Proposals, proposals[id] # Null, id # w.id
      PROVE  /\ proposals[id].target = Target(id, proposals[id].change)
             /\ proposals[id].status = "PREVIEW" =>
                  proposals[id].preview # Null /\ proposals[id].preview.base <= revision'
             /\ proposals[id].status = "APPLIED" => directory'[proposals[id].target] # Null
  <2>1. proposals[id] \in Proposal
    BY <1>5 DEF OrgInv, TypeOK
  <2>2. proposals[id].target \in Units /\ proposals[id].preview \in Preview \cup {Null}
    BY <2>1 DEF Proposal
  <2>3. /\ proposals[id].target = Target(id, proposals[id].change)
        /\ proposals[id].status = "PREVIEW" =>
             proposals[id].preview # Null /\ proposals[id].preview.base <= revision
        /\ proposals[id].status = "APPLIED" => directory[proposals[id].target] # Null
    BY <1>5 DEF OrgInv, Previewed
  <2>4. proposals[id].status = "PREVIEW" => proposals[id].preview.base \in Nat
    BY <2>2, <2>3 DEF Preview
  <2> QED BY <1>1, <1>3, <1>4, <2>2, <2>3, <2>4
<1>6. n.target = Target(w.id, n.change)
  <2>1. q.action # "create" => p.target = Target(w.id, p.change)
    BY <1>1 DEF Entering, Fitting, OrgInv, Previewed
  <2> QED BY <1>1, <2>1 DEF Entering, Fitting, Previewing, Applying, Target, Actions
<1>7. n.status = "PREVIEW" => n.preview # Null /\ n.preview.base <= revision'
  <2> SUFFICES ASSUME n.status = "PREVIEW"
               PROVE  n.preview # Null /\ n.preview.base <= revision'
    OBVIOUS
  <2>1. Previewing(q, p, n)
    BY <1>1 DEF Entering, Fitting, Applying, Actions
  <2> QED BY <1>1, <1>3, <2>1 DEF Previewing
<1>8. n.status = "APPLIED" => directory'[n.target] # Null
  <2> SUFFICES ASSUME n.status = "APPLIED" PROVE directory'[n.target] # Null
    OBVIOUS
  <2>1. w.unit # Null
    BY UnitsAreApplied
  <2> QED BY <1>1, <2>1 DEF Entering, OrgInv, TypeOK
<1> QED BY <1>2, <1>5, <1>6, <1>7, <1>8 DEF Previewed

LEMMA CommitNumbers ==
  ASSUME OrgInv, NEW q, NEW w, NEW p, Entering(q, w, p)
  PROVE  ApplyFollowsPreview' /\ Numbered'
<1> DEFINE n == w.proposal
           rows == audit[w.id]
           more == Append(audit[w.id], w.entry)
<1>1. /\ w.id \in Proposals /\ n \in Proposal /\ n # Null /\ w.entry \in Entry
      /\ q.action \in Actions /\ n.version \in Nat
      /\ p # Null => p \in Proposal
  BY WriteParts
<1>2. \A id \in Proposals : /\ id # w.id => proposals'[id] = proposals[id] /\ audit'[id] = audit[id]
                            /\ id = w.id => proposals'[id] = n /\ audit'[id] = more
  BY <1>1 DEF Entering, OrgInv, TypeOK
<1>3. rows \in Seq(Entry)
  BY <1>1 DEF OrgInv, TypeOK
<1>4. /\ Len(rows) \in Nat /\ DOMAIN rows = 1 .. Len(rows)
      /\ Len(more) = Len(rows) + 1 /\ DOMAIN more = 1 .. Len(rows) + 1
      /\ \A k \in 1 .. Len(rows) : more[k] = rows[k]
      /\ more[Len(rows) + 1] = w.entry
  <2>1. Len(rows) \in Nat /\ DOMAIN rows = 1 .. Len(rows)
    BY <1>3, LenProperties
  <2>2. /\ more \in Seq(Entry) /\ Len(more) = Len(rows) + 1
        /\ \A k \in 1 .. Len(rows) : more[k] = rows[k]
        /\ more[Len(rows) + 1] = w.entry
    BY <1>1, <1>3, AppendProperties
  <2>3. DOMAIN more = 1 .. Len(more)
    BY <2>2, LenProperties
  <2> QED BY <2>1, <2>2, <2>3
<1> HIDE DEF more
<1>5. /\ Len(rows) = IF p = Null THEN 0 ELSE p.version
      /\ \A k \in DOMAIN rows : rows[k].version = k
  BY <1>1 DEF Entering, OrgInv, ApplyFollowsPreview
<1>6. Len(more) = n.version
  BY <1>1, <1>4, <1>5 DEF Entering, Fitting
<1>7. w.entry.version = n.version /\ w.entry.action = q.action /\ w.entry.actor = q.actor
  BY DEF Entering, Fitting
<1>8. \A k \in DOMAIN more : more[k].version = k
  BY <1>4, <1>5, <1>6, <1>7
<1>9. \A k \in DOMAIN rows : rows[k].action # "apply"
  <2>1. CASE p = Null
    BY <1>4, <1>5, <2>1
  <2>2. CASE p # Null
    <3>1. p.status # "APPLIED"
      BY <1>1, <2>2 DEF Entering, Fitting
    <3> QED BY <1>1, <2>2, <3>1 DEF Entering, OrgInv, Numbered, Unapplied
  <2> QED BY <2>1, <2>2
<1>10. ASSUME q.action = "apply"
       PROVE  /\ Len(rows) > 0
              /\ rows[Len(rows)].action = "preview"
              /\ rows[Len(rows)].actor = q.actor
  <2>1. p # Null /\ p.status = "PREVIEW" /\ p.preview.actor = q.actor
    BY <1>10 DEF Entering, Fitting, Applying
  <2> QED BY <1>1, <2>1 DEF Entering, OrgInv, Numbered
<1>11. \A k \in DOMAIN more : more[k].action = "apply" =>
          /\ k = Len(more)
          /\ k > 1
          /\ more[k - 1].action = "preview"
          /\ more[k - 1].actor = more[k].actor
  <2> SUFFICES ASSUME NEW k \in DOMAIN more, more[k].action = "apply"
               PROVE  /\ k = Len(more)
                      /\ k > 1
                      /\ more[k - 1].action = "preview"
                      /\ more[k - 1].actor = more[k].actor
    OBVIOUS
  <2>1. k = Len(rows) + 1
    BY <1>4, <1>9
  <2>2. q.action = "apply" /\ more[k].actor = q.actor
    BY <1>4, <1>7, <2>1
  <2>3. more[k - 1] = rows[Len(rows)] /\ k > 1
    BY <1>4, <1>10, <2>1, <2>2
  <2> QED BY <1>4, <1>10, <2>1, <2>2, <2>3
<1> DEFINE Rows(as, pr) ==
             /\ Len(as) = IF pr = Null THEN 0 ELSE pr.version
             /\ \A k \in DOMAIN as : as[k].version = k
             /\ \A k \in DOMAIN as : as[k].action = "apply" =>
                  /\ k = Len(as)
                  /\ k > 1
                  /\ as[k - 1].action = "preview"
                  /\ as[k - 1].actor = as[k].actor
           Ends(as, pr) ==
             /\ (pr # Null /\ pr.status # "APPLIED") => \A k \in DOMAIN as : as[k].action # "apply"
             /\ (pr # Null /\ pr.status = "PREVIEW") =>
                  /\ Len(as) > 0
                  /\ as[Len(as)].action = "preview"
                  /\ as[Len(as)].actor = pr.preview.actor
<1>12. Rows(more, n)
  BY <1>1, <1>6, <1>8, <1>11
<1>13. Ends(more, n)
  <2>1. n.status # "APPLIED" => q.action # "apply"
    BY DEF Entering, Fitting, Applying
  <2>2. ASSUME n.status # "APPLIED", NEW k \in DOMAIN more
        PROVE  more[k].action # "apply"
    <3>1. CASE k = Len(rows) + 1
      BY <1>4, <1>7, <2>1, <2>2, <3>1
    <3>2. CASE k # Len(rows) + 1
      BY <1>4, <1>9, <2>2, <3>2
    <3> QED BY <3>1, <3>2
  <2>3. n.status = "PREVIEW" => q.action = "preview" /\ n.preview.actor = q.actor
    BY <1>1 DEF Entering, Fitting, Applying, Previewing, Actions
  <2>4. n.status = "PREVIEW" => /\ Len(more) > 0
                                /\ more[Len(more)].action = "preview"
                                /\ more[Len(more)].actor = n.preview.actor
    BY <1>4, <1>7, <2>3
  <2> QED BY <2>2, <2>4
<1>14. \A id \in Proposals : Rows(audit[id], proposals[id]) /\ Ends(audit[id], proposals[id])
  BY DEF OrgInv, ApplyFollowsPreview, Numbered, Unapplied
<1>15. ApplyFollowsPreview' <=> \A id \in Proposals : Rows(audit'[id], proposals'[id])
  BY DEF ApplyFollowsPreview
<1>16. Numbered' <=> \A id \in Proposals : Ends(audit'[id], proposals'[id])
  BY DEF Numbered, Unapplied
<1> HIDE DEF Rows, Ends
<1>17. \A id \in Proposals : Rows(audit'[id], proposals'[id]) /\ Ends(audit'[id], proposals'[id])
  BY <1>2, <1>12, <1>13, <1>14
<1> QED BY <1>15, <1>16, <1>17

LEMMA CommitStillHolds ==
  ASSUME OrgInv, NEW q, NEW w, NEW p, Entering(q, w, p)
  PROVE  PreviewStillHolds'
<1> DEFINE n == w.proposal
<1>1. /\ w.id \in Proposals /\ n \in Proposal /\ n # Null
      /\ q.action \in Actions /\ w.statements \in Nat /\ revision \in Nat
      /\ p # Null => p \in Proposal
  BY WriteParts DEF OrgInv, TypeOK
<1>2. \A id \in Proposals : proposals'[id] = IF id = w.id THEN n ELSE proposals[id]
  BY <1>1 DEF Entering, OrgInv, TypeOK
<1> SUFFICES ASSUME NEW id \in Proposals, NEW m, m = proposals'[id],
                    m # Null, m.status = "PREVIEW"
             PROVE  /\ m.preview.of = m.change
                    /\ m.preview.base = revision' =>
                         /\ m.preview.before = directory'[m.target]
                         /\ Valid(m, 0)'
  <2> SUFFICES ASSUME NEW id \in Proposals, proposals'[id] # Null, proposals'[id].status = "PREVIEW"
               PROVE  /\ proposals'[id].preview.of = proposals'[id].change
                      /\ proposals'[id].preview.base = revision' =>
                           /\ proposals'[id].preview.before = directory'[proposals'[id].target]
                           /\ Valid(proposals[id], 0)'
    BY DEF PreviewStillHolds
  <2>1. PICK m : m = proposals'[id]
    OBVIOUS
  <2>2. Valid(m, 0)' <=> Valid(proposals[id], 0)'
    BY <2>1 DEF Valid, Placed
  <2> QED BY <2>1, <2>2
<1>3. CASE w.unit = Null
  <2>1. directory' = directory /\ revision' = revision /\ n.status # "APPLIED" /\ q.action # "apply"
    BY <1>3, UnitsAreApplied
  <2>2. Covers' = Covers
    BY <2>1, CoversStays
  <2>3. Valid(m, 0)' <=> Valid(m, 0)
    BY <2>1, <2>2 DEF Valid, Placed
  <2>4. CASE id = w.id
    <3>1. m = n
      BY <1>2, <2>4
    <3>2. q.action = "preview"
      BY <1>1, <2>1, <3>1 DEF Entering, Fitting, Actions
    <3>3. Previewing(q, p, n) /\ n.target = p.target
      BY <3>2 DEF Entering, Fitting
    <3>4. Valid(n, 0) <=> Valid(p, 0)
      BY <3>3 DEF Previewing, Valid
    <3> QED BY <2>1, <2>3, <3>1, <3>3, <3>4 DEF Previewing
  <2>5. CASE id # w.id
    <3>1. m = proposals[id]
      BY <1>2, <2>5
    <3>2. /\ m.preview.of = m.change
          /\ m.preview.base = revision =>
               /\ m.preview.before = directory[m.target]
               /\ Valid(proposals[id], 0)
      BY <3>1 DEF OrgInv, PreviewStillHolds
    <3>3. Valid(m, 0) <=> Valid(proposals[id], 0)
      BY <3>1
    <3> QED BY <2>1, <2>3, <3>2, <3>3
  <2> QED BY <2>4, <2>5
<1>4. CASE w.unit # Null
  <2>1. q.action = "apply" /\ revision' > revision /\ Applying(q, w, p, n)
    BY <1>4, UnitsAreApplied
  <2>2. id # w.id
    BY <1>2, <2>1 DEF Applying
  <2>3. m = proposals[id]
    BY <1>2, <2>2
  <2>4. m \in Proposal
    BY <2>3 DEF OrgInv, TypeOK
  <2>5. m.preview.of = m.change /\ m.preview # Null /\ m.preview.base <= revision
    BY <2>3 DEF OrgInv, PreviewStillHolds, Previewed
  <2>6. m.preview.base \in Nat
    BY <2>4, <2>5 DEF Proposal, Preview
  <2>7. revision' \in Nat
    BY <1>1 DEF Entering
  <2> QED BY <1>1, <2>1, <2>5, <2>6, <2>7
<1> QED BY <1>3, <1>4

\* Nothing but the proposals that have been applied is looked at.
LEMMA NobodyApplied ==
  ASSUME OrgInv, NEW q, NEW w, NEW p, Entering(q, w, p), w.unit = Null
  PROVE  DirectoryTellsProposals'
<1>1. /\ w.id \in Proposals /\ w.proposal # Null /\ w.proposal.status # "APPLIED"
      /\ q.action \in Actions /\ directory' = directory /\ q.action # "apply"
  BY WriteParts, UnitsAreApplied
<1>2. \A id \in Proposals : proposals'[id] = IF id = w.id THEN w.proposal ELSE proposals[id]
  BY <1>1 DEF Entering, OrgInv, TypeOK
<1>3. p = Null \/ p.status # "APPLIED"
  BY <1>1 DEF Entering, Fitting
<1>4. p = proposals[w.id]
  BY DEF Entering
<1>5. \A u, op : AppliedTo(u, op)' = AppliedTo(u, op)
  BY <1>1, <1>2, <1>3, <1>4 DEF AppliedTo
<1>6. \A u, op : \A x \in AppliedTo(u, op) : x # w.id /\ x \in Proposals
  BY <1>3, <1>4 DEF AppliedTo
<1>7. CreatedByProposals' /\ CodesDiffer'
  BY <1>1, <1>5, TellingParts DEF OrgInv, CreatedByProposals, CodesDiffer
<1>8. HistoriesTell'
  <2> SUFFICES ASSUME NEW u \in Units, directory[u] # Null
               PROVE  Counted(u)' /\ Entered(u)'
    BY <1>1 DEF HistoriesTell
  <2>1. Counted(u) /\ Entered(u)
    BY TellingParts DEF OrgInv, HistoriesTell
  <2>2. Counted(u)'
    BY <1>1, <1>5, <2>1 DEF Counted, NamedBy, PlacedBy, FoundedNames, FoundedParents
  <2>3. \A x \in AppliedTo(u, "ORG_UNIT_RENAME") : proposals'[x] = proposals[x]
    BY <1>2, <1>6
  <2>4. Entered(u)'
    BY <1>1, <1>5, <2>1, <2>3 DEF Entered
  <2> QED BY <2>2, <2>4
<1>9. DirectoryTellsProposals' <=> CreatedByProposals' /\ CodesDiffer' /\ HistoriesTell'
  BY TellingParts, PTL
<1> QED BY <1>7, <1>8, <1>9

\* An application counts for its own target and operation.
LEMMA OneMoreApplied ==
  ASSUME OrgInv, NEW q, NEW w, NEW p, Entering(q, w, p), w.unit # Null
  PROVE  /\ \A u, op : AppliedTo(u, op)' =
              IF u = p.target /\ op = p.change.op THEN AppliedTo(u, op) \cup {w.id}
                                                  ELSE AppliedTo(u, op)
         /\ \A u, op : w.id \notin AppliedTo(u, op)
         /\ \A u, op : AppliedTo(u, op) \subseteq Proposals
         /\ \A x \in Proposals \ {w.id} : proposals'[x] = proposals[x]
         /\ proposals'[w.id].change = p.change
<1>1. /\ w.id \in Proposals /\ w.proposal # Null
      /\ Applying(q, w, p, w.proposal) /\ w.proposal.target = p.target
  BY WriteParts, UnitsAreApplied
<1>2. \A id \in Proposals : proposals'[id] = IF id = w.id THEN w.proposal ELSE proposals[id]
  BY <1>1 DEF Entering, OrgInv, TypeOK
<1>3. p = proposals[w.id] /\ p.status # "APPLIED"
  BY <1>1 DEF Entering, Applying
<1>4. w.proposal.status = "APPLIED" /\ w.proposal.change = p.change
  BY <1>1 DEF Applying
<1>5. ASSUME NEW u, NEW op
      PROVE  AppliedTo(u, op)' = IF u = p.target /\ op = p.change.op THEN AppliedTo(u, op) \cup {w.id}
                                                                    ELSE AppliedTo(u, op)
  <2>1. CASE u = p.target /\ op = p.change.op
    BY <1>1, <1>2, <1>3, <1>4, <2>1 DEF AppliedTo
  <2>2. CASE ~(u = p.target /\ op = p.change.op)
    BY <1>1, <1>2, <1>3, <1>4, <2>2 DEF AppliedTo
  <2> QED BY <2>1, <2>2
<1>6. \A u, op : w.id \notin AppliedTo(u, op) /\ AppliedTo(u, op) \subseteq Proposals
  BY <1>3 DEF AppliedTo
<1> QED BY <1>1, <1>2, <1>4, <1>5, <1>6

\* One more proposal in a set of them.
LEMMA OneMore ==
  ASSUME NEW S, S \subseteq Proposals, NEW x \in Proposals, x \notin S
  PROVE  Cardinality(S \cup {x}) = Cardinality(S) + 1 /\ Cardinality(S) \in Nat
<1>1. IsFiniteSet(S)
  BY FS_Subset, ConstantsAssumption
<1> QED BY <1>1, FS_AddElement, FS_CardinalityType

\* Nothing has been applied to a unit that is not there.
LEMMA NothingApplied ==
  ASSUME OrgInv, NEW u \in Units, directory[u] = Null
  PROVE  \A op : AppliedTo(u, op) = {}
<1>1. \A id \in Proposals : (proposals[id] # Null /\ proposals[id].status = "APPLIED") =>
        directory[proposals[id].target] # Null
  BY DEF OrgInv, Previewed
<1> QED BY <1>1 DEF AppliedTo

LEMMA CreationTells ==
  ASSUME OrgInv, NEW q, NEW w, NEW p, Entering(q, w, p), w.unit # Null,
         p.change.op = "ORG_UNIT_CREATE"
  PROVE  CreatedByProposals' /\ CodesDiffer' /\ HistoriesTell'
<1> DEFINE t == p.target
           c == p.change
<1>1. /\ w.id \in Proposals /\ p \in Proposal /\ t \in Units /\ w.unit \in Unit
      /\ Applying(q, w, p, w.proposal)
      /\ directory' = [directory EXCEPT ![t] = w.unit]
  BY WriteParts, UnitsAreApplied
<1>2. c \in Changes /\ p # Null /\ p = proposals[w.id]
  BY <1>1, ConstantsAssumption DEF Proposal, Entering
<1>3. t = w.id /\ t \in Proposals /\ t \notin Founded
  BY <1>1, <1>2, ConstantsAssumption DEF OrgInv, Previewed, Target
<1>4. /\ directory[t] = Null
      /\ \A u \in Units : directory[u] # Null => directory[u].code # c.code
  BY <1>1 DEF Applying, Valid
<1>5. /\ w.unit.code = c.code
      /\ w.unit.names = <<Opened(c.name, c.date)>>
      /\ w.unit.parents = <<Opened(c.parent, c.date)>>
  BY <1>1 DEF Applying, After
<1>6. \A u \in Units : directory'[u] = IF u = t THEN w.unit ELSE directory[u]
  BY <1>1 DEF OrgInv, TypeOK
<1>7. /\ \A op : AppliedTo(t, op) = {}
      /\ AppliedTo(t, "ORG_UNIT_CREATE")' = {w.id}
      /\ AppliedTo(t, "ORG_UNIT_RENAME")' = {}
      /\ AppliedTo(t, "ORG_UNIT_MOVE_TO_CLUSTER")' = {}
      /\ \A u, op : u # t => AppliedTo(u, op)' = AppliedTo(u, op)
  BY <1>1, <1>4, NothingApplied, OneMoreApplied
<1>8. CreatedByProposals /\ CodesDiffer /\ HistoriesTell
  BY TellingParts DEF OrgInv
<1>9. CreatedByProposals'
  <2> SUFFICES ASSUME NEW u \in Proposals
               PROVE  (directory'[u] # Null) <=> (AppliedTo(u, "ORG_UNIT_CREATE")' # {})
    BY DEF CreatedByProposals
  <2>1. CASE u = t
    BY <1>1, <1>6, <1>7, <2>1
  <2>2. CASE u # t
    BY <1>6, <1>7, <1>8, <2>2 DEF CreatedByProposals, Units
  <2> QED BY <2>1, <2>2
<1>10. CodesDiffer'
  BY <1>4, <1>5, <1>6, <1>8 DEF CodesDiffer
<1>11. ASSUME NEW u \in Units, directory'[u] # Null, u # t
       PROVE  Counted(u)' /\ Entered(u)'
  <2>1. directory'[u] = directory[u] /\ Counted(u) /\ Entered(u)
    BY <1>6, <1>8, <1>11 DEF HistoriesTell
  <2>2. Counted(u)'
    BY <1>7, <1>11, <2>1 DEF Counted, NamedBy, PlacedBy, FoundedNames, FoundedParents
  <2>3. \A x \in AppliedTo(u, "ORG_UNIT_RENAME") : proposals'[x] = proposals[x]
    BY OneMoreApplied
  <2>4. Entered(u)'
    BY <1>7, <1>11, <2>1, <2>3 DEF Entered
  <2> QED BY <2>2, <2>4
<1>12. Counted(t)' /\ Entered(t)'
  <2>1. NamedBy(t)' = {w.id} /\ PlacedBy(t)' = {w.id}
    BY <1>7 DEF NamedBy, PlacedBy
  <2>2. Cardinality({w.id}) = 1
    BY FS_Singleton
  <2>3. directory'[t] = w.unit
    BY <1>1, <1>6
  <2>4. Len(w.unit.names) = 1 /\ Len(w.unit.parents) = 1
    BY <1>5
  <2>5. FoundedNames(t) = 0 /\ FoundedParents(t) = 0
    BY <1>3 DEF FoundedNames, FoundedParents
  <2>6. Counted(t)'
    BY <2>1, <2>2, <2>3, <2>4, <2>5 DEF Counted, FoundedNames, FoundedParents
  <2>7. Entered(t)'
    BY <1>7 DEF Entered
  <2> QED BY <2>6, <2>7
<1> QED BY <1>9, <1>10, <1>11, <1>12 DEF HistoriesTell

\* A rename or a move.
LEMMA ChangeTells ==
  ASSUME OrgInv, NEW q, NEW w, NEW p, Entering(q, w, p), w.unit # Null,
         p.change.op # "ORG_UNIT_CREATE"
  PROVE  CreatedByProposals' /\ CodesDiffer' /\ HistoriesTell'
<1> DEFINE t == p.target
           c == p.change
           unit == directory[p.target]
<1>1. /\ w.id \in Proposals /\ p \in Proposal /\ t \in Units /\ w.unit \in Unit
      /\ Applying(q, w, p, w.proposal)
      /\ directory' = [directory EXCEPT ![t] = w.unit]
  BY WriteParts, UnitsAreApplied
<1>2. c \in Change
  BY <1>1, ConstantsAssumption DEF Proposal
<1>3. c.op \in {"ORG_UNIT_RENAME", "ORG_UNIT_MOVE_TO_CLUSTER"}
  BY <1>2 DEF Change, ChangeOps
<1>4. unit # Null /\ Valid(p, 0)
  BY <1>1, <1>3 DEF Applying, Valid
<1>5. unit \in Unit
  BY <1>1, <1>4 DEF OrgInv, TypeOK
<1>6. /\ c.date \in Dates /\ c.parent \in Units \cup {Null}
      /\ c.op = "ORG_UNIT_RENAME" => c.name \in Names
  BY <1>2, <1>4 DEF Valid, Change
<1>7. /\ unit.names \in Spans(Names) /\ unit.parents \in Spans(Units \cup {Null})
  BY <1>5 DEF Unit
<1>8. w.unit = After(c, unit)
  BY <1>1 DEF Applying
<1>9. /\ w.unit.code = unit.code
      /\ c.op = "ORG_UNIT_RENAME" => /\ w.unit.names = Succeeded(unit.names, c.name, c.date)
                                     /\ w.unit.parents = unit.parents
      /\ c.op = "ORG_UNIT_MOVE_TO_CLUSTER" =>
            /\ w.unit.names = unit.names
            /\ w.unit.parents = Succeeded(unit.parents, c.parent, c.date)
  <2> HIDE DEF unit, c
  <2>1. CASE c.op = "ORG_UNIT_RENAME"
    BY <1>5, <1>8, <2>1 DEF After, Unit
  <2>2. CASE c.op = "ORG_UNIT_MOVE_TO_CLUSTER"
    BY <1>5, <1>8, <2>2 DEF After, Unit
  <2> QED BY <1>3, <2>1, <2>2
<1>10. \A u \in Units : directory'[u] = IF u = t THEN w.unit ELSE directory[u]
  BY <1>1 DEF OrgInv, TypeOK
<1>11. CreatedByProposals /\ CodesDiffer /\ HistoriesTell
  BY TellingParts DEF OrgInv
<1>12. w.unit # Null
  BY <1>1, ConstantsAssumption
<1>13. \A u : AppliedTo(u, "ORG_UNIT_CREATE")' = AppliedTo(u, "ORG_UNIT_CREATE")
  BY OneMoreApplied
<1>14. CreatedByProposals'
  BY <1>4, <1>10, <1>11, <1>12, <1>13 DEF CreatedByProposals, Units
<1>15. CodesDiffer'
  BY <1>1, <1>4, <1>9, <1>10, <1>11, <1>12 DEF CodesDiffer
<1>16. ASSUME NEW u \in Units, directory'[u] # Null, u # t
       PROVE  Counted(u)' /\ Entered(u)'
  <2>1. directory'[u] = directory[u] /\ Counted(u) /\ Entered(u)
    BY <1>10, <1>11, <1>16 DEF HistoriesTell
  <2>2. \A op : AppliedTo(u, op)' = AppliedTo(u, op)
    BY <1>16, OneMoreApplied
  <2>3. Counted(u)'
    BY <2>1, <2>2 DEF Counted, NamedBy, PlacedBy, FoundedNames, FoundedParents
  <2>4. \A x \in AppliedTo(u, "ORG_UNIT_RENAME") : proposals'[x] = proposals[x]
    BY OneMoreApplied
  <2>5. Entered(u)'
    BY <2>1, <2>2, <2>4 DEF Entered
  <2> QED BY <2>3, <2>5
<1>17. directory'[t] = w.unit /\ Counted(t) /\ Entered(t)
  BY <1>1, <1>4, <1>10, <1>11 DEF HistoriesTell
<1>18. /\ NamedBy(t) \subseteq Proposals /\ w.id \notin NamedBy(t)
       /\ PlacedBy(t) \subseteq Proposals /\ w.id \notin PlacedBy(t)
       /\ \A x \in Proposals \ {w.id} : proposals'[x] = proposals[x]
       /\ proposals'[w.id].change = c
       /\ \A u, op : AppliedTo(u, op) \subseteq Proposals \ {w.id}
  BY OneMoreApplied DEF NamedBy, PlacedBy
<1>19. ASSUME c.op = "ORG_UNIT_RENAME" PROVE Counted(t)' /\ Entered(t)'
  <2>1. /\ AppliedTo(t, "ORG_UNIT_RENAME")' = AppliedTo(t, "ORG_UNIT_RENAME") \cup {w.id}
        /\ AppliedTo(t, "ORG_UNIT_MOVE_TO_CLUSTER")' = AppliedTo(t, "ORG_UNIT_MOVE_TO_CLUSTER")
    BY <1>19, OneMoreApplied
  <2>2. NamedBy(t)' = NamedBy(t) \cup {w.id} /\ PlacedBy(t)' = PlacedBy(t)
    BY <1>13, <2>1 DEF NamedBy, PlacedBy
  <2>3. Cardinality(NamedBy(t) \cup {w.id}) = Cardinality(NamedBy(t)) + 1 /\ Cardinality(NamedBy(t)) \in Nat
    BY <1>1, <1>18, OneMore
  <2> DEFINE more == Succeeded(unit.names, c.name, c.date)
  <2>4. /\ Len(more) = Len(unit.names) + 1 /\ Len(unit.names) \in Nat
        /\ DOMAIN unit.names = 1 .. Len(unit.names)
        /\ DOMAIN more = 1 .. Len(unit.names) + 1
        /\ \A n \in DOMAIN unit.names :
             more[n].value = unit.names[n].value /\ more[n].from = unit.names[n].from
        /\ more[Len(unit.names) + 1] = [value |-> c.name, from |-> c.date, to |-> Null]
    <3>1. c.name \in Names
      BY <1>6, <1>19
    <3> HIDE DEF unit, c
    <3>2. PICK ss \in Spans(Names), v \in Names, d \in Dates : ss = unit.names /\ v = c.name /\ d = c.date
      BY <1>6, <1>7, <3>1
    <3>3. more = Succeeded(ss, v, d)
      BY <3>2
    <3> HIDE DEF more
    <3> QED BY <3>2, <3>3, SucceededLength, SucceededRows
  <2> HIDE DEF more
  <2>5. w.unit.names = more /\ w.unit.parents = unit.parents
    BY <1>9, <1>19 DEF more
  <2>6. FoundedNames(t) \in Nat
    BY <1>7, LenProperties, ConstantsAssumption DEF FoundedNames, Unit, Spans
  <2>7. /\ Len(unit.names) = FoundedNames(t) + Cardinality(NamedBy(t))
        /\ Len(unit.parents) = FoundedParents(t) + Cardinality(PlacedBy(t))
    BY <1>17 DEF Counted
  <2>8. Len(more) = FoundedNames(t) + Cardinality(NamedBy(t) \cup {w.id})
    BY <2>3, <2>4, <2>6, <2>7
  <2>9. Counted(t)'
    BY <1>17, <2>2, <2>5, <2>7, <2>8 DEF Counted, FoundedNames, FoundedParents
  <2>10. \A x \in AppliedTo(t, "ORG_UNIT_RENAME") \cup {w.id} : \E n \in DOMAIN more :
            more[n].value = proposals'[x].change.name /\ more[n].from = proposals'[x].change.date
    <3> SUFFICES ASSUME NEW x \in AppliedTo(t, "ORG_UNIT_RENAME") \cup {w.id}
                 PROVE  \E n \in DOMAIN more :
                           more[n].value = proposals'[x].change.name /\ more[n].from = proposals'[x].change.date
      OBVIOUS
    <3>1. CASE x = w.id
      BY <1>18, <2>4, <3>1
    <3>2. CASE x # w.id
      <4>1. x \in AppliedTo(t, "ORG_UNIT_RENAME") /\ proposals'[x] = proposals[x]
        BY <1>18, <3>2
      <4>2. PICK n \in DOMAIN unit.names :
               /\ unit.names[n].value = proposals[x].change.name
               /\ unit.names[n].from = proposals[x].change.date
        BY <1>17, <4>1 DEF Entered
      <4>3. n \in DOMAIN more
        BY <2>4
      <4> QED BY <2>4, <4>1, <4>2, <4>3
    <3> QED BY <3>1, <3>2
  <2>11. Entered(t)'
    BY <1>17, <2>1, <2>5, <2>10 DEF Entered
  <2> QED BY <2>9, <2>11
<1>20. ASSUME c.op = "ORG_UNIT_MOVE_TO_CLUSTER" PROVE Counted(t)' /\ Entered(t)'
  <2>1. /\ AppliedTo(t, "ORG_UNIT_MOVE_TO_CLUSTER")' =
             AppliedTo(t, "ORG_UNIT_MOVE_TO_CLUSTER") \cup {w.id}
        /\ AppliedTo(t, "ORG_UNIT_RENAME")' = AppliedTo(t, "ORG_UNIT_RENAME")
    BY <1>20, OneMoreApplied
  <2>2. PlacedBy(t)' = PlacedBy(t) \cup {w.id} /\ NamedBy(t)' = NamedBy(t)
    BY <1>13, <2>1 DEF NamedBy, PlacedBy
  <2>3. Cardinality(PlacedBy(t) \cup {w.id}) = Cardinality(PlacedBy(t)) + 1 /\ Cardinality(PlacedBy(t)) \in Nat
    BY <1>1, <1>18, OneMore
  <2>4. /\ Len(Succeeded(unit.parents, c.parent, c.date)) = Len(unit.parents) + 1
        /\ Len(unit.parents) \in Nat
    <3> HIDE DEF unit, c
    <3>1. PICK S : S = Units \cup {Null}
      OBVIOUS
    <3>2. unit.parents \in Spans(S) /\ c.parent \in S /\ c.date \in Dates
      BY <1>6, <1>7, <3>1
    <3> QED BY <3>2, SucceededLength
  <2>5. /\ w.unit.parents = Succeeded(unit.parents, c.parent, c.date)
        /\ w.unit.names = unit.names
    BY <1>9, <1>20
  <2>6. FoundedParents(t) \in Nat
    BY <1>7, LenProperties, ConstantsAssumption DEF FoundedParents, Unit, Spans
  <2>7. /\ Len(unit.names) = FoundedNames(t) + Cardinality(NamedBy(t))
        /\ Len(unit.parents) = FoundedParents(t) + Cardinality(PlacedBy(t))
    BY <1>17 DEF Counted
  <2>8. Len(w.unit.parents) = FoundedParents(t) + Cardinality(PlacedBy(t) \cup {w.id})
    BY <2>3, <2>4, <2>5, <2>6, <2>7
  <2>9. Counted(t)'
    BY <1>17, <2>2, <2>5, <2>7, <2>8 DEF Counted, FoundedNames, FoundedParents
  <2>10. \A x \in AppliedTo(t, "ORG_UNIT_RENAME") : proposals'[x] = proposals[x]
    BY OneMoreApplied
  <2>11. Entered(t)'
    BY <1>17, <2>1, <2>5, <2>10 DEF Entered
  <2> QED BY <2>9, <2>11
<1> QED BY <1>3, <1>14, <1>15, <1>16, <1>19, <1>20 DEF HistoriesTell

LEMMA CommitTells ==
  ASSUME OrgInv, NEW q, NEW w, NEW p, Entering(q, w, p)
  PROVE  DirectoryTellsProposals'
<1>1. DirectoryTellsProposals' <=> CreatedByProposals' /\ CodesDiffer' /\ HistoriesTell'
  BY TellingParts, PTL
<1> QED BY <1>1, NobodyApplied, CreationTells, ChangeTells

\* A history with its first row.
LEMMA FirstRow ==
  ASSUME NEW value, NEW d \in Dates
  PROVE  Unbroken(<<Opened(value, d)>>, d)
<1> DEFINE spans == <<Opened(value, d)>>
<1>1. DOMAIN spans = {1} /\ Len(spans) = 1 /\ spans[1] = Opened(value, d)
  OBVIOUS
<1>2. spans[1].from = d /\ spans[1].to = Null
  BY <1>1 DEF Opened
<1>3. \A e \in Dates : d <= e => InForce(spans, e) = {1}
  BY <1>1, <1>2 DEF InForce
<1> HIDE DEF spans
<1>4. d >= d
  BY ConstantsAssumption
<1>5. Unbroken(spans, d)
  BY <1>1, <1>2, <1>3, <1>4 DEF Unbroken
<1> QED BY <1>5 DEF spans

\* The rows in force once a row follows the last: before its day the same, then that row.
LEMMA SucceededInForce ==
  ASSUME NEW S, NEW spans \in Spans(S), NEW value \in S, NEW d \in Dates, NEW from \in Dates,
         Unbroken(spans, from), CanFollow(spans, value, d), NEW e \in Dates, from <= e
  PROVE  /\ e < d => InForce(Succeeded(spans, value, d), e) = InForce(spans, e)
         /\ d <= e => /\ InForce(Succeeded(spans, value, d), e) = {Len(spans) + 1}
                      /\ InForce(spans, e) = {Len(spans)}
<1>1. PICK more : more = Succeeded(spans, value, d)
  OBVIOUS
<1>2. PICK last : last = Len(spans)
  OBVIOUS
<1>3. last \in Nat /\ DOMAIN spans = 1 .. last /\ DOMAIN more = 1 .. last + 1
  BY <1>1, <1>2, SucceededLength
<1>4. /\ \A n \in 1 .. last :
           /\ more[n].from = spans[n].from
           /\ more[n].to = IF spans[n].to = Null THEN d ELSE spans[n].to
      /\ more[last + 1].from = d /\ more[last + 1].to = Null
  <2>1. /\ \A n \in DOMAIN spans :
             /\ more[n].from = spans[n].from
             /\ more[n].to = IF spans[n].to = Null THEN d ELSE spans[n].to
        /\ more[last + 1] = [value |-> value, from |-> d, to |-> Null]
    BY <1>1, <1>2, SucceededRows
  <2> QED BY <1>3, <2>1
<1>5. \A n \in 1 .. last : (spans[n].to = Null) <=> (n = last)
  BY <1>2, <1>3 DEF Unbroken
<1>6. PICK k \in 1 .. last : InForce(spans, e) = {k}
  BY <1>3 DEF Unbroken
<1>7. e \in Nat /\ d \in Nat /\ d # Null /\ d > spans[last].from
  BY <1>2, ConstantsAssumption DEF CanFollow
<1>8. ASSUME NEW n \in 1 .. last
      PROVE  spans[n].from \in Nat /\ (spans[n].to # Null => spans[n].to \in Nat)
  <2>1. spans[n].from \in Dates /\ spans[n].to \in Dates \cup {Null}
    BY <1>3, SpanAt
  <2> QED BY <2>1, ConstantsAssumption
<1>9. InForce(more, e) \subseteq 1 .. last + 1 /\ InForce(spans, e) \subseteq 1 .. last
  BY <1>3 DEF InForce
<1>10. CASE d <= e
  <2>1. last \in InForce(spans, e)
    BY <1>3, <1>5, <1>6, <1>7, <1>8, <1>10 DEF InForce
  <2>2. k = last
    BY <1>6, <2>1
  <2>3. ASSUME NEW n \in 1 .. last, n \in InForce(more, e) PROVE FALSE
    <3>1. more[n].from <= e /\ (more[n].to = Null \/ e < more[n].to)
      BY <2>3 DEF InForce
    <3>2. CASE n = last
      BY <1>4, <1>5, <1>7, <1>10, <3>1, <3>2
    <3>3. CASE n # last
      <4>1. spans[n].to # Null /\ more[n].to = spans[n].to /\ more[n].from = spans[n].from
        BY <1>4, <1>5, <3>3
      <4>2. n \in InForce(spans, e)
        BY <1>3, <3>1, <4>1 DEF InForce
      <4> QED BY <1>6, <2>2, <3>3, <4>2
    <3> QED BY <3>2, <3>3
  <2>4. last + 1 \in InForce(more, e)
    BY <1>3, <1>4, <1>7, <1>10 DEF InForce
  <2>5. InForce(more, e) = {last + 1}
    BY <1>3, <1>9, <2>3, <2>4
  <2> QED BY <1>1, <1>2, <1>6, <1>7, <1>10, <2>2, <2>5
<1>11. CASE e < d
  <2>1. last + 1 \notin InForce(more, e)
    BY <1>4, <1>7, <1>11 DEF InForce
  <2>2. ASSUME NEW n \in 1 .. last
        PROVE  n \in InForce(more, e) <=> n \in InForce(spans, e)
    <3>1. n \in DOMAIN more /\ n \in DOMAIN spans
      BY <1>3
    <3>2. CASE n = last
      BY <1>4, <1>5, <1>11, <3>1, <3>2 DEF InForce
    <3>3. CASE n # last
      BY <1>4, <1>5, <3>1, <3>3 DEF InForce
    <3> QED BY <3>2, <3>3
  <2>3. \A n \in InForce(more, e) : n \in 1 .. last
    BY <1>3, <1>9, <2>1
  <2>4. InForce(more, e) = InForce(spans, e)
    BY <1>9, <2>2, <2>3
  <2> QED BY <1>1, <1>7, <1>11, <2>4
<1> QED BY <1>7, <1>10, <1>11

\* A row that follows the last leaves the history unbroken.
LEMMA UnbrokenStays ==
  ASSUME NEW S, NEW spans \in Spans(S), NEW value \in S, NEW d \in Dates, NEW from \in Dates,
         Unbroken(spans, from), CanFollow(spans, value, d)
  PROVE  Unbroken(Succeeded(spans, value, d), from)
<1>1. PICK more : more = Succeeded(spans, value, d)
  OBVIOUS
<1>2. PICK last : last = Len(spans)
  OBVIOUS
<1>3. last \in Nat /\ DOMAIN spans = 1 .. last /\ DOMAIN more = 1 .. last + 1 /\ Len(more) = last + 1
  BY <1>1, <1>2, SucceededLength
<1>4. /\ \A n \in 1 .. last :
           /\ more[n].from = spans[n].from
           /\ more[n].to = IF spans[n].to = Null THEN d ELSE spans[n].to
      /\ more[last + 1].from = d /\ more[last + 1].to = Null
  <2>1. /\ \A n \in DOMAIN spans :
             /\ more[n].from = spans[n].from
             /\ more[n].to = IF spans[n].to = Null THEN d ELSE spans[n].to
        /\ more[last + 1] = [value |-> value, from |-> d, to |-> Null]
    BY <1>1, <1>2, SucceededRows
  <2> QED BY <1>3, <2>1
<1>5. \A n \in 1 .. last : spans[n].from >= from /\ ((spans[n].to = Null) <=> (n = last))
  BY <1>2, <1>3 DEF Unbroken
<1>6. \A e \in Dates : from <= e => \E n \in 1 .. last : InForce(spans, e) = {n}
  BY <1>3 DEF Unbroken
<1>7. last > 0 /\ from \in Nat
  <2>1. from \in Nat /\ from <= from
    BY ConstantsAssumption
  <2>2. PICK n \in 1 .. last : InForce(spans, from) = {n}
    BY <1>6, <2>1
  <2> QED BY <1>3, <2>1
<1>8. ASSUME NEW n \in 1 .. last
      PROVE  spans[n].from \in Nat /\ (spans[n].to # Null => spans[n].to \in Nat)
  <2>1. n \in DOMAIN spans
    BY <1>3
  <2>2. spans[n].from \in Dates /\ spans[n].to \in Dates \cup {Null}
    BY <2>1, SpanAt
  <2> QED BY <2>2, ConstantsAssumption
<1>9. d > spans[last].from /\ d \in Nat /\ d # Null
  BY <1>2, ConstantsAssumption DEF CanFollow
<1>10. \A n \in 1 .. last + 1 : more[n].from >= from /\ ((more[n].to = Null) <=> (n = last + 1))
  <2> SUFFICES ASSUME NEW n \in 1 .. last + 1
               PROVE  more[n].from >= from /\ ((more[n].to = Null) <=> (n = last + 1))
    OBVIOUS
  <2>1. CASE n = last + 1
    <3>1. spans[last].from >= from /\ spans[last].from \in Nat
      BY <1>3, <1>5, <1>7, <1>8
    <3> QED BY <1>4, <1>7, <1>9, <2>1, <3>1
  <2>2. CASE n \in 1 .. last
    BY <1>3, <1>4, <1>5, <1>9, <2>2
  <2> QED BY <1>3, <2>1, <2>2
<1>11. \A e \in Dates : from <= e => \E n \in DOMAIN more : InForce(more, e) = {n}
  <2> SUFFICES ASSUME NEW e \in Dates, from <= e
               PROVE  \E n \in DOMAIN more : InForce(more, e) = {n}
    OBVIOUS
  <2>1. PICK k \in 1 .. last : InForce(spans, e) = {k}
    BY <1>6
  <2>2. e < d => InForce(more, e) = {k}
    BY <1>1, <2>1, SucceededInForce
  <2>3. d <= e => InForce(more, e) = {last + 1}
    BY <1>1, <1>2, SucceededInForce
  <2>4. k \in DOMAIN more /\ last + 1 \in DOMAIN more
    BY <1>3
  <2>5. e < d \/ d <= e
    BY <1>9, ConstantsAssumption
  <2> QED BY <2>2, <2>3, <2>4, <2>5
<1> QED BY <1>1, <1>3, <1>10, <1>11 DEF Unbroken

\* What a unit can bear does not change while its kind and its first day stay.
LEMMA BearsStays ==
  ASSUME NEW dir, NEW later,
         \A v \in Units : dir[v] # Null =>
            later[v] # Null /\ later[v].kind = dir[v].kind /\ later[v].from = dir[v].from,
         NEW parent \in Units \cup {Null}, NEW kind, NEW d, Bears(dir, parent, kind, d)
  PROVE  Bears(later, parent, kind, d)
  BY DEF Bears

\* Where the walk leads up, the parent bears.
LEMMA PlacedBears ==
  ASSUME directory \in [Units -> Unit \cup {Null}],
         NEW kind \in Kinds, NEW parent \in Units \cup {Null}, NEW d \in Dates,
         Placed(kind, parent, d)
  PROVE  Bears(directory, parent, kind, d)
<1>1. CASE kind = "NETWORK"
  BY <1>1 DEF Placed, Bears
<1>2. CASE kind # "NETWORK"
  <2>1. parent # Null /\ Covers[<<parent, kind, d>>]
    BY <1>2 DEF Placed
  <2>2. <<parent, kind, d>> \in Walks
    BY <2>1 DEF Walks
  <2>3. PICK walk \in Walks : walk = <<parent, kind, d>>
    BY <2>2
  <2>4. walk[1] = parent /\ walk[2] = kind /\ walk[3] = d
    BY <2>3
  <2>5. Covers[walk]
    BY <2>1, <2>3
  <2>6. /\ directory[parent] # Null
        /\ directory[parent].from <= d
        /\ directory[parent].kind \in ParentKinds[kind]
    BY <2>4, <2>5, CoversUnfolds
  <2> QED BY <1>2, <2>1, <2>6 DEF Bears
<1> QED BY <1>1, <1>2

\* The place of one unit.
InPlace(dir, u) ==
  /\ Unbroken(dir[u].names, dir[u].from)
  /\ Unbroken(dir[u].parents, dir[u].from)
  /\ \A n \in DOMAIN dir[u].parents :
       Bears(dir, dir[u].parents[n].value, dir[u].kind, dir[u].parents[n].from)

LEMMA CommitSettles ==
  ASSUME OrgInv, NEW q, NEW w, NEW p, Entering(q, w, p)
  PROVE  Settled'
<1>1. Settled /\ directory \in [Units -> Unit \cup {Null}]
  BY DEF OrgInv, TypeOK
<1>2. CASE w.unit = Null
  <2>1. directory' = directory
    BY <1>2, UnitsAreApplied
  <2> QED BY <1>1, <2>1 DEF Settled
<1>3. CASE w.unit # Null
  <2> DEFINE t == p.target
             c == p.change
             unit == directory[p.target]
  <2>1. /\ p \in Proposal /\ t \in Units /\ w.unit \in Unit
        /\ Applying(q, w, p, w.proposal)
        /\ directory' = [directory EXCEPT ![t] = w.unit]
    BY <1>3, UnitsAreApplied
  <2>2. Valid(p, 0) /\ w.unit = After(c, unit)
    BY <2>1 DEF Applying
  <2>3. c \in Change
    BY <2>1, ConstantsAssumption DEF Proposal
  <2>4. c.op \in ChangeOps /\ c.date \in Dates /\ c.parent \in Units \cup {Null}
    BY <2>2, <2>3 DEF Valid, Change
  <2>5. \A u \in Units : directory'[u] = IF u = t THEN w.unit ELSE directory[u]
    BY <1>1, <2>1
  <2>6. PICK old, new : old = directory /\ new = directory'
    OBVIOUS
  <2>7. c.op # "ORG_UNIT_CREATE" => unit \in Unit
    BY <1>1, <2>1, <2>2, <2>4 DEF Valid, ChangeOps
  <2>8. c.op # "ORG_UNIT_CREATE" => w.unit.kind = unit.kind /\ w.unit.from = unit.from
    <3> SUFFICES ASSUME c.op # "ORG_UNIT_CREATE" PROVE w.unit.kind = unit.kind /\ w.unit.from = unit.from
      OBVIOUS
    <3>1. unit \in Unit
      BY <2>7
    <3> HIDE DEF unit, c
    <3>2. CASE c.op = "ORG_UNIT_RENAME"
      BY <2>2, <3>1, <3>2 DEF After, Unit
    <3>3. CASE c.op = "ORG_UNIT_MOVE_TO_CLUSTER"
      BY <2>2, <3>1, <3>3 DEF After, Unit
    <3> QED BY <2>4, <3>2, <3>3 DEF ChangeOps
  <2>9. c.op = "ORG_UNIT_CREATE" => unit = Null
    BY <2>2 DEF Valid
  <2>10. \A v \in Units : old[v] # Null =>
           new[v] # Null /\ new[v].kind = old[v].kind /\ new[v].from = old[v].from
    BY <2>1, <2>5, <2>6, <2>8, <2>9, ConstantsAssumption
  <2>11. \A u \in Units : old[u] # Null => InPlace(old, u)
    BY <1>1, <2>6 DEF Settled, InPlace
  <2>12. \A u \in Units : old[u] # Null =>
           \A n \in DOMAIN old[u].parents : old[u].parents[n].value \in Units \cup {Null}
    <3> SUFFICES ASSUME NEW u \in Units, old[u] # Null, NEW n \in DOMAIN old[u].parents
                 PROVE  old[u].parents[n].value \in Units \cup {Null}
      OBVIOUS
    <3>1. old[u].parents \in Spans(Units \cup {Null})
      BY <1>1, <2>6 DEF Unit
    <3> QED BY <3>1, SpanAt
  <2>13. ASSUME NEW u \in Units, u # t, new[u] # Null
         PROVE  InPlace(new, u)
    <3>1. new[u] = old[u] /\ InPlace(old, u)
      BY <2>5, <2>6, <2>11, <2>13
    <3>2. ASSUME NEW n \in DOMAIN old[u].parents
          PROVE  Bears(new, old[u].parents[n].value, old[u].kind, old[u].parents[n].from)
      <4>1. old[u].parents[n].value \in Units \cup {Null}
        BY <2>12, <2>13, <3>1
      <4>2. Bears(old, old[u].parents[n].value, old[u].kind, old[u].parents[n].from)
        BY <3>1 DEF InPlace
      <4> QED BY <2>10, <4>1, <4>2, BearsStays
    <3> QED BY <3>1, <3>2 DEF InPlace
  <2>14. new[t] = w.unit
    BY <2>1, <2>5, <2>6
  <2>15. ASSUME c.op = "ORG_UNIT_CREATE" PROVE InPlace(new, t)
    <3>1. /\ w.unit.from = c.date /\ w.unit.kind = c.kind
          /\ w.unit.names = <<Opened(c.name, c.date)>>
          /\ w.unit.parents = <<Opened(c.parent, c.date)>>
      BY <2>2, <2>15 DEF After
    <3>2. Unbroken(w.unit.names, w.unit.from) /\ Unbroken(w.unit.parents, w.unit.from)
      BY <2>4, <3>1, FirstRow
    <3>3. c.kind \in Kinds /\ Placed(c.kind, c.parent, c.date)
      BY <2>2, <2>3, <2>15 DEF Valid, Change
    <3>4. Bears(old, c.parent, c.kind, c.date)
      BY <1>1, <2>4, <2>6, <3>3, PlacedBears
    <3>5. Bears(new, c.parent, c.kind, c.date)
      BY <2>4, <2>10, <3>4, BearsStays
    <3>6. \A n \in DOMAIN w.unit.parents : w.unit.parents[n] = Opened(c.parent, c.date)
      BY <3>1
    <3>7. \A n \in DOMAIN w.unit.parents :
             Bears(new, w.unit.parents[n].value, w.unit.kind, w.unit.parents[n].from)
      BY <3>1, <3>5, <3>6 DEF Opened
    <3> QED BY <2>14, <3>2, <3>7 DEF InPlace
  <2>16. ASSUME c.op # "ORG_UNIT_CREATE"
         PROVE  /\ unit \in Unit /\ old[t] = unit /\ old[t] # Null /\ InPlace(old, t)
                /\ unit.from \in Dates /\ unit.names \in Spans(Names)
                /\ unit.parents \in Spans(Units \cup {Null})
                /\ \A n \in DOMAIN unit.parents :
                     /\ unit.parents[n].value \in Units \cup {Null}
                     /\ Bears(new, unit.parents[n].value, unit.kind, unit.parents[n].from)
    <3>1. unit \in Unit /\ old[t] = unit /\ old[t] # Null
      BY <2>1, <2>6, <2>7, <2>16, ConstantsAssumption
    <3>2. InPlace(old, t)
      BY <2>1, <2>11, <3>1
    <3>3. unit.from \in Dates /\ unit.names \in Spans(Names) /\ unit.parents \in Spans(Units \cup {Null})
      BY <3>1 DEF Unit
    <3>4. ASSUME NEW n \in DOMAIN unit.parents
          PROVE  /\ unit.parents[n].value \in Units \cup {Null}
                 /\ Bears(new, unit.parents[n].value, unit.kind, unit.parents[n].from)
      <4>1. unit.parents[n].value \in Units \cup {Null}
        BY <2>1, <2>12, <3>1
      <4>2. Bears(old, unit.parents[n].value, unit.kind, unit.parents[n].from)
        BY <3>1, <3>2 DEF InPlace
      <4> QED BY <2>10, <4>1, <4>2, BearsStays
    <3> QED BY <3>1, <3>2, <3>3, <3>4
  <2>17. ASSUME c.op = "ORG_UNIT_RENAME" PROVE InPlace(new, t)
    <3>1. w.unit.names = Succeeded(unit.names, c.name, c.date) /\ w.unit.parents = unit.parents
      <4>1. unit \in Unit
        BY <2>16, <2>17
      <4> HIDE DEF unit, c
      <4> QED BY <2>2, <2>17, <4>1 DEF After, Unit
    <3>2. w.unit.kind = unit.kind /\ w.unit.from = unit.from
      BY <2>8, <2>17
    <3>3. c.name \in Names /\ CanFollow(unit.names, c.name, c.date)
      BY <2>2, <2>3, <2>17 DEF Valid, Change
    <3>4. Unbroken(unit.names, unit.from) /\ Unbroken(unit.parents, unit.from)
      BY <2>16, <2>17 DEF InPlace
    <3>5. Unbroken(w.unit.names, w.unit.from)
      BY <2>4, <2>16, <2>17, <3>1, <3>2, <3>3, <3>4, UnbrokenStays
    <3> QED BY <2>14, <2>16, <2>17, <3>1, <3>2, <3>4, <3>5 DEF InPlace
  <2>18. ASSUME c.op = "ORG_UNIT_MOVE_TO_CLUSTER" PROVE InPlace(new, t)
    <3>1. w.unit.parents = Succeeded(unit.parents, c.parent, c.date) /\ w.unit.names = unit.names
      <4>1. unit \in Unit
        BY <2>16, <2>18
      <4> HIDE DEF unit, c
      <4> QED BY <2>2, <2>18, <4>1 DEF After, Unit
    <3>2. w.unit.kind = unit.kind /\ w.unit.from = unit.from /\ unit.kind \in Kinds
      BY <2>8, <2>16, <2>18 DEF Unit
    <3>3. CanFollow(unit.parents, c.parent, c.date) /\ Placed(unit.kind, c.parent, c.date)
      BY <2>2, <2>18 DEF Valid
    <3>4. Unbroken(unit.names, unit.from) /\ Unbroken(unit.parents, unit.from)
      BY <2>16, <2>18 DEF InPlace
    <3>5. PICK S : S = Units \cup {Null}
      OBVIOUS
    <3>6. unit.parents \in Spans(S) /\ c.parent \in S
      BY <2>4, <2>16, <2>18, <3>5
    <3>7. unit.from \in Dates
      BY <2>16, <2>18
    <3>8. Unbroken(Succeeded(unit.parents, c.parent, c.date), unit.from)
      BY <2>4, <3>3, <3>4, <3>6, <3>7, UnbrokenStays
    <3>9. Bears(old, c.parent, unit.kind, c.date)
      BY <1>1, <2>4, <2>6, <3>2, <3>3, PlacedBears
    <3>10. Bears(new, c.parent, unit.kind, c.date)
      BY <2>4, <2>10, <3>9, BearsStays
    <3>11. PICK more : more = Succeeded(unit.parents, c.parent, c.date)
      OBVIOUS
    <3>12. /\ Len(unit.parents) \in Nat /\ DOMAIN unit.parents = 1 .. Len(unit.parents)
           /\ DOMAIN more = 1 .. Len(unit.parents) + 1
      BY <2>4, <3>6, <3>11, SucceededLength
    <3>13. /\ \A n \in DOMAIN unit.parents :
                more[n].value = unit.parents[n].value /\ more[n].from = unit.parents[n].from
           /\ more[Len(unit.parents) + 1] = [value |-> c.parent, from |-> c.date, to |-> Null]
      BY <2>4, <3>6, <3>11, SucceededRows
    <3>14. ASSUME NEW n \in DOMAIN more
           PROVE  Bears(new, more[n].value, unit.kind, more[n].from)
      <4>1. CASE n = Len(unit.parents) + 1
        BY <3>10, <3>13, <4>1
      <4>2. CASE n # Len(unit.parents) + 1
        <5>1. n \in DOMAIN unit.parents
          BY <3>12, <4>2
        <5>2. Bears(new, unit.parents[n].value, unit.kind, unit.parents[n].from)
          BY <2>16, <2>18, <5>1
        <5> QED BY <3>13, <5>1, <5>2
      <4> QED BY <4>1, <4>2
    <3> QED BY <2>14, <3>1, <3>2, <3>4, <3>8, <3>11, <3>14 DEF InPlace
  <2>19. InPlace(new, t)
    BY <2>4, <2>15, <2>17, <2>18 DEF ChangeOps
  <2>20. \A u \in Units : new[u] # Null => InPlace(new, u)
    BY <2>13, <2>19
  <2> QED BY <2>6, <2>20 DEF Settled, InPlace
<1> QED BY <1>2, <1>3

-----------------------------------------------------------------------------
(* The invariant *)

LEMMA CommitKeeps ==
  ASSUME OrgInv, NEW r \in Requests, Commit(r)
  PROVE  OrgInv'
<1>1. PICK q, w, p : Entering(q, w, p)
  BY CommitEnters
<1>2. TypeOK' /\ Slots' /\ Writing'
  BY CommitTyped, CommitSlots
<1>3. ApplyFollowsPreview' /\ Numbered' /\ Previewed' /\ PreviewStillHolds'
  BY <1>1, CommitNumbers, CommitPreviewed, CommitStillHolds
<1>4. DirectoryTellsProposals' /\ Settled'
  BY <1>1, CommitTells, CommitSettles
<1> QED BY <1>2, <1>3, <1>4 DEF OrgInv

\* All other steps leave the tables alone.
LEMMA OthersLeaveTables ==
  ASSUME NEW r \in Requests,
         \/ Send(r) \/ Begin(r) \/ Lock(r) \/ Command(r) \/ Replay(r) \/ Refuse(r)
         \/ Fail(r) \/ Receive(r) \/ Retry(r)
  PROVE  UNCHANGED tables
<1>1. Command(r) => UNCHANGED tables
  BY DEF Command, CreateOrgChange, EditOrgChange, PreviewOrgChange, ApplyOrgChange, Write
<1> QED BY <1>1 DEF Send, Begin, Lock, Replay, Refuse, Fail, Receive, Retry

LEMMA OthersKeepSlots ==
  ASSUME OrgInv, NEW r \in Requests,
         \/ Send(r) \/ Begin(r) \/ Lock(r) \/ Command(r) \/ Replay(r) \/ Refuse(r)
         \/ Fail(r) \/ Receive(r) \/ Retry(r)
  PROVE  TypeOK' /\ Slots' /\ Writing'
<1>1. CASE Send(r)
  BY <1>1, SendKeeps
<1>2. CASE Begin(r)
  BY <1>2, BeginKeeps
<1>3. CASE Lock(r)
  BY <1>3, LockKeeps
<1>4. CASE Command(r)
  BY <1>4, CreateKeeps, EditKeeps, PreviewKeeps, ApplyKeeps DEF Command
<1>5. CASE Replay(r)
  <2>1. "REPLAY" \in Answers
    BY DEF Answers
  <2>2. pc[r] # "idle" /\ Answer(r, "REPLAY") /\ UNCHANGED tables
    BY <1>5 DEF Replay
  <2> QED BY <2>1, <2>2, AnswerKeeps
<1>6. CASE Refuse(r)
  <2>1. "REFUSED" \in Answers
    BY DEF Answers
  <2>2. pc[r] # "idle" /\ Answer(r, "REFUSED") /\ UNCHANGED tables
    BY <1>6 DEF Refuse
  <2> QED BY <2>1, <2>2, AnswerKeeps
<1>7. CASE Fail(r)
  <2>1. "UNAVAILABLE" \in Answers
    BY DEF Answers
  <2>2. pc[r] # "idle" /\ Answer(r, "UNAVAILABLE") /\ UNCHANGED tables
    BY <1>7 DEF Fail
  <2> QED BY <2>1, <2>2, AnswerKeeps
<1>8. CASE Receive(r)
  BY <1>8, ReceiveKeeps
<1>9. CASE Retry(r)
  BY <1>9, RetryKeeps
<1> QED BY <1>1, <1>2, <1>3, <1>4, <1>5, <1>6, <1>7, <1>8, <1>9

LEMMA TablesStayKeeps ==
  ASSUME OrgInv, UNCHANGED tables, TypeOK', Slots', Writing'
  PROVE  OrgInv'
  BY TablesStay DEF OrgInv

LEMMA OrgInvariant == Spec => []OrgInv
<1>1. Init => OrgInv
  BY OrgInitially
<1>2. OrgInv /\ [Next]_vars => OrgInv'
  <2> SUFFICES ASSUME OrgInv, [Next]_vars PROVE OrgInv'
    OBVIOUS
  <2>1. ASSUME NEW r \in Requests, Commit(r) PROVE OrgInv'
    BY <2>1, CommitKeeps
  <2>2. ASSUME NEW r \in Requests,
               \/ Send(r) \/ Begin(r) \/ Lock(r) \/ Command(r) \/ Replay(r) \/ Refuse(r)
               \/ Fail(r) \/ Receive(r) \/ Retry(r)
        PROVE  OrgInv'
    BY <2>2, OthersLeaveTables, OthersKeepSlots, TablesStayKeeps
  <2>3. ASSUME NEW u \in Revocable, RevokeRights(u) \/ RegainRights(u) PROVE OrgInv'
    <3>1. UNCHANGED tables
      BY <2>3 DEF RevokeRights, RegainRights
    <3> QED BY <2>3, <3>1, RowsChangeKeeps, TablesStayKeeps
  <2>4. CASE Tick \/ UNCHANGED vars \/ \E u \in Revocable : RightsLapse(u)
    <3>1. /\ UNCHANGED <<tables, rights, pc, request, pending, reply>> /\ start' = start
          /\ clock' \in Nat
          /\ lapsed' \subseteq Users
      BY <2>4, ConstantsAssumption DEF Tick, RightsLapse, vars, tables, OrgInv, TypeOK
    <3>2. UNCHANGED tables
      BY <3>1
    <3> QED BY <3>1, <3>2, TimeKeeps, TablesStayKeeps
  <2> QED BY <2>1, <2>2, <2>3, <2>4 DEF Next, RightsChange
<1> QED BY <1>1, <1>2, PTL DEF Spec

-----------------------------------------------------------------------------
(* What follows *)

\* Rows, commands, locks and answers are always of their kinds: the command of
\* org_change_proposals writes whole rows, whatever its card named.
THEOREM OrgChangesWellFormed == Spec => []TypeOK
<1>1. OrgInv => TypeOK
  BY DEF OrgInv
<1> QED BY <1>1, OrgInvariant, PTL

\* On every day a unit has one name and one parent that bears it: what validate saw
\* when it walked the chain, no later change undoes.
THEOREM UnitsHaveTheirPlace == Spec => []EveryUnitHasItsPlace
<1>1. OrgInv => EveryUnitHasItsPlace
  <2> SUFFICES ASSUME OrgInv, NEW u \in Units, directory[u] # Null,
                      NEW d \in Dates, directory[u].from <= d
               PROVE  /\ Cardinality(InForce(directory[u].names, d)) = 1
                      /\ \E n \in DOMAIN directory[u].parents :
                           /\ InForce(directory[u].parents, d) = {n}
                           /\ Bears(directory, directory[u].parents[n].value, directory[u].kind, d)
    BY DEF EveryUnitHasItsPlace
  <2>1. directory[u] \in Unit
    BY DEF OrgInv, TypeOK
  <2>2. /\ Unbroken(directory[u].names, directory[u].from)
        /\ Unbroken(directory[u].parents, directory[u].from)
        /\ \A n \in DOMAIN directory[u].parents :
             Bears(directory, directory[u].parents[n].value, directory[u].kind,
                   directory[u].parents[n].from)
    BY DEF OrgInv, Settled
  <2>3. PICK m \in DOMAIN directory[u].names : InForce(directory[u].names, d) = {m}
    BY <2>2 DEF Unbroken
  <2>4. Cardinality({m}) = 1
    BY FS_Singleton
  <2>5. PICK n \in DOMAIN directory[u].parents : InForce(directory[u].parents, d) = {n}
    BY <2>2 DEF Unbroken
  <2>6. directory[u].parents[n].from <= d
    BY <2>5 DEF InForce
  <2>7. Bears(directory, directory[u].parents[n].value, directory[u].kind, d)
    <3> DEFINE v == directory[u].parents[n].value
               e == directory[u].parents[n].from
    <3>1. directory[u].parents \in Spans(Units \cup {Null})
      BY <2>1 DEF Unit
    <3>2. v \in Units \cup {Null} /\ e \in Nat
      BY <3>1, SpanAt, ConstantsAssumption
    <3>3. Bears(directory, v, directory[u].kind, e)
      BY <2>2
    <3>4. v # Null /\ directory[v] # Null => directory[v].from \in Nat
      <4> SUFFICES ASSUME v # Null, directory[v] # Null PROVE directory[v].from \in Nat
        OBVIOUS
      <4>1. directory[v] \in Unit
        BY <3>2 DEF OrgInv, TypeOK
      <4> QED BY <4>1, ConstantsAssumption DEF Unit
    <3>5. d \in Nat
      BY ConstantsAssumption
    <3> QED BY <2>6, <3>2, <3>3, <3>4, <3>5 DEF Bears
  <2> QED BY <2>3, <2>4, <2>5, <2>7
<1> QED BY <1>1, OrgInvariant, PTL

\* The directory is what the applied proposals say and nothing else: no change is
\* lost, entered twice or entered without its proposal (records and expected version
\* under the lock on the directory).
THEOREM DirectoryIsTold == Spec => []DirectoryTellsProposals
<1>1. OrgInv => DirectoryTellsProposals
  BY DEF OrgInv
<1> QED BY <1>1, OrgInvariant, PTL

\* A preview made at this revision shows the unit as it is and a change that is
\* still possible: every statement on the directory moves the revision.
THEOREM PreviewsStillHold == Spec => []PreviewStillHolds
<1>1. OrgInv => PreviewStillHolds
  BY DEF OrgInv
<1> QED BY <1>1, OrgInvariant, PTL

\* The audit rows number the versions, and an application is the last of them, right
\* after a preview by the same editor.
THEOREM ApplicationsFollowPreviews == Spec => []ApplyFollowsPreview
<1>1. OrgInv => ApplyFollowsPreview
  BY DEF OrgInv
<1> QED BY <1>1, OrgInvariant, PTL

\* At the COMMIT of an application the unit still is the one that the preview stored,
\* and the change the one that was previewed (preview_base_version, preview_hash).
THEOREM AppliedIsWhatWasShown == Spec => AppliedAsPreviewed
<1> DEFINE Shown == \A id \in Proposals :
             (proposals'[id] # proposals[id] /\ proposals'[id].status = "APPLIED") =>
               /\ proposals[id].status = "PREVIEW"
               /\ proposals[id].preview.before = directory[proposals[id].target]
               /\ proposals[id].preview.of = proposals'[id].change
<1>1. OrgInv /\ [Next]_vars => [Shown]_vars
  <2> SUFFICES ASSUME OrgInv, Next PROVE Shown
    OBVIOUS
  <2>1. ASSUME NEW r \in Requests, Commit(r) PROVE Shown
    <3>1. PICK q, w, p : Entering(q, w, p)
      BY <2>1, CommitEnters
    <3>2. w.id \in Proposals /\ w.proposal # Null
      BY <3>1, WriteParts
    <3> SUFFICES ASSUME NEW id \in Proposals, proposals'[id] # proposals[id],
                        proposals'[id].status = "APPLIED"
                 PROVE  /\ proposals[id].status = "PREVIEW"
                        /\ proposals[id].preview.before = directory[proposals[id].target]
                        /\ proposals[id].preview.of = proposals'[id].change
      OBVIOUS
    <3>3. id = w.id /\ proposals'[id] = w.proposal
      BY <3>1, <3>2 DEF Entering, OrgInv, TypeOK
    <3>4. w.unit # Null
      BY <3>1, <3>3, UnitsAreApplied
    <3>5. Applying(q, w, p, w.proposal) /\ p = proposals[id] /\ p \in Proposal
      BY <3>1, <3>3, <3>4, UnitsAreApplied DEF Entering
    <3>6. /\ p.status = "PREVIEW" /\ p.preview.base = revision /\ p.preview.of = p.change
          /\ w.proposal.change = p.change
      BY <3>5 DEF Applying
    <3>7. p.preview.before = directory[p.target]
      BY <3>5, <3>6, ConstantsAssumption DEF OrgInv, PreviewStillHolds
    <3> QED BY <3>3, <3>5, <3>6, <3>7
  <2>2. proposals' = proposals => Shown
    OBVIOUS
  <2>3. (\A r \in Requests : ~Commit(r)) => proposals' = proposals
    <3>1. UNCHANGED tables => proposals' = proposals
      BY DEF tables
    <3>2. \A u \in Revocable : RightsChange(u) => UNCHANGED tables
      BY DEF RightsChange, RevokeRights, RightsLapse, RegainRights
    <3>3. Tick => UNCHANGED tables
      BY DEF Tick
    <3> QED BY <3>1, <3>2, <3>3, OthersLeaveTables DEF Next
  <2> HIDE DEF Shown
  <2> QED BY <2>1, <2>2, <2>3
<1> QED BY <1>1, OrgInvariant, PTL DEF Spec, AppliedAsPreviewed

\* Whoever is answered with a change or with a saved answer has the permissions for
\* it by the rows of that moment: the SHARE locks of access keep his session and his
\* grants from being revoked until the transaction ends.
THEOREM RightsWhenAnswered == Spec => RightsHeldWhenAnswered
<1> DEFINE Answered(r) == pc[r] \in {"locked", "applied"} /\ reply'[r] \in {"OK", "REPLAY"}
           Entitled(r) == MayAct(request[r]) /\ MayChange(request[r])
           Kept == \A r \in Requests :
             (pc[r] \in {"locked", "applied"} /\ reply'[r] \in {"OK", "REPLAY"}) =>
               /\ MayAct(request[r])
               /\ MayChange(request[r])
<1>1. OrgInv /\ [Next]_vars => [Kept]_vars
  <2> SUFFICES ASSUME OrgInv, Next, NEW r \in Requests, Answered(r) PROVE Entitled(r)
    OBVIOUS
  <2>1. MayAct(request[r])
    BY DEF OrgInv, Slots, HoldsRights
  <2>2. reply[r] = Null
    BY DEF OrgInv, Slots
  <2>3. Null # "OK" /\ Null # "REPLAY"
    BY ConstantsAssumption DEF Answers
  <2>4. reply'[r] # reply[r]
    BY <2>2, <2>3
  <2>5. ASSUME NEW o \in Requests, NEW code, Answer(o, code)
        PROVE  o = r /\ (code \in {"OK", "REPLAY"})
    BY <2>4, <2>5 DEF Answer, OrgInv, TypeOK
  <2>6. ASSUME NEW o \in Requests, Send(o) \/ Lock(o) \/ Command(o) PROVE FALSE
    <3>1. reply' = reply
      BY <2>6 DEF Send, Lock, Command, CreateOrgChange, EditOrgChange, PreviewOrgChange,
                  ApplyOrgChange, Write
    <3> QED BY <2>4, <3>1
  <2>7. ASSUME NEW o \in Requests, Begin(o) PROVE FALSE
    <3>1. CASE reply' = reply
      BY <2>4, <3>1
    <3>2. CASE Answer(o, "REFUSED")
      BY <2>5, <3>2
    <3> QED BY <2>7, <3>1, <3>2 DEF Begin
  <2>8. ASSUME NEW o \in Requests, Refuse(o) \/ Fail(o) PROVE FALSE
    <3>1. Answer(o, "REFUSED") \/ Answer(o, "UNAVAILABLE")
      BY <2>8 DEF Refuse, Fail
    <3>2. "REFUSED" \notin {"OK", "REPLAY"} /\ "UNAVAILABLE" \notin {"OK", "REPLAY"}
      OBVIOUS
    <3> QED BY <2>5, <3>1, <3>2
  <2>9. ASSUME NEW o \in Requests, Receive(o) \/ Retry(o) PROVE FALSE
    <3>1. o # r
      BY <2>9 DEF Receive, Retry
    <3>2. reply'[r] = reply[r]
      BY <2>9, <3>1 DEF Receive, Retry, OrgInv, TypeOK
    <3> QED BY <2>4, <3>2
  <2>10. ASSUME NEW o \in Requests, Replay(o) PROVE MayChange(request[r])
    <3>1. o = r
      BY <2>5, <2>10 DEF Replay
    <3> QED BY <2>10, <3>1 DEF Replay
  <2>11. ASSUME NEW o \in Requests, Commit(o) PROVE MayChange(request[r])
    <3>1. PICK code \in {"OK", "UNAVAILABLE"} : Answer(o, code)
      BY <2>11 DEF Commit
    <3>2. o = r
      BY <2>5, <3>1
    <3> QED BY <2>11, <3>2 DEF Commit, OrgInv, Writing, Fits
  <2>12. ASSUME NEW u \in Revocable, RightsChange(u) PROVE FALSE
    BY <2>4, <2>12 DEF RightsChange, RevokeRights, RightsLapse, RegainRights
  <2>13. ASSUME Tick PROVE FALSE
    BY <2>4, <2>13 DEF Tick
  <2>14. MayChange(request[r])
    <3> HIDE DEF Answered, Entitled
    <3> QED BY <2>6, <2>7, <2>8, <2>9, <2>10, <2>11, <2>12, <2>13 DEF Next
  <2> QED BY <2>1, <2>14
<1> QED BY <1>1, OrgInvariant, PTL DEF Spec, RightsHeldWhenAnswered

-----------------------------------------------------------------------------
(* The calendar *)

\* On a day with one row in force, OnDays tells its value.
LEMMA ValueOnDay ==
  ASSUME NEW spans, NEW from, NEW e \in Dates, from <= e, NEW k, InForce(spans, e) = {k}
  PROVE  OnDays(spans, from)[e] = spans[k].value
<1>1. k \in DOMAIN spans
  BY DEF InForce
<1>2. (CHOOSE n \in DOMAIN spans : n \in InForce(spans, e)) = k
  BY <1>1
<1> QED BY <1>2 DEF OnDays

LEMMA DaysSucceed ==
  ASSUME NEW S, NEW spans \in Spans(S), NEW value \in S, NEW d \in Dates, NEW from \in Dates,
         Unbroken(spans, from), CanFollow(spans, value, d)
  PROVE  OnDays(Succeeded(spans, value, d), from) = Calendar!Planned(OnDays(spans, from), value, d)
<1>0. PICK more : more = Succeeded(spans, value, d)
  OBVIOUS
<1>1. DOMAIN OnDays(spans, from) = {e \in Dates : from <= e}
  BY DEF OnDays
<1>2. /\ \A n \in DOMAIN spans : more[n].value = spans[n].value
      /\ more[Len(spans) + 1] = [value |-> value, from |-> d, to |-> Null]
  BY <1>0, SucceededRows
<1>3. ASSUME NEW e \in Dates, from <= e
      PROVE  OnDays(more, from)[e] = IF d <= e THEN value ELSE OnDays(spans, from)[e]
  <2>1. PICK k \in DOMAIN spans : InForce(spans, e) = {k}
    BY <1>3 DEF Unbroken
  <2>2. d \in Nat /\ e \in Nat
    BY ConstantsAssumption
  <2>3. CASE d <= e
    <3>1. InForce(more, e) = {Len(spans) + 1}
      BY <1>3, <2>3, <1>0, SucceededInForce
    <3>2. more[Len(spans) + 1].value = value
      BY <1>2
    <3>3. OnDays(more, from)[e] = more[Len(spans) + 1].value
      BY <1>3, <3>1, ValueOnDay
    <3> QED BY <2>3, <3>2, <3>3
  <2>4. CASE e < d
    <3>1. InForce(more, e) = {k}
      BY <1>3, <2>1, <2>4, <1>0, SucceededInForce
    <3>2. more[k].value = spans[k].value
      BY <1>2
    <3>3. OnDays(more, from)[e] = more[k].value
      BY <1>3, <3>1, ValueOnDay
    <3>4. OnDays(spans, from)[e] = spans[k].value
      BY <1>3, <2>1, ValueOnDay
    <3> QED BY <2>2, <2>4, <3>2, <3>3, <3>4
  <2> QED BY <2>2, <2>3, <2>4
<1>4. OnDays(more, from) = [e \in {x \in Dates : from <= x} |-> OnDays(more, from)[e]]
  BY DEF OnDays
<1>5. OnDays(more, from)
        = [e \in {x \in Dates : from <= x} |-> IF d <= e THEN value ELSE OnDays(spans, from)[e]]
  BY <1>3, <1>4
<1> QED BY <1>0, <1>1, <1>5 DEF Calendar!Planned

LEMMA DaysFree ==
  ASSUME NEW S, NEW spans \in Spans(S), NEW value \in S, NEW d \in Dates, NEW from \in Dates,
         Unbroken(spans, from), CanFollow(spans, value, d)
  PROVE  Calendar!Free(OnDays(spans, from), value, d)
<1> DEFINE last == Len(spans)
           b == spans[last].from
<1>1. DOMAIN OnDays(spans, from) = {e \in Dates : from <= e}
  BY DEF OnDays
<1>2. last \in Nat /\ DOMAIN spans = 1 .. last
  BY SucceededLength
<1>3. d > b /\ value # spans[last].value /\ spans[last].to = Null
  BY DEF CanFollow
<1>4. from \in Nat /\ from <= from
  BY ConstantsAssumption
<1>5. last \in DOMAIN spans
  <2>1. PICK k \in DOMAIN spans : InForce(spans, from) = {k}
    BY <1>4 DEF Unbroken
  <2> QED BY <1>2, <2>1
<1>6. b \in Dates /\ from <= b
  <2>1. b \in Dates
    BY <1>5, SpanAt
  <2>2. b >= from
    BY <1>5 DEF Unbroken
  <2> QED BY <1>4, <2>1, <2>2, ConstantsAssumption
<1>7. ASSUME NEW e \in Dates, b <= e
      PROVE  OnDays(spans, from)[e] = spans[last].value
  <2>1. from <= e
    <3>1. b \in Nat /\ e \in Nat
      BY <1>6, ConstantsAssumption
    <3> QED BY <1>4, <1>6, <1>7, <3>1
  <2>2. PICK k \in DOMAIN spans : InForce(spans, e) = {k}
    BY <2>1 DEF Unbroken
  <2>3. last \in InForce(spans, e)
    BY <1>3, <1>5, <1>7 DEF InForce
  <2>4. InForce(spans, e) = {last}
    BY <2>2, <2>3
  <2> QED BY <2>1, <2>4, ValueOnDay
<1>8. b <= b /\ b < d
  <2>1. b \in Nat /\ d \in Nat
    BY <1>6, ConstantsAssumption
  <2> QED BY <1>3, <2>1
<1>9. OnDays(spans, from)[b] = spans[last].value
  BY <1>6, <1>7, <1>8
<1> HIDE DEF b, last
<1>10. b \in DOMAIN OnDays(spans, from)
  BY <1>1, <1>6
<1>11. \A e \in DOMAIN OnDays(spans, from) : b <= e => OnDays(spans, from)[e] = OnDays(spans, from)[b]
  BY <1>1, <1>7, <1>9
<1> QED BY <1>3, <1>8, <1>9, <1>10, <1>11 DEF Calendar!Free

\* A change the code finds valid is possible on the calendar: of the walk up the
\* directory its first step is enough.
LEMMA ValidIsPossible ==
  ASSUME OrgInv, NEW p \in Proposal, Valid(p, 0)
  PROVE  Calendar!Possible(p.change, p.target)
<1> DEFINE c == p.change
           t == p.target
           unit == directory[p.target]
           there == {v \in Units : directory[v] # Null}
<1>1. c \in Change /\ t \in Units
  BY ConstantsAssumption DEF Proposal
<1>2. c.op \in ChangeOps /\ c.date \in Dates /\ c.parent \in Units \cup {Null}
  BY <1>1 DEF Valid, Change
<1>3. directory \in [Units -> Unit \cup {Null}]
  BY DEF OrgInv, TypeOK
<1>4. ASSUME NEW parent \in Units \cup {Null}, NEW kind \in Kinds, Placed(kind, parent, c.date)
      PROVE  Calendar!MayBear(parent, kind, c.date)
  <2>1. Bears(directory, parent, kind, c.date)
    BY <1>2, <1>3, <1>4, PlacedBears
  <2>2. CASE kind = "NETWORK"
    BY <2>1, <2>2 DEF Bears, Calendar!MayBear
  <2>3. CASE kind # "NETWORK"
    <3>1. /\ parent \in there
          /\ directory[parent].from <= c.date
          /\ directory[parent].kind \in ParentKinds[kind]
      BY <2>1, <2>3 DEF Bears
    <3> QED BY <2>3, <3>1 DEF Calendar!MayBear, CalendarOf
  <2> QED BY <2>2, <2>3
<1>5. CASE c.op = "ORG_UNIT_CREATE"
  <2>1. /\ unit = Null /\ c.kind \in Kinds
        /\ \A u \in Units : directory[u] # Null => directory[u].code # c.code
        /\ Placed(c.kind, c.parent, c.date)
    BY <1>1, <1>5 DEF Valid, Change
  <2>2. Calendar!MayBear(c.parent, c.kind, c.date)
    BY <1>2, <1>4, <2>1
  <2>3. t \notin there
    BY <2>1
  <2>4. \A u \in there : CalendarOf(directory[u]).code # c.code
    BY <2>1 DEF CalendarOf
  <2> QED BY <1>2, <1>5, <2>2, <2>3, <2>4 DEF Calendar!Possible
<1>6. ASSUME c.op # "ORG_UNIT_CREATE"
      PROVE  /\ t \in there /\ unit \in Unit /\ unit.from \in Dates /\ unit.kind \in Kinds
             /\ unit.names \in Spans(Names) /\ unit.parents \in Spans(Units \cup {Null})
             /\ Unbroken(unit.names, unit.from) /\ Unbroken(unit.parents, unit.from)
  <2>1. unit # Null
    BY <1>2, <1>6 DEF Valid, ChangeOps
  <2>2. unit \in Unit
    BY <1>1, <1>3, <2>1
  <2>3. Unbroken(unit.names, unit.from) /\ Unbroken(unit.parents, unit.from)
    BY <1>1, <2>1 DEF OrgInv, Settled
  <2> QED BY <1>1, <2>1, <2>2, <2>3 DEF Unit
<1>7. CASE c.op = "ORG_UNIT_RENAME"
  <2>1. c.name \in Names /\ CanFollow(unit.names, c.name, c.date)
    BY <1>1, <1>7 DEF Valid, Change
  <2>2. Calendar!Free(OnDays(unit.names, unit.from), c.name, c.date)
    BY <1>2, <1>6, <1>7, <2>1, DaysFree
  <2>3. t \in there
    BY <1>6, <1>7
  <2> QED BY <1>2, <1>7, <2>2, <2>3 DEF Calendar!Possible, CalendarOf
<1>8. CASE c.op = "ORG_UNIT_MOVE_TO_CLUSTER"
  <2>1. CanFollow(unit.parents, c.parent, c.date) /\ Placed(unit.kind, c.parent, c.date)
    BY <1>8 DEF Valid
  <2>2. PICK S : S = Units \cup {Null}
    OBVIOUS
  <2>3. unit.parents \in Spans(S) /\ c.parent \in S
    BY <1>2, <1>6, <1>8, <2>2
  <2>4. unit.from \in Dates /\ Unbroken(unit.parents, unit.from)
    BY <1>6, <1>8
  <2>5. Calendar!Free(OnDays(unit.parents, unit.from), c.parent, c.date)
    BY <1>2, <2>1, <2>3, <2>4, DaysFree
  <2>6. t \in there /\ unit.kind \in Kinds
    BY <1>6, <1>8
  <2>7. Calendar!MayBear(c.parent, unit.kind, c.date)
    BY <1>2, <1>4, <2>1, <2>6
  <2> QED BY <1>2, <1>8, <2>5, <2>6, <2>7 DEF Calendar!Possible, CalendarOf
<1> QED BY <1>2, <1>5, <1>7, <1>8 DEF ChangeOps

\* The rows that a change leaves say what the changed calendar says.
LEMMA RowsAreChanged ==
  ASSUME OrgInv, NEW p \in Proposal, Valid(p, 0)
  PROVE  CalendarOf(After(p.change, directory[p.target]))
           = Calendar!Changed(p.change, p.target)
<1> DEFINE c == p.change
           t == p.target
           there == {v \in Units : directory[v] # Null}
<1>0. PICK unit : unit = directory[t]
  OBVIOUS
<1>1. c \in Change /\ t \in Units
  BY ConstantsAssumption DEF Proposal
<1>2. c.op \in ChangeOps /\ c.date \in Dates /\ c.parent \in Units \cup {Null}
  BY <1>1 DEF Valid, Change
<1>3. directory \in [Units -> Unit \cup {Null}]
  BY DEF OrgInv, TypeOK
<1>4. CASE c.op = "ORG_UNIT_CREATE"
  <2>1. ASSUME NEW value
        PROVE  OnDays(<<Opened(value, c.date)>>, c.date) = [d \in Calendar!From(c.date) |-> value]
    <3>1. PICK spans : spans = <<Opened(value, c.date)>>
      OBVIOUS
    <3>2. DOMAIN spans = {1} /\ spans[1].value = value /\ spans[1].from = c.date /\ spans[1].to = Null
      BY <3>1 DEF Opened
    <3>3. ASSUME NEW e \in Dates, c.date <= e PROVE OnDays(spans, c.date)[e] = value
      <4>1. InForce(spans, e) = {1}
        BY <3>2, <3>3 DEF InForce
      <4> QED BY <3>2, <3>3, <4>1, ValueOnDay
    <3>4. OnDays(spans, c.date) = [e \in {x \in Dates : c.date <= x} |-> OnDays(spans, c.date)[e]]
      BY DEF OnDays
    <3>5. OnDays(spans, c.date) = [e \in {x \in Dates : c.date <= x} |-> value]
      BY <3>3, <3>4
    <3> QED BY <3>1, <3>5 DEF Calendar!From
  <2>2. OnDays(<<Opened(c.name, c.date)>>, c.date) = [d \in Calendar!From(c.date) |-> c.name]
    BY <2>1
  <2>3. OnDays(<<Opened(c.parent, c.date)>>, c.date) = [d \in Calendar!From(c.date) |-> c.parent]
    BY <2>1
  <2>4. CalendarOf(After(c, directory[t])) = Calendar!NewUnit(c)
    BY <1>4, <2>2, <2>3 DEF After, CalendarOf, Calendar!NewUnit
  <2> QED BY <1>4, <2>4 DEF Calendar!Changed
<1>5. ASSUME c.op # "ORG_UNIT_CREATE"
      PROVE  /\ t \in there /\ unit \in Unit /\ unit.from \in Dates
             /\ unit.names \in Spans(Names) /\ unit.parents \in Spans(Units \cup {Null})
             /\ Unbroken(unit.names, unit.from) /\ Unbroken(unit.parents, unit.from)
  <2>1. unit # Null
    BY <1>0, <1>2, <1>5 DEF Valid, ChangeOps
  <2>2. unit \in Unit
    BY <1>0, <1>1, <1>3, <2>1
  <2>3. Unbroken(unit.names, unit.from) /\ Unbroken(unit.parents, unit.from)
    BY <1>0, <1>1, <2>1 DEF OrgInv, Settled
  <2> QED BY <1>0, <1>1, <2>1, <2>2, <2>3 DEF Unit
<1>6. CASE c.op = "ORG_UNIT_RENAME"
  <2>1. c.name \in Names /\ CanFollow(unit.names, c.name, c.date)
    BY <1>0, <1>1, <1>6 DEF Valid, Change
  <2>2. OnDays(Succeeded(unit.names, c.name, c.date), unit.from)
          = Calendar!Planned(OnDays(unit.names, unit.from), c.name, c.date)
    BY <1>2, <1>5, <1>6, <2>1, DaysSucceed
  <2>3. PICK more : more = Succeeded(unit.names, c.name, c.date)
    OBVIOUS
  <2>4. After(c, unit) = [unit EXCEPT !.names = more]
    BY <1>6, <2>3 DEF After
  <2>5. unit \in Unit
    BY <1>5, <1>6
  <2>6. PICK new : new = After(c, unit)
    OBVIOUS
  <2>7. /\ new.names = more /\ new.kind = unit.kind /\ new.code = unit.code
        /\ new.from = unit.from /\ new.parents = unit.parents
    BY <2>4, <2>5, <2>6 DEF Unit
  <2>8. CalendarOf(new)
          = [CalendarOf(unit) EXCEPT
              !.name = Calendar!Planned(OnDays(unit.names, unit.from), c.name, c.date)]
    BY <2>2, <2>3, <2>7 DEF CalendarOf
  <2>9. t \in there
    BY <1>5, <1>6
  <2> QED BY <1>0, <1>6, <2>6, <2>8, <2>9 DEF Calendar!Changed, CalendarOf
<1>7. CASE c.op = "ORG_UNIT_MOVE_TO_CLUSTER"
  <2>1. CanFollow(unit.parents, c.parent, c.date)
    BY <1>0, <1>7 DEF Valid
  <2>2. PICK S : S = Units \cup {Null}
    OBVIOUS
  <2>3. unit.parents \in Spans(S) /\ c.parent \in S
    BY <1>2, <1>5, <1>7, <2>2
  <2>4. unit.from \in Dates /\ Unbroken(unit.parents, unit.from) /\ unit \in Unit /\ t \in there
    BY <1>5, <1>7
  <2>5. OnDays(Succeeded(unit.parents, c.parent, c.date), unit.from)
          = Calendar!Planned(OnDays(unit.parents, unit.from), c.parent, c.date)
    BY <1>2, <2>1, <2>3, <2>4, DaysSucceed
  <2>6. PICK more : more = Succeeded(unit.parents, c.parent, c.date)
    OBVIOUS
  <2>7. After(c, unit) = [unit EXCEPT !.parents = more]
    BY <1>7, <2>6 DEF After
  <2>8. PICK new : new = After(c, unit)
    OBVIOUS
  <2>9. /\ new.parents = more /\ new.kind = unit.kind /\ new.code = unit.code
        /\ new.from = unit.from /\ new.names = unit.names
    BY <2>4, <2>7, <2>8 DEF Unit
  <2>10. CalendarOf(new)
          = [CalendarOf(unit) EXCEPT
              !.parent = Calendar!Planned(OnDays(unit.parents, unit.from), c.parent, c.date)]
    BY <2>5, <2>6, <2>9 DEF CalendarOf
  <2> QED BY <1>0, <1>7, <2>4, <2>8, <2>10 DEF Calendar!Changed, CalendarOf
<1> QED BY <1>2, <1>4, <1>6, <1>7 DEF ChangeOps

\* A command that writes has a key under which nothing is on record.
KeysFresh == \A r \in Requests : pc[r] = "applied" => records[KeyOf(request[r])] = Null

LEMMA KeysStayFresh == OrgInv /\ KeysFresh /\ [Next]_vars => KeysFresh'
<1> SUFFICES ASSUME OrgInv, KeysFresh, [Next]_vars, NEW o \in Requests, pc'[o] = "applied"
             PROVE  records'[KeyOf(request'[o])] = Null
  BY DEF KeysFresh, KeyOf
<1>1. pc \in [Requests -> {"idle", "sent", "authorized", "locked", "applied", "replied"}]
  BY DEF OrgInv, TypeOK
<1>2. ASSUME pc[o] = "applied", request' = request, records' = records
      PROVE  records'[KeyOf(request'[o])] = Null
  BY <1>2 DEF KeysFresh
<1>3. ASSUME NEW r \in Requests,
             \/ Begin(r) \/ Lock(r) \/ Replay(r) \/ Refuse(r) \/ Fail(r) \/ Retry(r)
      PROVE  records'[KeyOf(request'[o])] = Null
  <2>1. pc[o] = "applied"
    BY <1>1, <1>3 DEF Begin, Lock, Replay, Refuse, Fail, Retry, Answer
  <2>2. request' = request /\ records' = records
    BY <1>3 DEF Begin, Lock, Replay, Refuse, Fail, Retry, Answer, tables
  <2> QED BY <1>2, <2>1, <2>2
<1>4. ASSUME NEW r \in Requests, Send(r) \/ Receive(r)
      PROVE  records'[KeyOf(request'[o])] = Null
  <2>1. pc[o] = "applied" /\ o # r
    BY <1>1, <1>4 DEF Send, Receive
  <2>2. request'[o] = request[o] /\ records' = records
    BY <1>4, <2>1 DEF Send, Receive, tables, OrgInv, TypeOK
  <2> QED BY <2>1, <2>2 DEF KeysFresh, KeyOf
<1>5. ASSUME NEW r \in Requests, Command(r)
      PROVE  records'[KeyOf(request'[o])] = Null
  <2>1. /\ records[KeyOf(request[r])] = Null
        /\ request' = request /\ records' = records /\ pc' = [pc EXCEPT ![r] = "applied"]
    BY <1>5 DEF Command, CreateOrgChange, EditOrgChange, PreviewOrgChange, ApplyOrgChange,
                Runs, Fresh, Write, tables
  <2>2. CASE o = r
    BY <2>1, <2>2
  <2>3. CASE o # r
    <3>1. pc[o] = "applied"
      BY <1>1, <2>1, <2>3
    <3> QED BY <1>2, <2>1, <3>1
  <2> QED BY <2>2, <2>3
<1>6. ASSUME NEW r \in Requests, Commit(r)
      PROVE  records'[KeyOf(request'[o])] = Null
  <2>1. pc[r] = "applied" /\ pc' = [pc EXCEPT ![r] = "replied"]
    BY <1>6 DEF Commit, Answer
  <2>2. pc[o] = "applied" /\ o # r
    BY <1>1, <2>1
  <2>3. HoldsDirectory(o) /\ HoldsDirectory(r)
    BY <2>1, <2>2 DEF HoldsDirectory
  <2> QED BY <2>2, <2>3 DEF OrgInv, Slots
<1>7. ASSUME NEW u \in Revocable, RightsChange(u)
      PROVE  records'[KeyOf(request'[o])] = Null
  <2>1. pc' = pc /\ request' = request /\ records' = records
    BY <1>7 DEF RightsChange, RevokeRights, RightsLapse, RegainRights, tables
  <2> QED BY <1>2, <2>1
<1>8. CASE Tick
  <2>1. pc' = pc /\ request' = request /\ records' = records
    BY <1>8 DEF Tick, tables
  <2> QED BY <1>2, <2>1
<1>9. CASE UNCHANGED vars
  BY <1>2, <1>9 DEF vars
<1> QED BY <1>3, <1>4, <1>5, <1>6, <1>7, <1>8, <1>9 DEF Next

\* The directory as its calendar, the proposals as their notes.
CalendarIn(dir) == [u \in {v \in Units : dir[v] # Null} |-> CalendarOf(dir[u])]

NotesIn(props) == [id \in {p \in Proposals : props[p] # Null} |-> NoteOf(props[id])]

LEMMA PutInCalendar ==
  ASSUME NEW dir \in [Units -> Unit \cup {Null}], NEW t \in Units, NEW unit \in Unit
  PROVE  CalendarIn([dir EXCEPT ![t] = unit]) = Calendar!Put(CalendarIn(dir), t, CalendarOf(unit))
<1> PICK new : new = [dir EXCEPT ![t] = unit]
  OBVIOUS
<1>1. unit # Null
  BY ConstantsAssumption
<1>2. \A u \in Units : new[u] = IF u = t THEN unit ELSE dir[u]
  OBVIOUS
<1>3. {v \in Units : new[v] # Null} = {v \in Units : dir[v] # Null} \cup {t}
  BY <1>1, <1>2
<1>4. CalendarIn(new) = [u \in {v \in Units : dir[v] # Null} \cup {t} |->
                           IF u = t THEN CalendarOf(unit) ELSE CalendarOf(dir[u])]
  BY <1>2, <1>3 DEF CalendarIn
<1> QED BY <1>4 DEF CalendarIn, Calendar!Put

LEMMA PutInNotes ==
  ASSUME NEW props \in [Proposals -> Proposal \cup {Null}], NEW id \in Proposals, NEW n \in Proposal
  PROVE  NotesIn([props EXCEPT ![id] = n]) = Calendar!Put(NotesIn(props), id, NoteOf(n))
<1> PICK new : new = [props EXCEPT ![id] = n]
  OBVIOUS
<1>1. n # Null
  BY ConstantsAssumption
<1>2. \A p \in Proposals : new[p] = IF p = id THEN n ELSE props[p]
  OBVIOUS
<1>3. {p \in Proposals : new[p] # Null} = {p \in Proposals : props[p] # Null} \cup {id}
  BY <1>1, <1>2
<1>4. NotesIn(new) = [p \in {p \in Proposals : props[p] # Null} \cup {id} |->
                        IF p = id THEN NoteOf(n) ELSE NoteOf(props[p])]
  BY <1>2, <1>3 DEF NotesIn
<1> QED BY <1>4 DEF NotesIn, Calendar!Put

\* What a command enters is one step of the calendar.
LEMMA EnteringSteps ==
  ASSUME OrgInv, NEW q, NEW w, NEW p, Entering(q, w, p)
  PROVE  Calendar!Step(w.id, q.actor, q.action)
<1> DEFINE n == w.proposal
<1>1. /\ w.id \in Proposals /\ n \in Proposal /\ n.target \in Units
      /\ q.action \in Actions /\ (p # Null => p \in Proposal) /\ p = proposals[w.id]
      /\ directory \in [Units -> Unit \cup {Null}]
      /\ proposals \in [Proposals -> Proposal \cup {Null}]
  BY WriteParts DEF Entering, OrgInv, TypeOK
<1>2. n.change \in Changes /\ n.change \in Change
  BY <1>1, ConstantsAssumption DEF Proposal
<1>3. NotesIn(proposals') = Calendar!Put(NotesIn(proposals), w.id, NoteOf(n))
  BY <1>1, PutInNotes DEF Entering
<1>4. p # Null => w.id \in DOMAIN NotesIn(proposals) /\ NotesIn(proposals)[w.id] = NoteOf(p)
  BY <1>1 DEF NotesIn
<1>5. q.action # "apply" => CalendarIn(directory') = CalendarIn(directory)
  BY UnitsAreApplied
<1>6. n.status # "PREVIEW" => NoteOf(n) = Calendar!Note(n.target, n.change, n.status, Null)
  BY DEF NoteOf, Calendar!Note
<1>7. q.action # "create" => /\ p # Null /\ p.status # "APPLIED" /\ n.target = p.target
  BY DEF Entering, Fitting
<1>8. q.action # "create" => Calendar!Undone(w.id)
  BY <1>4, <1>7 DEF Calendar!Undone, NotesIn, NoteOf
<1>9. ASSUME NEW m \in Proposal, m.preview.before = directory[m.target], m.status = "PREVIEW"
      PROVE  NoteOf(m) = Calendar!Note(m.target, m.change, "PREVIEW",
                                       Calendar!Shown(m.preview.actor, m.target))
  <2>1. m.target \in Units
    BY DEF Proposal
  <2> QED BY <1>9, <2>1 DEF NoteOf, Calendar!Note, Calendar!Shown
<1>10. CASE q.action = "create"
  <2>1. p = Null /\ n.status = "DRAFT" /\ n.target = Target(w.id, n.change)
    BY <1>10 DEF Entering, Fitting
  <2>2. w.id \notin DOMAIN NotesIn(proposals)
    BY <1>1, <2>1 DEF NotesIn
  <2>3. NoteOf(n) = Calendar!Note(IF n.change.target = Null THEN w.id ELSE n.change.target,
                                  n.change, "DRAFT", Null)
    BY <1>6, <2>1 DEF Target
  <2> QED BY <1>2, <1>3, <1>5, <1>10, <2>2, <2>3
             DEF Calendar!Step, Calendar!Propose, NotesIn, CalendarIn
<1>11. CASE q.action = "edit"
  <2>1. n.status = "DRAFT" /\ n.change.target = p.change.target
    BY <1>11 DEF Entering, Fitting
  <2>2. NoteOf(n) = Calendar!Note(p.target, n.change, "DRAFT", Null)
    BY <1>6, <1>7, <1>11, <2>1
  <2>3. NotesIn(proposals)[w.id].target = p.target /\ NotesIn(proposals)[w.id].change = p.change
    BY <1>4, <1>7, <1>11 DEF NoteOf
  <2> QED BY <1>2, <1>3, <1>5, <1>8, <1>11, <2>1, <2>2, <2>3
             DEF Calendar!Step, Calendar!Revise, NotesIn, CalendarIn
<1>12. CASE q.action = "preview"
  <2>1. Previewing(q, p, n)
    BY <1>12 DEF Entering, Fitting
  <2>2. NotesIn(proposals)[w.id].target = p.target /\ NotesIn(proposals)[w.id].change = p.change
    BY <1>4, <1>7, <1>12 DEF NoteOf
  <2>3. CASE n.status = "DRAFT"
    <3>1. NoteOf(n) = Calendar!Note(p.target, p.change, "DRAFT", Null)
      BY <1>6, <1>7, <1>12, <2>1, <2>3 DEF Previewing
    <3> QED BY <1>3, <1>5, <1>8, <1>12, <2>2, <3>1
               DEF Calendar!Step, Calendar!Preview, NotesIn, CalendarIn
  <2>4. CASE n.status = "PREVIEW"
    <3>1. /\ n.preview.actor = q.actor /\ n.preview.before = directory[n.target]
          /\ n.change = p.change /\ n.target = p.target /\ Valid(p, 0)
      BY <1>7, <1>12, <2>1, <2>4 DEF Previewing
    <3>2. NoteOf(n) = Calendar!Note(p.target, p.change, "PREVIEW", Calendar!Shown(q.actor, p.target))
      BY <1>1, <1>9, <2>4, <3>1
    <3>3. Calendar!Possible(p.change, p.target)
      BY <1>1, <1>7, <1>12, <3>1, ValidIsPossible
    <3> QED BY <1>3, <1>5, <1>8, <1>12, <2>2, <3>2, <3>3
               DEF Calendar!Step, Calendar!Preview, NotesIn, CalendarIn
  <2> QED BY <2>1, <2>3, <2>4 DEF Previewing
<1>13. CASE q.action = "apply"
  <2>1. Applying(q, w, p, n)
    BY <1>13 DEF Entering, Fitting
  <2>2. p \in Proposal /\ p.target \in Units /\ Valid(p, 0) /\ n.target = p.target
    BY <1>1, <1>7, <1>13, <2>1 DEF Applying, Proposal
  <2>3. p.preview.before = directory[p.target]
    BY <1>1, <1>7, <1>13, <2>1 DEF Applying, OrgInv, PreviewStillHolds
  <2>4. NoteOf(p) = Calendar!Note(p.target, p.change, "PREVIEW", Calendar!Shown(q.actor, p.target))
    BY <1>9, <2>1, <2>2, <2>3 DEF Applying
  <2>5. /\ NotesIn(proposals)[w.id].target = p.target
        /\ NotesIn(proposals)[w.id].change = p.change
        /\ NotesIn(proposals)[w.id].shown = Calendar!Shown(q.actor, p.target)
    BY <1>4, <1>7, <1>13, <2>4 DEF Calendar!Note
  <2>6. Calendar!Possible(p.change, p.target)
    BY <2>2, ValidIsPossible
  <2>7. w.unit # Null /\ w.unit \in Unit /\ directory' = [directory EXCEPT ![p.target] = w.unit]
    <3>1. w.unit = After(p.change, directory[p.target])
      BY <2>1 DEF Applying
    <3>2. w.unit \in Unit
      BY <2>2, <3>1, AfterIsUnit DEF OrgInv
    <3>3. w.unit # Null
      BY <3>2, ConstantsAssumption
    <3> QED BY <3>2, <3>3, UnitsAreApplied
  <2>8. CalendarOf(w.unit) = Calendar!Changed(p.change, p.target)
    BY <2>1, <2>2, RowsAreChanged DEF Applying
  <2>9. CalendarIn(directory')
          = Calendar!Put(CalendarIn(directory), p.target, Calendar!Changed(p.change, p.target))
    BY <1>1, <2>2, <2>7, <2>8, PutInCalendar
  <2>10. NoteOf(n) = Calendar!Note(p.target, p.change, "APPLIED", Null)
    BY <1>6, <2>1, <2>2 DEF Applying
  <2> QED BY <1>3, <1>8, <1>13, <2>5, <2>6, <2>9, <2>10
             DEF Calendar!Step, Calendar!Apply, NotesIn, CalendarIn
<1> QED BY <1>1, <1>10, <1>11, <1>12, <1>13 DEF Actions

LEMMA CommitIsStep ==
  ASSUME OrgInv, KeysFresh, NEW r \in Requests, Commit(r)
  PROVE  Calendar!Next
<1>1. PICK q, w, p : q = request[r] /\ w = pending[r] /\ Entering(q, w, p)
  BY CommitEnters
<1>2. q \in Request /\ w.id \in Proposals /\ Calendar!Step(w.id, q.actor, q.action)
  BY <1>1, WriteParts, EnteringSteps DEF Entering
<1>3. PICK k : k = KeyOf(q)
  OBVIOUS
<1>4. k \in Users \X Actions \X Keys /\ k[1] = q.actor /\ k[2] = q.action
  BY <1>2, <1>3 DEF KeyOf, Request
<1>5. pc[r] = "applied" /\ records' = [records EXCEPT ![k] = q]
  BY <1>1, <1>3 DEF Commit
<1>6. records[k] = Null
  BY <1>1, <1>3, <1>5 DEF KeysFresh
<1>7. q # Null /\ records \in [Users \X Actions \X Keys -> Request \cup {Null}]
  BY <1>2, ConstantsAssumption DEF OrgInv, TypeOK
<1>8. {c \in Users \X Actions \X Keys : records'[c] # Null}
        = {c \in Users \X Actions \X Keys : records[c] # Null} \cup {k}
  BY <1>4, <1>5, <1>7
<1> QED BY <1>2, <1>4, <1>6, <1>8 DEF Calendar!Next

LEMMA CalendarStep ==
  ASSUME OrgInv, KeysFresh, [Next]_vars
  PROVE  [Calendar!Next]_(Calendar!vars)
<1>1. CASE \E r \in Requests : Commit(r)
  BY <1>1, CommitIsStep
<1>2. CASE UNCHANGED tables
  BY <1>2 DEF tables, Calendar!vars
<1>3. UNCHANGED tables \/ \E r \in Requests : Commit(r)
  BY OthersLeaveTables DEF Next, RightsChange, RevokeRights, RightsLapse, RegainRights, Tick, vars, tables
<1> QED BY <1>1, <1>2, <1>3

LEMMA CalendarStart == Init => Calendar!Init
<1> SUFFICES ASSUME Init PROVE Calendar!Init
  OBVIOUS
<1>1. \A u \in Founded : InitialDirectory[u] # Null
  BY ConstantsAssumption
<1>2. {v \in Units : directory[v] # Null} = Founded
  BY <1>1 DEF Init, Units
<1>3. [u \in {v \in Units : directory[v] # Null} |-> CalendarOf(directory[u])]
        = [u \in Founded |-> CalendarOf(InitialDirectory[u])]
  BY <1>2 DEF Init, Units
<1>4. {p \in Proposals : proposals[p] # Null} = {}
  BY DEF Init
<1>5. {k \in Users \X Actions \X Keys : records[k] # Null} = {}
  BY DEF Init
<1> QED BY <1>3, <1>4, <1>5 DEF Calendar!Init

\* Behind its transactions, locks, revisions, tokens and rows of history the editor
\* keeps a calendar: every COMMIT is one step of it, by a key not used before, all
\* other steps leave it alone, and an application goes to what its editor was shown.
THEOREM CalendarCorrect == Spec => CalendarRefined
<1>1. Init => KeysFresh
  BY DEF Init, KeysFresh
<1>2. Spec => [](OrgInv /\ KeysFresh)
  BY <1>1, KeysStayFresh, OrgInvariant, PTL DEF Spec
<1>3. OrgInv /\ KeysFresh /\ [Next]_vars => [Calendar!Next]_(Calendar!vars)
  BY CalendarStep
<1> QED BY <1>2, <1>3, CalendarStart, PTL DEF Spec, CalendarRefined, Calendar!Spec

=============================================================================
