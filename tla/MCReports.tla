------------------------------ MODULE MCReports ------------------------------
(***************************************************************************)
(* Instances of ReportReview for TLC: the worker can parse the packet of   *)
(* one original and not the packet of two.                                 *)
(***************************************************************************)
EXTENDS ReportReview, TLC

CONSTANTS fa, fb, x1, x2, u1

AllPackets == {{fa, fb}, {fb}}

SoundPackets == {{fb}}

\* The rows belong to one report.
OneReport == [x \in Rows |-> "summary"]

\* A row is proposed for the outlet, the other is given up, or both are proposed
\* for it in one request, which no mapping allows.
SomeEdits == {x2 :> u1, x1 :> Null, x1 :> u1 @@ x2 :> u1}

Symmetry == Permutations(Requests) \cup Permutations(Processes) \cup Permutations(Batches)
              \cup Permutations(Keys)
=============================================================================
