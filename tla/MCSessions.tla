------------------------------ MODULE MCSessions ------------------------------
(***************************************************************************)
(* Instance of Sessions for TLC.                                           *)
(***************************************************************************)
EXTENDS Sessions, TLC

Symmetry == Permutations(Requests) \cup Permutations(Ids)
=============================================================================
