------------------------------- MODULE MCPages -------------------------------
(***************************************************************************)
(* Instance of Pages for TLC: one branch, up to three rows.                *)
(***************************************************************************)
EXTENDS Pages, TLC

CONSTANT org

Dated(t) == [at |-> t, org |-> org, own |-> TRUE, open |-> TRUE]

\* Two or three rows, in one millisecond or at the start of the next.
Tables ==
  {[i \in Ids |-> IF t[i] = Null THEN Null ELSE Dated(t[i])] :
     t \in {u \in [Ids -> (0 .. Micros) \cup {Null}] :
              Cardinality({i \in Ids : u[i] = Null}) <= 1}}
=============================================================================
