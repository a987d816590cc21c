------------------------------ MODULE RateLimit ------------------------------
(***************************************************************************)
(* One bucket of the limiter in server/src/auth/rateLimit.ts, which counts *)
(* the attempts of a login (or an address, or a session) in the memory of  *)
(* the process. A window opens with the first attempt after the last one   *)
(* has passed; attempts beyond the limit are blocked until it has passed.  *)
(*                                                                         *)
(* The modules that use a bucket call Hit where the code calls hit.        *)
(***************************************************************************)
EXTENDS Integers, Sequences

CONSTANTS
  Window,   \* WINDOW_MS, in ticks
  Limit,    \* LOGIN_LIMIT
  MaxClock, \* bound: the last tick
  NoBucket  \* Map.get of a key that is not there

VARIABLES
  clock,    \* Date.now()
  bucket,   \* the Bucket of the key
  admitted, \* history: when attempts were let in since the process started
  opened    \* history: which of them opened a window

limitVars == <<bucket, admitted, opened>>

Bucket == [count: 1 .. Limit + 1, windowStart: 0 .. MaxClock]

ASSUME RateAssumption ==
  /\ Window \in Nat
  /\ Limit \in Nat \ {0}
  /\ MaxClock \in Nat
  /\ NoBucket \notin Bucket

\* Mutant: a window ends one tick early.
PassedEarly == bucket # NoBucket => clock - bucket.windowStart >= Window

\* No window, or one that has passed.
Passed == bucket # NoBucket => clock - bucket.windowStart > Window

OpenWindow ==
  /\ Passed
  /\ bucket' = [count |-> 1, windowStart |-> clock]
  /\ admitted' = Append(admitted, clock)
  /\ opened' = opened \cup {Len(admitted) + 1}

Admit ==
  /\ ~Passed
  /\ bucket.count < Limit
  /\ bucket' = [bucket EXCEPT !.count = @ + 1]
  /\ admitted' = Append(admitted, clock)
  /\ UNCHANGED opened

\* Bound: the count stays at Limit + 1, beyond which it makes no difference.
Block ==
  /\ ~Passed
  /\ bucket.count >= Limit
  /\ bucket' = [bucket EXCEPT !.count = Limit + 1]
  /\ UNCHANGED <<admitted, opened>>

Hit == OpenWindow \/ Admit

Tick ==
  /\ clock < MaxClock
  /\ clock' = clock + 1
  /\ UNCHANGED limitVars

\* The process starts again with an empty map.
Forget ==
  /\ bucket' = NoBucket
  /\ admitted' = <<>>
  /\ opened' = {}

LimitInit ==
  /\ clock = 0
  /\ bucket = NoBucket
  /\ admitted = <<>>
  /\ opened = {}

LimitNext ==
  \/ (Hit \/ Block \/ Forget) /\ UNCHANGED clock
  \/ Tick

LimitSpec == LimitInit /\ [][LimitNext]_<<clock, limitVars>>

\* Of any 2 * Limit attempts let in one after the other the last comes more than
\* a window after the first: around the end of a window twice the limit less one
\* can pass, and never more, in whatever pattern the attempts come (hit).
BurstBound ==
  \A i \in DOMAIN admitted :
    i + 2 * Limit - 1 \in DOMAIN admitted
      => admitted[i + 2 * Limit - 1] - admitted[i] > Window
=============================================================================
