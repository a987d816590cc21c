--------------------------- MODULE RateLimitProofs ---------------------------
(***************************************************************************)
(* However the attempts of a bucket come, fewer than two full limits of    *)
(* them are let in within one window.                                      *)
(*                                                                         *)
(* The windows that are opened lie more than Window apart, and among any   *)
(* Limit attempts that follow each other one opened a window. Of 2 * Limit *)
(* attempts the first half holds the opening of one window and the second  *)
(* half that of a later one.                                               *)
(***************************************************************************)
EXTENDS RateLimit, TLAPS

LimitType ==
  /\ clock \in 0 .. MaxClock
  /\ bucket \in Bucket \cup {NoBucket}
  /\ admitted \in Seq(Nat)
  /\ opened \subseteq 1 .. Len(admitted)

Ordered ==
  \A k \in 1 .. Len(admitted) :
    /\ admitted[k] <= clock
    /\ \A j \in 1 .. Len(admitted) : j <= k => admitted[j] <= admitted[k]

Apart == \A j, k \in opened : j < k => admitted[k] - admitted[j] > Window

Dense ==
  \A i \in 1 .. Len(admitted) :
    i + Limit - 1 <= Len(admitted) => \E j \in opened : i <= j /\ j <= i + Limit - 1

\* The window of the bucket is the last that was opened.
Latest(o) ==
  /\ admitted[o] = bucket.windowStart
  /\ \A j \in opened : j <= o
  /\ Len(admitted) - o + 1 <= bucket.count
  /\ Len(admitted) - o + 1 <= Limit

Current ==
  IF bucket = NoBucket THEN Len(admitted) = 0 ELSE \E o \in opened : Latest(o)

LimitInv == LimitType /\ Ordered /\ Apart /\ Dense /\ Current

-----------------------------------------------------------------------------

LEMMA LimitInitially == LimitInit => LimitInv
  BY RateAssumption DEF LimitInit, LimitInv, LimitType, Ordered, Apart, Dense, Current

\* What a further attempt leaves of the sequence, and what it adds.
LEMMA AppendFacts ==
  ASSUME LimitType
  PROVE  LET s == Append(admitted, clock)
         IN  /\ s \in Seq(Nat)
             /\ Len(s) = Len(admitted) + 1
             /\ s[Len(admitted) + 1] = clock
             /\ \A k \in 1 .. Len(admitted) : s[k] = admitted[k]
  BY RateAssumption DEF LimitType

LEMMA OrderedAfter ==
  ASSUME LimitInv, admitted' = Append(admitted, clock), clock' = clock
  PROVE  Ordered'
<1>1. /\ admitted' \in Seq(Nat)
      /\ Len(admitted') = Len(admitted) + 1
      /\ admitted'[Len(admitted) + 1] = clock
      /\ \A k \in 1 .. Len(admitted) : admitted'[k] = admitted[k]
  BY AppendFacts DEF LimitInv
<1>2. SUFFICES ASSUME NEW k \in 1 .. Len(admitted) + 1
               PROVE  /\ admitted'[k] <= clock
                      /\ \A j \in 1 .. Len(admitted) + 1 : j <= k => admitted'[j] <= admitted'[k]
  BY <1>1 DEF Ordered
<1>3. Len(admitted) \in Nat /\ clock \in Int
  BY RateAssumption DEF LimitInv, LimitType
<1>4. \A j \in 1 .. Len(admitted) : admitted[j] <= clock
  BY DEF LimitInv, Ordered
<1>5. CASE k = Len(admitted) + 1
  BY <1>1, <1>3, <1>4, <1>5
<1>6. CASE k \in 1 .. Len(admitted)
  BY <1>1, <1>3, <1>6 DEF LimitInv, Ordered
<1> QED
  BY <1>3, <1>5, <1>6

LEMMA OpenWindowKeeps ==
  ASSUME LimitInv, OpenWindow, clock' = clock
  PROVE  LimitInv'
<1>0. PICK n \in Nat : n = Len(admitted) + 1
  BY DEF LimitInv, LimitType
<1>1. /\ admitted' \in Seq(Nat)
      /\ Len(admitted') = n
      /\ admitted'[n] = clock
      /\ \A k \in 1 .. Len(admitted) : admitted'[k] = admitted[k]
  BY <1>0, AppendFacts DEF LimitInv, OpenWindow
<1>2. opened' = opened \cup {n} /\ bucket' = [count |-> 1, windowStart |-> clock]
  BY <1>0 DEF OpenWindow
<1>3. /\ Len(admitted) \in Nat /\ n = Len(admitted) + 1 /\ clock \in 0 .. MaxClock
      /\ Window \in Nat /\ Limit \in Nat \ {0} /\ MaxClock \in Nat
      /\ opened \subseteq 1 .. Len(admitted)
      /\ \A k \in 1 .. Len(admitted) : admitted[k] \in Nat
  BY <1>0, RateAssumption DEF LimitInv, LimitType
<1>4. bucket' \in Bucket /\ bucket' # NoBucket
  BY <1>2, <1>3, RateAssumption DEF Bucket
<1>5. LimitType'
  <2>1. opened' \subseteq 1 .. Len(admitted')
    <3>1. \A j \in opened : j \in 1 .. n
      BY <1>3
    <3>2. n \in 1 .. n
      BY <1>3
    <3> QED
      BY <1>1, <1>2, <3>1, <3>2
  <2> QED
    BY <1>1, <1>3, <1>4, <2>1 DEF LimitType
<1>6. Ordered'
  BY OrderedAfter DEF OpenWindow
<1>7. Apart'
  <2>1. \A j \in opened : clock - admitted[j] > Window
    <3>1. CASE bucket = NoBucket
      BY <1>3, <3>1 DEF LimitInv, Current
    <3>2. CASE bucket # NoBucket
      <4>1. PICK o \in opened : Latest(o)
        BY <3>2 DEF LimitInv, Current
      <4>2. clock - admitted[o] > Window
        BY <3>2, <4>1 DEF OpenWindow, Passed, Latest
      <4>3. \A j \in opened : admitted[j] <= admitted[o]
        BY <1>3, <4>1 DEF LimitInv, Ordered, Latest
      <4> QED
        BY <1>3, <4>2, <4>3
    <3> QED
      BY <3>1, <3>2
  <2> QED
    BY <1>1, <1>2, <1>3, <2>1 DEF LimitInv, Apart
<1>8. Dense'
  <2>1. SUFFICES ASSUME NEW i \in 1 .. n, i + Limit - 1 <= n
                 PROVE  \E j \in opened' : i <= j /\ j <= i + Limit - 1
    BY <1>1 DEF Dense
  <2>2. CASE i + Limit - 1 = n
    BY <1>2, <1>3, <2>2
  <2>3. CASE i + Limit - 1 <= Len(admitted)
    <3>1. i \in 1 .. Len(admitted)
      BY <1>3, <2>3
    <3>2. PICK j \in opened : i <= j /\ j <= i + Limit - 1
      BY <2>3, <3>1 DEF LimitInv, Dense
    <3> QED
      BY <1>2, <3>2
  <2> QED
    BY <1>3, <2>1, <2>2, <2>3
<1>9. Current'
  <2>1. /\ bucket'.count = 1 /\ bucket'.windowStart = clock
        /\ \A j \in opened' : j <= n
        /\ n \in opened'
    BY <1>2, <1>3
  <2>2. Latest(n)'
    BY <1>1, <1>3, <2>1 DEF Latest
  <2> QED
    BY <1>4, <2>1, <2>2 DEF Current
<1> QED
  BY <1>5, <1>6, <1>7, <1>8, <1>9 DEF LimitInv

LEMMA AdmitKeeps ==
  ASSUME LimitInv, Admit, clock' = clock
  PROVE  LimitInv'
<1>0. PICK n \in Nat : n = Len(admitted) + 1
  BY DEF LimitInv, LimitType
<1>1. /\ admitted' \in Seq(Nat)
      /\ Len(admitted') = n
      /\ admitted'[n] = clock
      /\ \A k \in 1 .. Len(admitted) : admitted'[k] = admitted[k]
  BY <1>0, AppendFacts DEF LimitInv, Admit
<1>2. bucket # NoBucket
  BY DEF Admit, Passed
<1>3. /\ Len(admitted) \in Nat /\ n = Len(admitted) + 1 /\ clock \in 0 .. MaxClock
      /\ Window \in Nat /\ Limit \in Nat \ {0} /\ MaxClock \in Nat
      /\ opened \subseteq 1 .. Len(admitted)
      /\ bucket \in Bucket
  BY <1>0, <1>2, RateAssumption DEF LimitInv, LimitType
<1>4. /\ opened' = opened
      /\ bucket' \in Bucket /\ bucket' # NoBucket
      /\ bucket'.count = bucket.count + 1
      /\ bucket'.windowStart = bucket.windowStart
      /\ bucket.count < Limit
  BY <1>3, RateAssumption DEF Admit, Bucket
<1>5. PICK o \in opened : Latest(o)
  BY <1>2 DEF LimitInv, Current
<1>6. LimitType'
  BY <1>1, <1>3, <1>4 DEF LimitType
<1>7. Ordered'
  BY OrderedAfter DEF Admit
<1>8. Apart'
  BY <1>1, <1>3, <1>4 DEF LimitInv, Apart
<1>9. n - o + 1 <= bucket.count + 1 /\ bucket.count \in Int /\ o \in 1 .. Len(admitted)
  BY <1>3, <1>5 DEF Latest, Bucket
<1>10. Dense'
  <2>1. SUFFICES ASSUME NEW i \in 1 .. n, i + Limit - 1 <= n
                 PROVE  \E j \in opened : i <= j /\ j <= i + Limit - 1
    BY <1>1, <1>4 DEF Dense
  <2>2. CASE i + Limit - 1 = n
    BY <1>3, <1>4, <1>9, <2>2
  <2>3. CASE i + Limit - 1 <= Len(admitted)
    BY <1>3, <2>3 DEF LimitInv, Dense
  <2> QED
    BY <1>3, <2>1, <2>2, <2>3
<1>11. Current'
  <2>1. Latest(o)'
    BY <1>1, <1>3, <1>4, <1>5, <1>9 DEF Latest
  <2> QED
    BY <1>4, <2>1 DEF Current
<1> QED
  BY <1>6, <1>7, <1>8, <1>10, <1>11 DEF LimitInv

LEMMA BlockKeeps ==
  ASSUME LimitInv, Block, clock' = clock
  PROVE  LimitInv'
<1>1. bucket # NoBucket
  BY DEF Block, Passed
<1>2. bucket \in Bucket /\ Limit \in Nat \ {0}
  BY <1>1, RateAssumption DEF LimitInv, LimitType
<1>3. /\ admitted' = admitted /\ opened' = opened
      /\ bucket' \in Bucket /\ bucket' # NoBucket
      /\ bucket'.count = Limit + 1
      /\ bucket'.windowStart = bucket.windowStart
  BY <1>2, RateAssumption DEF Block, Bucket
<1>4. PICK o \in opened : Latest(o)
  BY <1>1 DEF LimitInv, Current
<1>5. Latest(o)'
  <2>1. Len(admitted) \in Nat /\ o \in Int
    BY <1>4 DEF LimitInv, LimitType
  <2>2. Len(admitted) - o + 1 <= Limit + 1
    BY <1>2, <1>4, <2>1 DEF Latest
  <2> QED
    BY <1>3, <1>4, <2>2 DEF Latest
<1> QED
  BY <1>3, <1>5 DEF LimitInv, LimitType, Ordered, Apart, Dense, Current

LEMMA TickKeeps ==
  ASSUME LimitInv, Tick
  PROVE  LimitInv'
<1>1. /\ clock' = clock + 1 /\ clock' \in 0 .. MaxClock /\ clock \in Int
      /\ admitted' = admitted /\ opened' = opened /\ bucket' = bucket
  BY RateAssumption DEF LimitInv, LimitType, Tick, limitVars
<1>2. \A k \in 1 .. Len(admitted) : admitted[k] \in Int
  BY DEF LimitInv, LimitType
<1>3. Ordered'
  BY <1>1, <1>2 DEF LimitInv, Ordered
<1> QED
  BY <1>1, <1>3 DEF LimitInv, LimitType, Apart, Dense, Current, Latest

LEMMA ForgetKeeps ==
  ASSUME LimitInv, Forget, clock' = clock
  PROVE  LimitInv'
  BY RateAssumption DEF LimitInv, LimitType, Forget, Ordered, Apart, Dense, Current

LEMMA LimitStep == LimitInv /\ [LimitNext]_<<clock, limitVars>> => LimitInv'
<1> SUFFICES ASSUME LimitInv, [LimitNext]_<<clock, limitVars>>
             PROVE  LimitInv'
  OBVIOUS
<1>1. CASE Hit /\ UNCHANGED clock
  BY <1>1, OpenWindowKeeps, AdmitKeeps DEF Hit
<1>2. CASE Block /\ UNCHANGED clock
  BY <1>2, BlockKeeps
<1>3. CASE Forget /\ UNCHANGED clock
  BY <1>3, ForgetKeeps
<1>4. CASE Tick
  BY <1>4, TickKeeps
<1>5. CASE UNCHANGED <<clock, limitVars>>
  BY <1>5 DEF LimitInv, LimitType, Ordered, Apart, Dense, Current, Latest, limitVars
<1> QED
  BY <1>1, <1>2, <1>3, <1>4, <1>5 DEF LimitNext

LEMMA InvBoundsBurst == LimitInv => BurstBound
<1> SUFFICES ASSUME LimitInv, NEW i \in DOMAIN admitted, i + 2 * Limit - 1 \in DOMAIN admitted
             PROVE  admitted[i + 2 * Limit - 1] - admitted[i] > Window
  BY DEF BurstBound
<1>1. /\ Limit \in Nat \ {0} /\ Window \in Nat /\ Len(admitted) \in Nat
      /\ DOMAIN admitted = 1 .. Len(admitted)
      /\ \A k \in 1 .. Len(admitted) : admitted[k] \in Int
      /\ opened \subseteq 1 .. Len(admitted)
  BY RateAssumption DEF LimitInv, LimitType
<1>2. PICK j \in opened : i <= j /\ j <= i + Limit - 1
  <2>1. i \in 1 .. Len(admitted) /\ i + Limit - 1 <= Len(admitted)
    BY <1>1
  <2> QED
    BY <2>1 DEF LimitInv, Dense
<1>3. PICK k \in opened : i + Limit <= k /\ k <= i + Limit + Limit - 1
  <2>1. i + Limit \in 1 .. Len(admitted) /\ i + Limit + Limit - 1 <= Len(admitted)
    BY <1>1
  <2> QED
    BY <2>1 DEF LimitInv, Dense
<1>4. admitted[k] - admitted[j] > Window
  BY <1>1, <1>2, <1>3 DEF LimitInv, Apart
<1>5. admitted[i] <= admitted[j] /\ admitted[k] <= admitted[i + 2 * Limit - 1]
  BY <1>1, <1>2, <1>3 DEF LimitInv, Ordered
<1> QED
  BY <1>1, <1>2, <1>3, <1>4, <1>5

\* Whatever the pattern of the attempts, and through restarts of the process, of
\* any 2 * Limit attempts let in one after the other the last comes more than a
\* window after the first (hit in rateLimit.ts).
THEOREM BurstBounded == LimitSpec => []BurstBound
<1>1. LimitInit => LimitInv
  BY LimitInitially
<1>2. LimitInv /\ [LimitNext]_<<clock, limitVars>> => LimitInv'
  BY LimitStep
<1>3. LimitInv => BurstBound
  BY InvBoundsBurst
<1> QED
  BY <1>1, <1>2, <1>3, PTL DEF LimitSpec
=============================================================================
