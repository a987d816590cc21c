----------------------------- MODULE PagesProofs -----------------------------
(***************************************************************************)
(* What a walk over pages shows, for any rows, limits and precision of the *)
(* cursors: nothing that stays in the list is left out, and what comes     *)
(* again lies within a millisecond of the page before.                     *)
(*                                                                         *)
(* The argument: a row that was there from the beginning has been shown or *)
(* lies beyond the cursor (Shown). A page that is not full is all that     *)
(* lies beyond it; a full one is followed by a cursor that lies, cut down  *)
(* to a millisecond, at its last row or before. As the cursors are whole   *)
(* milliseconds and never go back, what was shown is dated before the end  *)
(* of the cursor's millisecond (Passed over).                              *)
(***************************************************************************)
EXTENDS Pages, RateLimitProofs

ReaderType ==
  /\ rows \in [Ids -> Row \cup {Null}]
  /\ rm \subseteq Orgs /\ rf \subseteq Orgs
  /\ cursor \in Cursor \cup {NoCursor}
  /\ promised \subseteq InList
  /\ seen \subseteq Present

Shown == \A i \in promised : i \in seen \/ Beyond(i)

\* The cursor is a whole millisecond, and the rows shown are not dated after it.
PassedOver ==
  ~done =>
    /\ seen # {} => cursor # NoCursor
    /\ cursor # NoCursor => Kept(cursor.at) = cursor.at
    /\ \A i \in seen : IF list = "history" THEN ~Beyond(i)
                       ELSE rows[i].at - cursor.at < Micros

ReaderInv == ReaderType /\ Shown /\ NothingLeftOut /\ PassedOver

-----------------------------------------------------------------------------
(* Cutting a time down to milliseconds *)

LEMMA Quotient ==
  ASSUME NEW a \in Nat
  PROVE  /\ a \div Micros \in Nat
         /\ (a \div Micros) * Micros <= a
         /\ a < (a \div Micros) * Micros + Micros
  BY PagesAssumption

LEMMA KeptBounds ==
  ASSUME NEW a \in Nat
  PROVE  Kept(a) \in Nat /\ Kept(a) <= a /\ a - Kept(a) < Micros
  BY Quotient, PagesAssumption DEF Kept

LEMMA KeptMonotone ==
  ASSUME NEW a \in Nat, NEW b \in Nat, a <= b
  PROVE  Kept(a) <= Kept(b)
<1>1. a \div Micros <= b \div Micros
  BY PagesAssumption
<1>2. (a \div Micros) * Micros <= (b \div Micros) * Micros
  BY <1>1, Quotient, PagesAssumption
<1> QED
  BY <1>2 DEF Kept

LEMMA KeptAgain ==
  ASSUME NEW a \in Nat
  PROVE  Kept(Kept(a)) = Kept(a)
<1>1. ((a \div Micros) * Micros) \div Micros = a \div Micros
  BY Quotient, PagesAssumption
<1> QED
  BY <1>1 DEF Kept

-----------------------------------------------------------------------------
(* The order of rows, and what a page leaves *)

LEMMA RowTypes ==
  ASSUME ReaderType, NEW i \in Present
  PROVE  i \in Nat /\ i \in Ids /\ rows[i] \in Row /\ rows[i].at \in Nat
  BY PagesAssumption DEF ReaderType, Present, Row

LEMMA CursorTypes ==
  ASSUME ReaderType, cursor # NoCursor
  PROVE  cursor \in Cursor /\ cursor.at \in Nat /\ cursor.id \in Nat
  BY PagesAssumption DEF ReaderType, Cursor

LEMMA OrderTotal ==
  ASSUME ReaderType, NEW i \in Present, NEW j \in Present, i # j, ~Before(i, j)
  PROVE  Before(j, i)
  BY RowTypes DEF Before

\* What a full page does not show comes after each of its rows.
LEMMA LeftForLater ==
  ASSUME ReaderType, NEW P \in SUBSET Rest, IsPage(P),
         NEW i \in Rest, i \notin P, NEW last \in P
  PROVE  Before(last, i)
<1>1. i \in Present /\ last \in Present /\ last \in Rest
  BY DEF Rest, InList
<1>2. ~Before(i, last)
  BY DEF IsPage
<1> QED
  BY <1>1, <1>2, OrderTotal

\* A page that is not full is all the rest.
LEMMA ShortPageIsRest ==
  ASSUME NEW P \in SUBSET Rest, IsPage(P), Cardinality(P) # PageLimit
  PROVE  P = Rest
  BY DEF IsPage

-----------------------------------------------------------------------------
(* The steps of the reader *)

LEMMA ReaderInitially == Init => ReaderInv
  BY PagesAssumption
     DEF Init, ReaderInv, ReaderType, Shown, NothingLeftOut, PassedOver, InList, Beyond

LEMMA BeginAgainKeeps ==
  ASSUME ReaderInv, BeginAgain, UNCHANGED tableVars
  PROVE  ReaderInv'
<1>1. /\ rows' = rows /\ rm' = rm /\ rf' = rf /\ list' = list /\ openOnly' = openOnly
      /\ cursor' = NoCursor /\ done' = FALSE /\ seen' = {} /\ promised' = InList
  BY DEF BeginAgain, tableVars
<1>2. Present' = Present /\ InList' = InList
  BY <1>1 DEF Present, InList, Visible
<1> QED
  BY <1>1, <1>2 DEF ReaderInv, ReaderType, Shown, NothingLeftOut, PassedOver, Beyond

LEMMA FullPageKeeps ==
  ASSUME LimitInv, ReaderInv, ~done, UNCHANGED tableVars, NEW P \in SUBSET Rest, IsPage(P),
         seen' = seen \cup P, promised' = promised, done' = done, NextCursor(P)
  PROVE  ReaderInv'
<1>1. /\ rows' = rows /\ rm' = rm /\ rf' = rf /\ list' = list /\ openOnly' = openOnly
  BY DEF tableVars
<1>2. Present' = Present /\ InList' = InList
  BY <1>1 DEF Present, InList, Visible
<1>3. PICK last \in P : /\ \A j \in P : ~Before(last, j)
                        /\ cursor' = [at |-> Kept(rows[last].at), id |-> last,
                                      orgs |-> rm \cup rf, exp |-> clock + CursorLife]
  BY DEF NextCursor
<1>4. /\ last \in Present /\ last \in Rest /\ Beyond(last) /\ P \subseteq Present
      /\ last \in Nat /\ last \in Ids /\ rows[last].at \in Nat
  BY RowTypes DEF Rest, InList, ReaderInv
<1>5. /\ Kept(rows[last].at) \in Nat /\ Kept(rows[last].at) <= rows[last].at
      /\ rows[last].at - Kept(rows[last].at) < Micros
      /\ list = "history" => Kept(rows[last].at) = rows[last].at
  BY <1>4, KeptBounds DEF Kept
<1> USE DEF ReaderInv
<1>6. cursor' \in Cursor /\ cursor' # NoCursor
  <2>1. rm \cup rf \in SUBSET Orgs /\ clock + CursorLife \in Nat
    BY RateAssumption, PagesAssumption DEF LimitInv, LimitType, ReaderType
  <2> QED
    BY <1>3, <1>4, <1>5, <2>1, PagesAssumption DEF Cursor
<1>7. cursor'.at = Kept(rows[last].at) /\ cursor'.id = last
  BY <1>3
<1>8. ReaderType'
  BY <1>1, <1>2, <1>4, <1>6 DEF ReaderType
<1>9. Shown'
  <2>1. SUFFICES ASSUME NEW i \in promised, i \notin seen, i \notin P
                 PROVE  Beyond(i)'
    BY DEF Shown
  <2>2. i \in Rest /\ i \in Present
    BY <2>1 DEF Shown, Rest, ReaderType, InList
  <2>3. Before(last, i) /\ i \in Nat /\ rows[i].at \in Nat
    BY <2>1, <2>2, LeftForLater, RowTypes
  <2> QED
    BY <1>1, <1>4, <1>5, <1>7, <2>3 DEF Before, Beyond
<1>10. PassedOver'
  <2>1. Kept(cursor'.at) = cursor'.at
    BY <1>4, <1>7, KeptAgain
  <2>2. ASSUME NEW i \in P
        PROVE  rows[i].at \in Nat /\ i \in Nat /\ ~Before(last, i)
    BY <1>3, <1>4, <2>2, RowTypes
  <2>3. ASSUME NEW i \in seen
        PROVE  /\ rows[i].at \in Nat /\ i \in Nat /\ cursor \in Cursor
               /\ cursor.at \in Nat /\ cursor.id \in Nat /\ cursor # NoCursor
    <3>1. cursor # NoCursor /\ i \in Present
      BY <2>3 DEF PassedOver, ReaderType
    <3> QED
      BY <3>1, RowTypes, CursorTypes
  <2>4. CASE list = "history"
    <3>1. ASSUME NEW i \in seen \cup P
          PROVE  ~Beyond(i)'
      <4>1. CASE i \in P
        BY <1>1, <1>4, <1>5, <1>6, <1>7, <2>2, <2>4, <4>1 DEF Beyond, Before
      <4>2. CASE i \in seen
        <5>1. ~Beyond(i)
          BY <2>4, <4>2 DEF PassedOver
        <5> QED
          BY <1>1, <1>4, <1>5, <1>6, <1>7, <2>3, <2>4, <4>2, <5>1 DEF Beyond
      <4> QED
        BY <4>1, <4>2
    <3> QED
      BY <1>1, <1>6, <2>1, <2>4, <3>1 DEF PassedOver, Kept
  <2>5. CASE list # "history"
    <3>1. ASSUME NEW i \in seen \cup P
          PROVE  rows[i].at - cursor'.at < Micros
      <4>1. CASE i \in P
        <5>1. rows[i].at \in Nat /\ rows[i].at <= rows[last].at
          BY <1>4, <2>2, <4>1 DEF Before
        <5> QED
          BY <1>4, <1>5, <1>7, <5>1, PagesAssumption
      <4>2. CASE i \in seen
        <5>1. cursor.at <= rows[last].at /\ Kept(cursor.at) = cursor.at
          BY <1>4, <2>3, <4>2 DEF Beyond, PassedOver
        <5>2. cursor.at <= Kept(rows[last].at)
          BY <1>4, <2>3, <4>2, <5>1, KeptMonotone
        <5>3. rows[i].at - cursor.at < Micros
          BY <2>5, <4>2 DEF PassedOver
        <5> QED
          BY <1>5, <1>7, <2>3, <4>2, <5>2, <5>3, PagesAssumption
      <4> QED
        BY <4>1, <4>2
    <3> QED
      BY <1>1, <1>6, <2>1, <2>5, <3>1 DEF PassedOver, Kept
  <2> QED
    BY <2>4, <2>5
<1> QED
  BY <1>8, <1>9, <1>10 DEF NothingLeftOut

LEMMA LastPageKeeps ==
  ASSUME ReaderInv, UNCHANGED tableVars, NEW P \in SUBSET Rest, P = Rest,
         seen' = seen \cup P, promised' = promised, done' = TRUE, cursor' = cursor
  PROVE  ReaderInv'
<1>1. /\ rows' = rows /\ rm' = rm /\ rf' = rf /\ list' = list /\ openOnly' = openOnly
  BY DEF tableVars
<1>2. Present' = Present /\ InList' = InList
  BY <1>1 DEF Present, InList, Visible
<1>3. promised \subseteq seen \cup P
  BY DEF ReaderInv, ReaderType, Shown, Rest
<1> QED
  BY <1>1, <1>2, <1>3
     DEF ReaderInv, ReaderType, Shown, NothingLeftOut, PassedOver, Rest, InList

LEMMA FetchPageKeeps ==
  ASSUME LimitInv, ReaderInv, FetchPage
  PROVE  ReaderInv'
<1>1. CASE Refused
  BY <1>1, BeginAgainKeeps DEF FetchPage
<1>2. CASE ~Refused
  <2>1. PICK P \in SUBSET Rest : TakePage(P)
    BY <1>2 DEF FetchPage
  <2>2. CASE Cardinality(P) = PageLimit
    BY <2>1, <2>2, FullPageKeeps DEF FetchPage, TakePage
  <2>3. CASE Cardinality(P) # PageLimit
    BY <2>1, <2>3, LastPageKeeps, ShortPageIsRest DEF FetchPage, TakePage
  <2> QED
    BY <2>2, <2>3
<1> QED
  BY <1>1, <1>2

-----------------------------------------------------------------------------
(* What happens behind his back *)

LEMMA ReaderUntouched ==
  ASSUME ReaderInv, UNCHANGED <<readerVars, tableVars>>
  PROVE  ReaderInv'
  BY DEF ReaderInv, ReaderType, Shown, NothingLeftOut, PassedOver, readerVars, tableVars,
         Beyond, InList, Visible, Present, Kept

\* A row, once there, stays, with its date.
DatesStay ==
  /\ rows' \in [Ids -> Row \cup {Null}]
  /\ rm' \subseteq Orgs /\ rf' \subseteq Orgs
  /\ \A i \in Present : rows'[i] # Null /\ rows'[i].at = rows[i].at

LEMMA ChangesKeep ==
  ASSUME ReaderInv, DatesStay, Changes
  PROVE  ReaderInv'
<1>1. /\ list' = list /\ cursor' = cursor /\ done' = done /\ seen' = seen
      /\ promised' = promised \cap InList'
  BY DEF Changes
<1>2. Present \subseteq Present'
  BY DEF DatesStay, Present
<1>3. \A i \in Present : Beyond(i)' <=> Beyond(i)
  BY <1>1 DEF Beyond, DatesStay
<1>4. promised \subseteq Present /\ seen \subseteq Present
  BY DEF ReaderInv, ReaderType, InList
<1>5. ReaderType'
  BY <1>1, <1>2, <1>4 DEF ReaderInv, ReaderType, DatesStay
<1>6. Shown'
  BY <1>1, <1>3, <1>4 DEF ReaderInv, Shown
<1>7. NothingLeftOut'
  BY <1>1 DEF ReaderInv, NothingLeftOut
<1>8. PassedOver'
  BY <1>1, <1>3, <1>4 DEF ReaderInv, PassedOver, DatesStay, Kept
<1> QED
  BY <1>5, <1>6, <1>7, <1>8 DEF ReaderInv

LEMMA InsertKeepsDates ==
  ASSUME ReaderInv, Insert
  PROVE  DatesStay
<1>1. PICK i \in Ids, t \in 0 .. (clock + 1) * Micros - 1, o \in Orgs :
        /\ rows[i] = Null /\ rm' = rm /\ rf' = rf
        /\ rows' = [rows EXCEPT ![i] = [at |-> t, org |-> o, own |-> TRUE, open |-> TRUE]]
  BY DEF Insert
<1>2. [at |-> t, org |-> o, own |-> TRUE, open |-> TRUE] \in Row
  BY DEF Row
<1>3. rows \in [Ids -> Row \cup {Null}] /\ rm \subseteq Orgs /\ rf \subseteq Orgs
  BY DEF ReaderInv, ReaderType
<1> QED
  BY <1>1, <1>2, <1>3 DEF DatesStay, Present

LEMMA ReassignKeepsDates ==
  ASSUME ReaderInv, Reassign
  PROVE  DatesStay
<1> DEFINE given(i) == [rows[i] EXCEPT !.own = ~@]
<1>1. PICK S \in SUBSET Present :
        rows' = [i \in Ids |-> IF i \in S THEN given(i) ELSE rows[i]]
  <2>1. PICK S \in IF list = "history" THEN {Present} ELSE {{i} : i \in Present} :
          rows' = [i \in Ids |-> IF i \in S THEN given(i) ELSE rows[i]]
    BY DEF Reassign
  <2>2. S \in SUBSET Present
    BY <2>1
  <2> QED
    BY <2>1, <2>2
<1>2. ASSUME NEW i \in Present
      PROVE  given(i) \in Row /\ given(i).at = rows[i].at
  <2>1. rows[i] \in Row
    BY <1>2, RowTypes DEF ReaderInv
  <2> QED
    BY <2>1 DEF Row
<1>3. /\ rows \in [Ids -> Row \cup {Null}] /\ Present \subseteq Ids
      /\ \A i \in Present : rows[i] # Null
      /\ rm' \subseteq Orgs /\ rf' \subseteq Orgs
  BY DEF ReaderInv, ReaderType, Present, Reassign
<1> HIDE DEF given
<1>4. rows' \in [Ids -> Row \cup {Null}]
  BY <1>1, <1>2, <1>3
<1>5. \A i \in Present : rows'[i] # Null /\ rows'[i].at = rows[i].at
  BY <1>1, <1>2, <1>3, PagesAssumption
<1> QED
  BY <1>3, <1>4, <1>5 DEF DatesStay

LEMMA SettleKeepsDates ==
  ASSUME ReaderInv, Settle
  PROVE  DatesStay
<1>1. PICK i \in Present : rows' = [rows EXCEPT ![i].open = ~@] /\ rm' = rm /\ rf' = rf
  BY DEF Settle
<1>2. rm \subseteq Orgs /\ rf \subseteq Orgs /\ rows \in [Ids -> Row \cup {Null}] /\ i \in Ids /\ rows[i] \in Row
  BY <1>1, RowTypes DEF ReaderInv, ReaderType
<1>3. /\ [rows[i] EXCEPT !.open = ~@] \in Row
      /\ [rows[i] EXCEPT !.open = ~@].at = rows[i].at
  BY <1>2 DEF Row
<1>4. rows' = [rows EXCEPT ![i] = [rows[i] EXCEPT !.open = ~@]]
  BY <1>1, <1>2
<1> QED
  BY <1>1, <1>2, <1>3, <1>4, PagesAssumption DEF DatesStay, Present

LEMMA ReaderStep == LimitInv /\ ReaderInv /\ [Next]_vars => ReaderInv'
<1> SUFFICES ASSUME LimitInv, ReaderInv, [Next]_vars
             PROVE  ReaderInv'
  OBVIOUS
<1>1. CASE FetchPage
  BY <1>1, FetchPageKeeps
<1>2. CASE LoseAnswer \/ RefuseRequest \/ TimePasses \/ Restart \/ UNCHANGED vars
  BY <1>2, ReaderUntouched DEF LoseAnswer, RefuseRequest, TimePasses, Restart, vars
<1>3. CASE WalkAgain
  BY <1>3, BeginAgainKeeps DEF WalkAgain
<1>4. CASE Insert
  BY <1>4, InsertKeepsDates, ChangesKeep DEF Insert
<1>5. CASE Reassign
  BY <1>5, ReassignKeepsDates, ChangesKeep DEF Reassign
<1>6. CASE Settle
  BY <1>6, SettleKeepsDates, ChangesKeep DEF Settle
<1>7. CASE ChangeGrants
  <2>1. rows' = rows /\ Changes
    BY <1>7 DEF ChangeGrants
  <2>2. DatesStay
    <3>1. rm' \subseteq Orgs /\ rf' \subseteq Orgs
      BY <1>7 DEF ChangeGrants, ReaderInv, ReaderType
    <3> QED
      BY <2>1, <3>1 DEF DatesStay, ReaderInv, ReaderType, Present
  <2> QED
    BY <2>1, <2>2, ChangesKeep
<1> QED
  BY <1>1, <1>2, <1>3, <1>4, <1>5, <1>6, <1>7 DEF Next

LEMMA LimitedAlways == LimitInv /\ [Next]_vars => LimitInv'
<1> SUFFICES ASSUME [Next]_vars
             PROVE  [LimitNext]_<<clock, limitVars>>
  BY LimitStep
<1>1. CASE FetchPage \/ LoseAnswer \/ RefuseRequest \/ Restart
  BY <1>1 DEF FetchPage, LoseAnswer, RefuseRequest, Restart, LimitNext
<1>2. CASE WalkAgain
  BY <1>2 DEF WalkAgain
<1>3. CASE Insert \/ Reassign \/ Settle \/ ChangeGrants
  BY <1>3 DEF Insert, Reassign, Settle, ChangeGrants, Changes
<1>4. CASE TimePasses
  BY <1>4 DEF TimePasses, LimitNext
<1>5. CASE UNCHANGED vars
  BY <1>5 DEF vars
<1> QED
  BY <1>1, <1>2, <1>3, <1>4, <1>5 DEF Next

LEMMA RepeatsInStep ==
  ASSUME ReaderInv, NEW P \in SUBSET Rest, ~done, NEW i \in P \cap seen
  PROVE  list # "history" /\ rows[i].at - cursor.at < Micros
  BY DEF ReaderInv, PassedOver, Rest

-----------------------------------------------------------------------------

\* The requests of a session keep to the bound of the limiter whatever the reader
\* does with pages and cursors (enforceSessionRateLimit).
THEOREM RequestsBounded == Spec => []BurstBound
<1>1. Init => LimitInv
  BY LimitInitially DEF Init
<1>2. LimitInv /\ [Next]_vars => LimitInv'
  BY LimitedAlways
<1>3. LimitInv => BurstBound
  BY InvBoundsBurst
<1> QED
  BY <1>1, <1>2, <1>3, PTL DEF Spec

\* A walk through the pages of a list misses no row that stays in it, for any
\* limit and any precision of the cursors (listWorkItems, listNotifications,
\* getWorkItemHistory).
THEOREM WalkMissesNothing == Spec => []NothingLeftOut
<1>1. Init => LimitInv /\ ReaderInv
  BY ReaderInitially, LimitInitially DEF Init
<1>2. LimitInv /\ ReaderInv /\ [Next]_vars => LimitInv' /\ ReaderInv'
  BY ReaderStep, LimitedAlways
<1>3. ReaderInv => NothingLeftOut
  BY DEF ReaderInv
<1> QED
  BY <1>1, <1>2, <1>3, PTL DEF Spec

\* A row is repeated in a walk only within the millisecond of the cursor, and in
\* history never (encodeCursor, encodeNotifCursor, encodeHistoryCursor).
THEOREM RepeatsStayClose == Spec => RepeatsAreClose
<1>1. Init => LimitInv /\ ReaderInv
  BY ReaderInitially, LimitInitially DEF Init
<1>2. LimitInv /\ ReaderInv /\ [Next]_vars => LimitInv' /\ ReaderInv'
  BY ReaderStep, LimitedAlways
<1>3. ReaderInv => (\A P \in SUBSET Rest : ~done /\ TakePage(P)
        => \A i \in P \cap seen : list # "history" /\ rows[i].at - cursor.at < Micros)
  BY RepeatsInStep
<1> QED
  BY <1>1, <1>2, <1>3, PTL DEF Spec, RepeatsAreClose
=============================================================================
