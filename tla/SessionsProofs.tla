---------------------------- MODULE SessionsProofs ----------------------------
(***************************************************************************)
(* The types of Sessions, that a logout stands and that an old password    *)
(* opens nothing, for any number of sessions and requests.                 *)
(*                                                                         *)
(* A request that was let in names a session that is there, for sessions   *)
(* never go (InFlight). A session is revoked if and only if its second     *)
(* event is on record (OnRecord), so that the constraint of the outbox     *)
(* turns away the logout that would move revoked_at.                       *)
(*                                                                         *)
(* A session, or a login that is verified, bears the user's password or is *)
(* dated before the last change of it (Outdated).                          *)
(***************************************************************************)
EXTENDS Sessions, TLAPS

InFlight ==
  \A r \in Requests :
    /\ pc[r] \in {"verifying", "verified"} => job[r] \in Job
    /\ pc[r] \in {"loaded", "inside"} => job[r] \in Ids /\ sessions[job[r]] # Null

OnRecord ==
  \A s \in Ids :
    sessions[s] # Null => ((sessions[s].revoked # Null) <=> (2 \in outbox[s]))

SessionInv == TypeOK /\ InFlight /\ OnRecord

\* What was opened, or verified, with password w at time t.
Outdated(w, t) == w # user.password => user.changed > t

PasswordsDated ==
  /\ \A s \in Ids :
       sessions[s] # Null => Outdated(sessions[s].password, sessions[s].created)
  /\ \A r \in Requests :
       pc[r] = "verified" => Outdated(job[r].password, job[r].start)

-----------------------------------------------------------------------------

LEMMA SessionInitially == Init => SessionInv
  BY SessionAssumption DEF Init, SessionInv, TypeOK, InFlight, OnRecord, User

\* The end of a request, whatever it did to the tables.
LEMMA EndKeeps ==
  ASSUME SessionInv, NEW r \in Requests, End(r)
  PROVE  /\ pc' \in [Requests -> {"idle", "verifying", "verified", "loaded", "inside"}]
         /\ job' \in [Requests -> Job \cup Ids \cup {Null}]
         /\ \A q \in Requests : (pc'[q] = "idle") <=> (job'[q] = Null)
         /\ \A q \in Requests : pc'[q] # "idle" => pc'[q] = pc[q] /\ job'[q] = job[q]
  BY DEF SessionInv, TypeOK, End

LEMMA LoginKeeps ==
  ASSUME SessionInv, NEW r \in Requests, Login(r)
  PROVE  SessionInv'
<1>1. PICK w \in 1 .. MaxPassword :
        job' = [job EXCEPT ![r] = [password |-> w, start |-> clock]]
  BY DEF Login
<1>2. [password |-> w, start |-> clock] \in Job
  BY SessionAssumption DEF SessionInv, TypeOK, Job
<1>3. TypeOK'
  BY <1>1, <1>2, SessionAssumption DEF SessionInv, TypeOK, Login, Goes
<1>4. InFlight' /\ OnRecord'
  BY <1>1, <1>2 DEF SessionInv, TypeOK, InFlight, OnRecord, Login, Goes
<1> QED BY <1>3, <1>4 DEF SessionInv

LEMMA VerifyKeeps ==
  ASSUME SessionInv, NEW r \in Requests, VerifyPassword(r)
  PROVE  SessionInv'
<1>1. CASE End(r)
  BY <1>1, EndKeeps DEF SessionInv, TypeOK, InFlight, OnRecord, VerifyPassword
<1>2. CASE pc' = [pc EXCEPT ![r] = "verified"] /\ UNCHANGED job
  <2>1. TypeOK'
    BY <1>2 DEF SessionInv, TypeOK, VerifyPassword
  <2>2. InFlight' /\ OnRecord'
    BY <1>2 DEF SessionInv, TypeOK, InFlight, OnRecord, VerifyPassword
  <2> QED BY <2>1, <2>2 DEF SessionInv
<1> QED BY <1>1, <1>2 DEF VerifyPassword

LEMMA CreateKeeps ==
  ASSUME SessionInv, NEW r \in Requests, CreateSession(r)
  PROVE  SessionInv'
<1>1. CASE user.active
  <2>1. PICK s \in Ids :
          /\ sessions[s] = Null
          /\ sessions' = [sessions EXCEPT ![s] = NewSession(r, job[r].start)]
          /\ outbox' = [outbox EXCEPT ![s] = {1}]
    BY <1>1 DEF CreateSession
  <2>2. job[r] \in Job
    BY DEF SessionInv, InFlight, CreateSession
  <2>3. /\ NewSession(r, job[r].start) \in Session
        /\ NewSession(r, job[r].start).revoked = Null
    BY <2>2, SessionAssumption DEF SessionInv, TypeOK, NewSession, Session, Job, User
  <2>4. End(r) /\ UNCHANGED <<clock, user>>
    BY DEF CreateSession
  <2>5. sessions' \in [Ids -> Session \cup {Null}] /\ outbox' \in [Ids -> SUBSET {1, 2}]
    BY <2>1, <2>3 DEF SessionInv, TypeOK
  <2>6. TypeOK'
    BY <2>4, <2>5, EndKeeps DEF SessionInv, TypeOK
  <2>7. \A t \in Ids : sessions[t] # Null => sessions'[t] = sessions[t]
    BY <2>1 DEF SessionInv, TypeOK
  <2>8. InFlight'
    BY <2>4, <2>7, EndKeeps DEF SessionInv, InFlight
  <2>9. OnRecord'
    BY <2>1, <2>3 DEF SessionInv, TypeOK, OnRecord
  <2> QED BY <2>6, <2>8, <2>9 DEF SessionInv
<1>2. CASE ~user.active
  BY <1>2, EndKeeps DEF SessionInv, TypeOK, InFlight, OnRecord, CreateSession
<1> QED BY <1>1, <1>2

LEMMA LoadKeeps ==
  ASSUME SessionInv, NEW r \in Requests, LoadSession(r)
  PROVE  SessionInv'
<1>1. PICK s \in Ids : sessions[s] # Null /\ job' = [job EXCEPT ![r] = s]
  BY DEF LoadSession
<1>2. TypeOK'
  BY <1>1, SessionAssumption DEF SessionInv, TypeOK, LoadSession, Goes
<1>3. InFlight' /\ OnRecord'
  BY <1>1 DEF SessionInv, TypeOK, InFlight, OnRecord, LoadSession, Goes
<1> QED BY <1>2, <1>3 DEF SessionInv

LEMMA TouchKeeps ==
  ASSUME SessionInv, NEW r \in Requests, TouchSession(r)
  PROVE  SessionInv'
<1>1. job[r] \in Ids /\ sessions[job[r]] \in Session
  BY DEF SessionInv, TypeOK, InFlight, TouchSession, Goes
<1>2. /\ [sessions[job[r]] EXCEPT !.seen = clock] \in Session
      /\ [sessions[job[r]] EXCEPT !.seen = clock].revoked = sessions[job[r]].revoked
      /\ [sessions[job[r]] EXCEPT !.seen = clock] # Null
  BY <1>1, SessionAssumption DEF SessionInv, TypeOK, Session
<1>3. sessions' = [sessions EXCEPT ![job[r]] = [sessions[job[r]] EXCEPT !.seen = clock]]
  BY <1>1 DEF TouchSession, SessionInv, TypeOK
<1>4. TypeOK'
  BY <1>1, <1>2, <1>3 DEF SessionInv, TypeOK, TouchSession, Goes
<1>5. InFlight' /\ OnRecord'
  BY <1>1, <1>2, <1>3 DEF SessionInv, TypeOK, InFlight, OnRecord, TouchSession, Goes
<1> QED BY <1>4, <1>5 DEF SessionInv

LEMMA LogoutKeeps ==
  ASSUME SessionInv, NEW r \in Requests, Logout(r)
  PROVE  SessionInv'
<1>1. job[r] \in Ids /\ sessions[job[r]] \in Session
  BY DEF SessionInv, TypeOK, InFlight, Logout
<1>2. CASE 2 \in outbox[job[r]]
  BY <1>2, EndKeeps DEF SessionInv, TypeOK, InFlight, OnRecord, Logout
<1>3. CASE 2 \notin outbox[job[r]]
  <2>1. /\ [sessions[job[r]] EXCEPT !.revoked = clock] \in Session
        /\ [sessions[job[r]] EXCEPT !.revoked = clock].revoked = clock
        /\ [sessions[job[r]] EXCEPT !.revoked = clock] # Null
        /\ clock # Null
    BY <1>1, SessionAssumption DEF SessionInv, TypeOK, Session
  <2>2. /\ sessions' = [sessions EXCEPT ![job[r]] = [sessions[job[r]] EXCEPT !.revoked = clock]]
        /\ outbox' = [outbox EXCEPT ![job[r]] = outbox[job[r]] \cup {2}]
        /\ End(r) /\ UNCHANGED <<clock, user>>
    BY <1>1, <1>3 DEF Logout, SessionInv, TypeOK
  <2>3. sessions' \in [Ids -> Session \cup {Null}] /\ outbox' \in [Ids -> SUBSET {1, 2}]
    BY <1>1, <2>1, <2>2 DEF SessionInv, TypeOK
  <2>4. TypeOK'
    BY <2>2, <2>3, EndKeeps DEF SessionInv, TypeOK
  <2>5. \A t \in Ids : sessions[t] # Null => sessions'[t] # Null
    BY <1>1, <2>1, <2>2 DEF SessionInv, TypeOK
  <2>6. InFlight'
    BY <2>2, <2>5, EndKeeps DEF SessionInv, InFlight
  <2>7. OnRecord'
    BY <1>1, <2>1, <2>2 DEF SessionInv, TypeOK, OnRecord
  <2> QED BY <2>4, <2>6, <2>7 DEF SessionInv
<1> QED BY <1>2, <1>3

\* The operator, time and the end of the process touch no session.
LEMMA OthersKeep ==
  ASSUME SessionInv,
         \/ \E active \in BOOLEAN : SetActive(active)
         \/ RaiseEpoch \/ RotatePassword \/ TimePasses \/ Restart
  PROVE  SessionInv'
<1>1. CASE \E active \in BOOLEAN : SetActive(active)
  BY <1>1 DEF SetActive, SessionInv, TypeOK, InFlight, OnRecord, User
<1>2. CASE RaiseEpoch
  BY <1>2, SessionAssumption DEF RaiseEpoch, SessionInv, TypeOK, InFlight, OnRecord, User
<1>3. CASE RotatePassword
  <2>1. user' \in User
    <3>1. /\ clock \in Nat /\ user.password + 1 \in 1 .. MaxPassword
          /\ user' = [user EXCEPT !.password = user.password + 1, !.changed = clock]
      BY <1>3, SessionAssumption DEF RotatePassword, SessionInv, TypeOK, User
    <3>2. user' = [active |-> user.active, epoch |-> user.epoch,
                   password |-> user.password + 1, changed |-> clock]
      BY <3>1 DEF SessionInv, TypeOK, User
    <3> QED BY <3>1, <3>2 DEF SessionInv, TypeOK, User
  <2>2. UNCHANGED <<clock, sessions, outbox, pc, job>>
    BY <1>3 DEF RotatePassword
  <2> QED BY <2>1, <2>2 DEF SessionInv, TypeOK, InFlight, OnRecord
<1>4. CASE TimePasses
  BY <1>4, SessionAssumption DEF TimePasses, SessionInv, TypeOK, InFlight, OnRecord
<1>5. CASE Restart
  BY <1>5, SessionAssumption DEF Restart, SessionInv, TypeOK, InFlight, OnRecord
<1> QED BY <1>1, <1>2, <1>3, <1>4, <1>5

LEMMA AnswerKeeps ==
  ASSUME SessionInv, NEW r \in Requests, Answer(r)
  PROVE  SessionInv'
  BY EndKeeps DEF SessionInv, TypeOK, InFlight, OnRecord, Answer

LEMMA SessionStep == SessionInv /\ [Next]_vars => SessionInv'
<1> SUFFICES ASSUME SessionInv, [Next]_vars PROVE SessionInv'
  OBVIOUS
<1>1. CASE UNCHANGED vars
  BY <1>1 DEF vars, SessionInv, TypeOK, InFlight, OnRecord
<1>2. ASSUME NEW r \in Requests,
             \/ Login(r) \/ VerifyPassword(r) \/ CreateSession(r)
             \/ LoadSession(r) \/ TouchSession(r) \/ Answer(r) \/ Logout(r)
      PROVE  SessionInv'
  BY <1>2, LoginKeeps, VerifyKeeps, CreateKeeps, LoadKeeps, TouchKeeps, AnswerKeeps, LogoutKeeps
<1> QED BY <1>1, <1>2, OthersKeep DEF Next

\* Every row, request and event of Sessions is well formed in every reachable
\* state, and an idle slot holds nothing of the request before (session.ts).
THEOREM SessionsWellFormed == Spec => []TypeOK
<1>1. Init => SessionInv
  BY SessionInitially
<1>2. SessionInv /\ [Next]_vars => SessionInv'
  BY SessionStep
<1>3. SessionInv => TypeOK
  BY DEF SessionInv
<1> QED BY <1>1, <1>2, <1>3, PTL DEF Spec

\* What one step does to the rows of sessions.
LEMMA RevocationStands ==
  ASSUME SessionInv, [Next]_vars, NEW s \in Ids, sessions[s] # Null
  PROVE  sessions[s].revoked # Null => sessions'[s].revoked = sessions[s].revoked
<1>1. CASE UNCHANGED sessions
  BY <1>1
<1>2. ASSUME NEW r \in Requests, CreateSession(r) PROVE sessions'[s] = sessions[s] \/ UNCHANGED sessions
  BY <1>2 DEF CreateSession, SessionInv, TypeOK
<1>3. ASSUME NEW r \in Requests, TouchSession(r) PROVE sessions'[s].revoked = sessions[s].revoked
  <2>1. sessions[s] \in Session
    BY DEF SessionInv, TypeOK
  <2> QED BY <1>3, <2>1 DEF TouchSession, SessionInv, TypeOK, Session
<1>4. ASSUME NEW r \in Requests, Logout(r), sessions[s].revoked # Null
      PROVE  sessions'[s].revoked = sessions[s].revoked
  BY <1>4 DEF Logout, SessionInv, TypeOK, OnRecord
<1> QED
  BY <1>1, <1>2, <1>3, <1>4
     DEF Next, vars, Login, VerifyPassword, LoadSession, Answer, SetActive, RaiseEpoch,
         RotatePassword, TimePasses, Restart

\* Sessions are never deleted.
LEMMA SessionsStay ==
  ASSUME SessionInv, [Next]_vars, NEW s \in Ids, sessions[s] # Null
  PROVE  sessions'[s] # Null
<1>1. CASE UNCHANGED sessions
  BY <1>1
<1>2. ASSUME NEW r \in Requests, CreateSession(r) PROVE sessions'[s] = sessions[s] \/ UNCHANGED sessions
  BY <1>2 DEF CreateSession, SessionInv, TypeOK
<1>3. sessions[s] \in Session
  BY DEF SessionInv, TypeOK
<1>4. ASSUME NEW r \in Requests, TouchSession(r) \/ Logout(r) PROVE sessions'[s] # Null
  <2>1. [sessions[s] EXCEPT !.seen = clock] \in Session /\ [sessions[s] EXCEPT !.revoked = clock] \in Session
    BY <1>3, SessionAssumption DEF SessionInv, TypeOK, Session
  <2>2. sessions'[s] \in {sessions[s], [sessions[s] EXCEPT !.seen = clock], [sessions[s] EXCEPT !.revoked = clock]}
    BY <1>4 DEF TouchSession, Logout, SessionInv, TypeOK
  <2> QED BY <1>3, <2>1, <2>2, SessionAssumption
<1> QED
  BY <1>1, <1>2, <1>4
     DEF Next, vars, Login, VerifyPassword, LoadSession, Answer, SetActive, RaiseEpoch,
         RotatePassword, TimePasses, Restart

\* A logout stands, whatever other tabs and requests do: its moment is never
\* changed, and it is on record in the outbox (routes/auth.ts, logout).
THEOREM LogoutsStand == Spec => LogoutStands
<1> DEFINE Stands ==
      \A s \in Ids :
        sessions[s] # Null =>
          /\ sessions[s].revoked # Null => sessions'[s].revoked = sessions[s].revoked
          /\ (sessions'[s].revoked # Null) <=> (2 \in outbox'[s])
<1>1. Init => SessionInv
  BY SessionInitially
<1>2. SessionInv /\ [Next]_vars => SessionInv'
  BY SessionStep
<1>3. SessionInv /\ [Next]_vars => [Stands]_vars
  <2> SUFFICES ASSUME SessionInv, [Next]_vars, NEW s \in Ids, sessions[s] # Null
               PROVE  /\ sessions[s].revoked # Null => sessions'[s].revoked = sessions[s].revoked
                      /\ (sessions'[s].revoked # Null) <=> (2 \in outbox'[s])
    OBVIOUS
  <2>1. SessionInv'
    BY SessionStep
  <2>2. sessions'[s] # Null
    BY SessionsStay
  <2> QED BY <2>1, <2>2, RevocationStands DEF SessionInv, OnRecord
<1> QED BY <1>1, <1>2, <1>3, PTL DEF Spec, LogoutStands

-----------------------------------------------------------------------------
(* Passwords *)

LEMMA PasswordStep == SessionInv /\ PasswordsDated /\ [Next]_vars => PasswordsDated'
<1> SUFFICES ASSUME SessionInv, PasswordsDated, [Next]_vars PROVE PasswordsDated'
  OBVIOUS
<1>1. CASE UNCHANGED <<user, sessions, pc, job>>
  BY <1>1 DEF PasswordsDated, Outdated
<1>2. ASSUME NEW r \in Requests, Login(r) \/ LoadSession(r) \/ Answer(r) PROVE PasswordsDated'
  BY <1>2, EndKeeps DEF Login, LoadSession, Answer, Goes, SessionInv, TypeOK, PasswordsDated, Outdated
<1>3. ASSUME NEW r \in Requests, VerifyPassword(r) PROVE PasswordsDated'
  BY <1>3, EndKeeps DEF VerifyPassword, SessionInv, TypeOK, PasswordsDated, Outdated
<1>4. ASSUME NEW r \in Requests, CreateSession(r) PROVE PasswordsDated'
  <2>1. UNCHANGED user /\ End(r) /\ pc[r] = "verified"
    BY <1>4 DEF CreateSession
  <2>2. \A s \in Ids :
          \/ sessions'[s] = sessions[s]
          \/ sessions'[s] = NewSession(r, job[r].start)
    BY <1>4 DEF CreateSession, SessionInv, TypeOK
  <2>3. /\ NewSession(r, job[r].start).password = job[r].password
        /\ NewSession(r, job[r].start).created = job[r].start
    BY DEF NewSession
  <2> QED BY <2>1, <2>2, <2>3, EndKeeps DEF PasswordsDated, Outdated
<1>5. ASSUME NEW r \in Requests, TouchSession(r) \/ Logout(r) PROVE PasswordsDated'
  <2>1. UNCHANGED user
    BY <1>5 DEF TouchSession, Logout
  <2>2. \A s \in Ids :
          sessions'[s] \in {sessions[s], [sessions[s] EXCEPT !.seen = clock], [sessions[s] EXCEPT !.revoked = clock]}
    BY <1>5 DEF TouchSession, Logout, SessionInv, TypeOK
  <2>3. \A s \in Ids : sessions[s] # Null =>
          sessions'[s].password = sessions[s].password /\ sessions'[s].created = sessions[s].created
    BY <2>2 DEF SessionInv, TypeOK, Session
  <2>4. \A s \in Ids : sessions'[s] # Null => sessions[s] # Null
    BY <1>5 DEF TouchSession, Logout, SessionInv, TypeOK, InFlight, Goes
  <2>5. \A q \in Requests : pc'[q] = "verified" => pc[q] = "verified" /\ job'[q] = job[q]
    BY <1>5, EndKeeps DEF TouchSession, Logout, Goes, SessionInv, TypeOK
  <2> QED BY <2>1, <2>3, <2>4, <2>5 DEF PasswordsDated, Outdated
<1>6. CASE RotatePassword
  <2>1. user' = [user EXCEPT !.password = @ + 1, !.changed = clock] /\ UNCHANGED <<sessions, pc, job>>
    BY <1>6 DEF RotatePassword
  <2>2. user'.changed = clock
    BY <2>1 DEF SessionInv, TypeOK, User
  <2> QED BY <1>6, <2>1, <2>2 DEF RotatePassword, PasswordsDated, Outdated
<1>7. CASE RaiseEpoch \/ \E active \in BOOLEAN : SetActive(active)
  <2>1. user'.password = user.password /\ user'.changed = user.changed
    BY <1>7 DEF RaiseEpoch, SetActive, SessionInv, TypeOK, User
  <2> QED BY <1>7, <2>1 DEF RaiseEpoch, SetActive, PasswordsDated, Outdated
<1>8. CASE Restart
  BY <1>8 DEF Restart, PasswordsDated, Outdated
<1>9. CASE TimePasses
  BY <1>1, <1>9 DEF TimePasses
<1>10. CASE UNCHANGED vars
  BY <1>1, <1>10 DEF vars
<1> QED BY <1>2, <1>3, <1>4, <1>5, <1>6, <1>7, <1>8, <1>9, <1>10 DEF Next

\* No request passes with a session that was opened, or whose login was
\* verified, with a password that has been replaced, however the operator, the
\* login and its argon2 race each other (createSession, loadSession).
THEOREM OldPasswordsLockOut == Spec => OldPasswordLocksOut
<1> DEFINE Opens(r) == pc[r] = "idle" /\ pc'[r] = "loaded"
<1>1. Init => SessionInv /\ PasswordsDated
  BY SessionInitially DEF Init, PasswordsDated
<1>2. SessionInv /\ PasswordsDated /\ [Next]_vars => (SessionInv /\ PasswordsDated)'
  BY SessionStep, PasswordStep
<1>3. ASSUME SessionInv, PasswordsDated, [Next]_vars, NEW r \in Requests, Opens(r)
      PROVE  sessions[job'[r]].password = user.password
  <2>1. LoadSession(r)
    <3>1. \A q \in Requests : pc'[q] = "loaded" /\ pc[q] = "idle" => LoadSession(q)
      <4>1. CASE \E q \in Requests : VerifyPassword(q) \/ CreateSession(q) \/ Answer(q) \/ Logout(q)
        BY <1>3, <4>1, EndKeeps DEF VerifyPassword, CreateSession, Answer, Logout, SessionInv, TypeOK
      <4>2. CASE \E q \in Requests : Login(q) \/ LoadSession(q) \/ TouchSession(q)
        <5>1. PICK p \in Requests : Login(p) \/ LoadSession(p) \/ TouchSession(p)
          BY <4>2
        <5>2. CASE LoadSession(p)
          BY <1>3, <5>2 DEF LoadSession, Goes, SessionInv, TypeOK
        <5>3. CASE Login(p) \/ TouchSession(p)
          <6>1. pc' = [pc EXCEPT ![p] = "verifying"] \/ pc' = [pc EXCEPT ![p] = "inside"]
            BY <5>3 DEF Login, TouchSession, Goes
          <6> QED BY <1>3, <6>1 DEF SessionInv, TypeOK
        <5> QED BY <5>1, <5>2, <5>3
      <4>3. CASE Restart
        BY <4>3 DEF Restart
      <4>4. CASE UNCHANGED pc
        BY <4>4
      <4>5. \/ \E q \in Requests :
                 \/ Login(q) \/ VerifyPassword(q) \/ CreateSession(q)
                 \/ LoadSession(q) \/ TouchSession(q) \/ Answer(q) \/ Logout(q)
            \/ Restart
            \/ UNCHANGED pc
        BY <1>3 DEF Next, vars, SetActive, RaiseEpoch, RotatePassword, TimePasses
      <4> QED BY <4>1, <4>2, <4>3, <4>4, <4>5
    <3> QED BY <1>3, <3>1
  <2>2. PICK s \in Ids : sessions[s] # Null /\ Alive(s) /\ job' = [job EXCEPT ![r] = s]
    BY <2>1 DEF LoadSession
  <2>3. user.changed \in Nat /\ sessions[s].created \in Nat /\ user.changed <= sessions[s].created
    BY <1>3, <2>2 DEF Alive, SessionInv, TypeOK, Session, User
  <2>4. job'[r] = s
    BY <1>3, <2>2 DEF SessionInv, TypeOK
  <2> QED BY <1>3, <2>2, <2>3, <2>4 DEF PasswordsDated, Outdated
<1>4. SessionInv /\ PasswordsDated /\ [Next]_vars
        => [\A r \in Requests : Opens(r) => sessions[job'[r]].password = user.password]_vars
  BY <1>3
<1> QED BY <1>1, <1>2, <1>4, PTL DEF Spec, OldPasswordLocksOut
===============================================================================
