------------------------------- MODULE Sessions -------------------------------
(***************************************************************************)
(* Login, sessions and logout of one user: server/src/auth/session.ts and  *)
(* routes/auth.ts over the tables app_users and sessions. The limiter may  *)
(* refuse a login or a logout before it does anything; see RateLimit.      *)
(*                                                                         *)
(* A request stands, by pc:                                                *)
(*   verifying  a login: its transaction has begun, with it now() is fixed *)
(*   verified   ... the row of the user was read, the password fits it     *)
(*   loaded     loadSession has let the session pass                       *)
(*   inside     last_seen_at is written; the handler runs                  *)
(*                                                                         *)
(* Accounts are changed by an operator with a statement of his own, which  *)
(* is not in the repository's code: he deactivates the user, replaces his  *)
(* password (password_hash_updated_at = now()) or raises his auth_epoch.   *)
(***************************************************************************)
EXTENDS Integers

CONSTANTS
  Ids,             \* identifiers of sessions
  Requests,        \* slots for requests in flight
  Null,            \* SQL NULL
  IdleTimeout,     \* IDLE_TIMEOUT_MS, in ticks
  AbsoluteTimeout, \* ABSOLUTE_TIMEOUT_MS, in ticks
  MaxClock,        \* bound: the last tick
  MaxPassword,     \* bound: passwords the user has had
  MaxEpoch         \* bound: auth_epoch

VARIABLES
  clock,    \* Date.now() and now()
  user,     \* the row of app_users; passwords are numbered
  sessions, \* the rows of sessions
  outbox,   \* aggregate_version of the events of each session, UNIQUE
  pc,
  job

vars == <<clock, user, sessions, outbox, pc, job>>

User == [active: BOOLEAN, epoch: 1 .. MaxEpoch, password: 1 .. MaxPassword, changed: Nat]

\* password is history: the password the session was opened with.
Session == [password: 1 .. MaxPassword, epoch: 1 .. MaxEpoch, created: Nat, seen: Nat,
            expires: Nat, revoked: Nat \cup {Null}]

\* A login: the password it was sent and the now() of its transaction.
Job == [password: 1 .. MaxPassword, start: Nat]

ASSUME SessionAssumption ==
  /\ MaxClock \in Nat
  /\ IdleTimeout \in Nat
  /\ AbsoluteTimeout \in Nat
  /\ MaxPassword \in Nat \ {0}
  /\ MaxEpoch \in Nat \ {0}
  /\ Null \notin Ids
  /\ Null \notin Nat
  /\ Null \notin Session
  /\ Null \notin Job

End(r) ==
  /\ pc' = [pc EXCEPT ![r] = "idle"]
  /\ job' = [job EXCEPT ![r] = Null]

Goes(r, from, to) == pc[r] = from /\ pc' = [pc EXCEPT ![r] = to]

-----------------------------------------------------------------------------
(* Login *)

\* Any password: the user's, an old one, a wrong one. A login the limiter blocks
\* gets 429 before its transaction begins.
Login(r) ==
  /\ Goes(r, "idle", "verifying")
  /\ \E w \in 1 .. MaxPassword :
       job' = [job EXCEPT ![r] = [password |-> w, start |-> clock]]
  /\ UNCHANGED <<clock, user, sessions, outbox>>

\* The row is read, without a lock, and argon2 takes its time over it.
VerifyPassword(r) ==
  /\ pc[r] = "verifying"
  /\ IF user.active /\ job[r].password = user.password
       THEN pc' = [pc EXCEPT ![r] = "verified"] /\ UNCHANGED job
       ELSE End(r)
  /\ UNCHANGED <<clock, user, sessions, outbox>>

NewSession(r, created) ==
  [password |-> job[r].password, epoch |-> user.epoch, created |-> created, seen |-> created,
   expires |-> clock + AbsoluteTimeout, revoked |-> Null]

\* Mutant: the session is dated when it is written.
CreateSessionLate(r) ==
  /\ pc[r] = "verified"
  /\ IF user.active
       THEN \E s \in Ids :
              /\ sessions[s] = Null
              /\ sessions' = [sessions EXCEPT ![s] = NewSession(r, clock)]
              /\ outbox' = [outbox EXCEPT ![s] = {1}]
       ELSE UNCHANGED <<sessions, outbox>>
  /\ End(r)
  /\ UNCHANGED <<clock, user>>

\* Under the row lock of the user the account is looked at again, but not the
\* password; the session, dated by the start of the transaction, and its LOGIN
\* event are committed together.
CreateSession(r) ==
  /\ pc[r] = "verified"
  /\ IF user.active
       THEN \E s \in Ids :
              /\ sessions[s] = Null
              /\ sessions' = [sessions EXCEPT ![s] = NewSession(r, job[r].start)]
              /\ outbox' = [outbox EXCEPT ![s] = {1}]
       ELSE UNCHANGED <<sessions, outbox>>
  /\ End(r)
  /\ UNCHANGED <<clock, user>>

-----------------------------------------------------------------------------
(* Requests of a session *)

\* The fences of loadSession.
Alive(s) ==
  /\ sessions[s].revoked = Null
  /\ user.active
  /\ user.epoch = sessions[s].epoch
  /\ user.changed <= sessions[s].created
  /\ clock <= sessions[s].expires
  /\ clock - sessions[s].seen <= IdleTimeout
  /\ clock - sessions[s].created <= AbsoluteTimeout

\* One that does not pass gets 401.
LoadSession(r) ==
  /\ Goes(r, "idle", "loaded")
  /\ \E s \in Ids :
       /\ sessions[s] # Null
       /\ Alive(s)
       /\ job' = [job EXCEPT ![r] = s]
  /\ UNCHANGED <<clock, user, sessions, outbox>>

\* A statement of its own: much may have happened since the session was loaded.
TouchSession(r) ==
  /\ Goes(r, "loaded", "inside")
  /\ sessions' = [sessions EXCEPT ![job[r]].seen = clock]
  /\ UNCHANGED <<clock, user, outbox, job>>

\* Every other handler, and a logout the limiter blocks.
Answer(r) ==
  /\ pc[r] = "inside"
  /\ End(r)
  /\ UNCHANGED <<clock, user, sessions, outbox>>

\* Mutant: a logout that is on record already is one more success.
LogoutAgain(r) ==
  LET s == job[r]
  IN  /\ pc[r] = "inside"
      /\ sessions' = [sessions EXCEPT ![s].revoked = clock]
      /\ outbox' = [outbox EXCEPT ![s] = @ \cup {2}]
      /\ End(r)
      /\ UNCHANGED <<clock, user>>

\* Mutant: the event of a logout takes the next free version, so that nothing
\* refuses a second one.
LogoutNextVersion(r) ==
  LET s == job[r]
  IN  /\ pc[r] = "inside"
      /\ sessions' = [sessions EXCEPT ![s].revoked = clock]
      /\ outbox' = [outbox EXCEPT ![s] = @ \cup {IF 2 \in @ THEN 3 ELSE 2}]
      /\ End(r)
      /\ UNCHANGED <<clock, user>>

\* The UPDATE asks nothing of the row; a second LOGOUT event of version 2 breaks
\* the UNIQUE constraint of outbox_events, and the transaction is rolled back.
Logout(r) ==
  LET s == job[r]
  IN  /\ pc[r] = "inside"
      /\ IF 2 \in outbox[s]
           THEN UNCHANGED <<sessions, outbox>>
           ELSE /\ sessions' = [sessions EXCEPT ![s].revoked = clock]
                /\ outbox' = [outbox EXCEPT ![s] = @ \cup {2}]
      /\ End(r)
      /\ UNCHANGED <<clock, user>>

-----------------------------------------------------------------------------
(* The operator, time, and the process *)

SetActive(active) ==
  /\ user.active # active
  /\ user' = [user EXCEPT !.active = active]
  /\ UNCHANGED <<clock, sessions, outbox, pc, job>>

RaiseEpoch ==
  /\ user.epoch < MaxEpoch
  /\ user' = [user EXCEPT !.epoch = @ + 1]
  /\ UNCHANGED <<clock, sessions, outbox, pc, job>>

\* One statement, whose now() is the moment of its COMMIT. Resolution: it does
\* not fall into the tick in which a login under way, or the transaction of a
\* session, began (timestamps are compared in milliseconds).
RotatePassword ==
  /\ user.password < MaxPassword
  /\ \A r \in Requests : pc[r] \in {"verifying", "verified"} => job[r].start < clock
  /\ \A s \in Ids : sessions[s] # Null => sessions[s].created < clock
  /\ user' = [user EXCEPT !.password = @ + 1, !.changed = clock]
  /\ UNCHANGED <<clock, sessions, outbox, pc, job>>

TimePasses ==
  /\ clock < MaxClock
  /\ clock' = clock + 1
  /\ UNCHANGED <<user, sessions, outbox, pc, job>>

\* Open transactions are rolled back, the sessions in the database go on.
Restart ==
  /\ pc' = [r \in Requests |-> "idle"]
  /\ job' = [r \in Requests |-> Null]
  /\ UNCHANGED <<clock, user, sessions, outbox>>

-----------------------------------------------------------------------------

Init ==
  /\ clock = 0
  /\ user = [active |-> TRUE, epoch |-> 1, password |-> 1, changed |-> 0]
  /\ sessions = [s \in Ids |-> Null]
  /\ outbox = [s \in Ids |-> {}]
  /\ pc = [r \in Requests |-> "idle"]
  /\ job = [r \in Requests |-> Null]

Next ==
  \/ \E r \in Requests :
       \/ Login(r) \/ VerifyPassword(r) \/ CreateSession(r)
       \/ LoadSession(r) \/ TouchSession(r) \/ Answer(r) \/ Logout(r)
  \/ \E active \in BOOLEAN : SetActive(active)
  \/ RaiseEpoch
  \/ RotatePassword
  \/ TimePasses
  \/ Restart

Spec == Init /\ [][Next]_vars

-----------------------------------------------------------------------------
(* Properties *)

TypeOK ==
  /\ clock \in 0 .. MaxClock
  /\ user \in User
  /\ sessions \in [Ids -> Session \cup {Null}]
  /\ outbox \in [Ids -> SUBSET {1, 2}]
  /\ pc \in [Requests -> {"idle", "verifying", "verified", "loaded", "inside"}]
  /\ job \in [Requests -> Job \cup Ids \cup {Null}]
  /\ \A r \in Requests : (pc[r] = "idle") <=> (job[r] = Null)

\* A password that has been replaced opens nothing any more: neither a session
\* opened with it before, nor one whose login had verified it and had still to
\* write the session when it was replaced (createSession, loadSession).
OldPasswordLocksOut ==
  [][\A r \in Requests :
       pc[r] = "idle" /\ pc'[r] = "loaded"
         => sessions[job'[r]].password = user.password]_vars

\* The moment of a logout stands: neither a second logout from another tab nor
\* a late touch changes it, and it is on record in the outbox (logout).
LogoutStands ==
  [][\A s \in Ids :
       sessions[s] # Null =>
         /\ sessions[s].revoked # Null => sessions'[s].revoked = sessions[s].revoked
         /\ (sessions'[s].revoked # Null) <=> (2 \in outbox'[s])]_vars
=============================================================================
