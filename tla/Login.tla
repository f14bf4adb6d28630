------------------------------- MODULE Login -------------------------------
(***************************************************************************)
(* The web login of the daemon: the limiter of failed attempts, the second *)
(* factor with its file, and the cookie sessions.  Every HTTP request runs *)
(* in a goroutine of its own, and each critical section of a mutex is one  *)
(* step, so requests interleave between the admission by the limiter, the  *)
(* reading of the binding, the recording of a failure, the three system    *)
(* calls that save a binding, and the creation of the session.             *)
(*                                                                         *)
(* What a request carries is a choice, made where it first matters: the    *)
(* password right or wrong, the code absent or given, and then right or    *)
(* wrong.                                                                  *)
(* Time is kept as ages that saturate, so no clock bounds a behaviour.     *)
(* The second factor is on, as it is unless a flag or demo mode turns it   *)
(* off.                                                                    *)
(***************************************************************************)
EXTENDS Naturals, FiniteSets

CONSTANTS
  Requests,     \* goroutines that serve a request
  Clients,      \* keys of the limiter: peer addresses
  Sessions,     \* session ids in use at a time
  Secrets,      \* shared secrets of authenticators
  MaxFails,     \* loginMaxFails
  Window,       \* loginWindow, in steps of the clock
  Block,        \* loginBlock, in steps of the clock
  MaxTracked,   \* loginMaxTracked
  SweepAbove,   \* sessions that trigger a sweep: 100 in the code
  Faults,       \* subset of {"disk", "crash", "reset"}
  None

ASSUME LimiterAssumption ==
  /\ MaxFails \in Nat \ {0}
  /\ Window \in Nat
  /\ Block \in Nat
  /\ Block <= Window
ASSUME RequestAssumption == IsFiniteSet(Requests)
ASSUME NoneAssumption ==
  /\ None \notin Clients \cup Sessions \cup Secrets \cup {"tmp", "file", "gone"}
  /\ None \notin [secret : Secrets, confirmed : BOOLEAN]

VARIABLES
  on,           \* the daemon's process runs
  secret,       \* s.totpSecret
  bound,        \* s.totpBound
  attempts,     \* loginLimiter.attempts; no failures: no entry
  sessions,     \* s.sessions: which ids are known, and which are past their time
  pc,           \* where each goroutine is
  req,          \* its local variables
  file,         \* what totp.json holds, None: there is no such file
  tmp,          \* what totp.json.tmp holds
  unsaved       \* history: a binding could not be saved, or its file was removed

vars == <<on, secret, bound, attempts, sessions, pc, req, file, tmp, unsaved>>

disk    == <<file, tmp>>

-----------------------------------------------------------------------------

Attempt   == [fails : Nat, age : 0 .. Window + 1]
NoAttempt == [fails |-> 0, age |-> 0]

Config  == [secret : Secrets, confirmed : BOOLEAN]
Partial == [secret |-> None, confirmed |-> FALSE]      \* a file cut off: it does not parse

\* The code a login with the right password carries, and that it was found right.
Codes == {"absent", "given", "right"}

\* fd: the name of the file a goroutine has open ("gone": it has lost its name).
Fresh == [client |-> None, code |-> None, bound |-> FALSE, fd |-> None, session |-> None]

\* Where a goroutine can be; the ones before a failure can still be recorded.
Deciding == {"password", "code"}
Saving   == {"open", "write", "rename"}
Steps    == {"idle", "admit", "logout"} \cup Deciding \cup Saving

TypeOK ==
  /\ on \in BOOLEAN
  /\ secret \in IF on THEN Secrets ELSE {None}
  /\ bound \in BOOLEAN
  /\ attempts \in [Clients -> Attempt]
  /\ sessions \in [Sessions -> {"none", "live", "expired"}]
  /\ pc \in [Requests -> Steps]
  /\ req \in [Requests -> [client : Clients \cup {None},
                           code : Codes \cup {None}, bound : BOOLEAN,
                           fd : {"tmp", "file", "gone", None}, session : Sessions \cup {None}]]
  /\ file \in Config \cup {Partial, None}
  /\ tmp \in Config \cup {Partial, None}
  /\ unsaved \in BOOLEAN

-----------------------------------------------------------------------------
(* The limiter: three critical sections of its mutex *)

Stale(a)   == a.age > Window
Blocked(a) == ~Stale(a) /\ a.fails >= MaxFails /\ a.age < Block

\* (mutant) The failures are kept when the block has been served.
AfterAllowedKept(c) ==
  IF Stale(attempts[c]) THEN [attempts EXCEPT ![c] = NoAttempt] ELSE attempts

\* (mutant) A refused attempt counts as the last one.
AfterAllowedRefreshed(c) ==
  IF Blocked(attempts[c]) THEN [attempts EXCEPT ![c].age = 0]
  ELSE IF Stale(attempts[c]) \/ attempts[c].fails >= MaxFails
  THEN [attempts EXCEPT ![c] = NoAttempt]
  ELSE attempts

\* allowed: an entry past the window, or a block that has been served, is deleted.
AfterAllowed(c) ==
  IF Stale(attempts[c]) \/ (attempts[c].fails >= MaxFails /\ ~Blocked(attempts[c]))
  THEN [attempts EXCEPT ![c] = NoAttempt]
  ELSE attempts

Tracked == {c \in Clients : attempts[c].fails > 0}

\* (mutant) The sweep empties the table.
SweptAll == [c \in Clients |-> NoAttempt]

\* sweepLocked
Swept == [c \in Clients |-> IF Stale(attempts[c]) THEN NoAttempt ELSE attempts[c]]

\* fail: the sweep runs first when the table is full; the entry is added even
\* when the sweep found nothing to drop.
AfterFail(c) ==
  LET kept == IF Cardinality(Tracked) >= MaxTracked THEN Swept ELSE attempts
  IN  [kept EXCEPT ![c] = [fails |-> kept[c].fails + 1, age |-> 0]]

-----------------------------------------------------------------------------
(* Goroutines *)

Goto(r, step)   == pc' = [pc EXCEPT ![r] = step]
Answer(r)       == Goto(r, "idle") /\ req' = [req EXCEPT ![r] = Fresh]
Client(r)       == req[r].client

\* A login arrives; a blocked client is answered at once.
Arrive(r, c) ==
  /\ on /\ pc[r] = "idle"
  /\ attempts' = AfterAllowed(c)
  /\ IF Blocked(attempts[c])
     THEN UNCHANGED <<pc, req>>
     ELSE Goto(r, "password") /\ req' = [req EXCEPT ![r] = [Fresh EXCEPT !.client = c]]
  /\ UNCHANGED <<on, secret, bound, sessions, disk, unsaved>>

\* A wrong user name or password, or a wrong code, is recorded and refused.
Refuse(r) ==
  /\ pc[r] = "password" \/ (pc[r] = "code" /\ req[r].code = "given")
  /\ attempts' = AfterFail(Client(r))
  /\ Answer(r)
  /\ UNCHANGED <<on, secret, bound, sessions, disk, unsaved>>

\* The right password: checkTOTP copies the binding and releases the lock
\* before it looks at the code.
ReadBinding(r) ==
  /\ pc[r] = "password"
  /\ \E code \in {"absent", "given"} : req' = [req EXCEPT ![r].bound = bound, ![r].code = code]
  /\ Goto(r, "code")
  /\ UNCHANGED <<on, secret, bound, attempts, sessions, disk, unsaved>>

\* (mutant) A login that finds the factor bound since its read is let through.
AskForCodeStale(r) ==
  /\ pc[r] = "code" /\ req[r].code = "absent"
  /\ IF bound /\ ~req[r].bound THEN Goto(r, "admit") /\ UNCHANGED req ELSE Answer(r)
  /\ UNCHANGED <<on, secret, bound, attempts, sessions, disk, unsaved>>

\* No code: the answer asks for one, or shows the secret to enrol.
AskForCode(r) ==
  /\ pc[r] = "code" /\ req[r].code = "absent"
  /\ Answer(r)
  /\ UNCHANGED <<on, secret, bound, attempts, sessions, disk, unsaved>>

\* (mutant) The binding stays in memory.
VerifyCodeUnsaved(r) ==
  /\ pc[r] = "code" /\ req[r].code = "given"
  /\ Goto(r, "admit")
  /\ bound' = TRUE
  /\ req' = [req EXCEPT ![r].code = "right"]
  /\ UNCHANGED <<on, secret, attempts, sessions, disk, unsaved>>

\* (mutant) Enrolment saves the binding and forgets to set the flag.
VerifyCodeUnbound(r) ==
  /\ pc[r] = "code" /\ req[r].code = "given"
  /\ Goto(r, IF req[r].bound THEN "admit" ELSE "open")
  /\ req' = [req EXCEPT ![r].bound = FALSE, ![r].code = "right"]
  /\ UNCHANGED <<on, secret, bound, attempts, sessions, disk, unsaved>>

\* A right code: the first one binds the authenticator and goes on to save it.
\* What was read of the binding is not used any more.
VerifyCode(r) ==
  /\ pc[r] = "code" /\ req[r].code = "given"
  /\ IF req[r].bound
     THEN Goto(r, "admit") /\ UNCHANGED bound
     ELSE Goto(r, "open") /\ bound' = TRUE
  /\ req' = [req EXCEPT ![r].bound = FALSE, ![r].code = "right"]
  /\ UNCHANGED <<on, secret, attempts, sessions, disk, unsaved>>

-----------------------------------------------------------------------------
(* totp.Save, outside every lock: write a temporary file, then rename it *)

Binding == [secret |-> secret, confirmed |-> TRUE]

\* os.WriteFile opens the temporary file, truncating the one that is there.
OpenTmp(r) ==
  /\ pc[r] = "open"
  /\ tmp' = Partial
  /\ req' = [req EXCEPT ![r].fd = "tmp"]
  /\ Goto(r, "write")
  /\ UNCHANGED <<on, secret, bound, attempts, sessions, file, unsaved>>

\* The data goes to the file that was opened, whatever it is called by now.
WriteTmp(r) ==
  /\ pc[r] = "write"
  /\ tmp' = IF req[r].fd = "tmp" THEN Binding ELSE tmp
  /\ file' = IF req[r].fd = "file" THEN Binding ELSE file
  /\ req' = [req EXCEPT ![r].fd = None]
  /\ Goto(r, "rename")
  /\ UNCHANGED <<on, secret, bound, attempts, sessions, unsaved>>

\* What the open files are called once totp.json.tmp is named totp.json.
Renamed(fd) == CASE fd = "tmp" -> "file" [] fd = "file" -> "gone" [] OTHER -> fd

\* The name may be gone: another login renamed the file this one was writing.
RenameTmp(r) ==
  /\ pc[r] = "rename"
  /\ IF tmp = None
     THEN UNCHANGED <<file, req>>
     ELSE /\ file' = tmp
          /\ req' = [q \in Requests |-> [req[q] EXCEPT !.fd = Renamed(@)]]
  /\ tmp' = None
  /\ Goto(r, "admit")
  /\ UNCHANGED <<on, secret, bound, attempts, sessions, unsaved>>

\* A failed save is logged; the login goes on.
SaveFails(r) ==
  /\ "disk" \in Faults
  /\ pc[r] \in Saving
  /\ unsaved' = TRUE
  /\ req' = [req EXCEPT ![r].fd = None]
  /\ Goto(r, "admit")
  /\ UNCHANGED <<on, secret, bound, attempts, sessions, disk>>

-----------------------------------------------------------------------------
(* The end of a login, and the sessions *)

Known == {s \in Sessions : sessions[s] # "none"}

SweptSessions ==
  IF Cardinality(Known) > SweepAbove
  THEN [s \in Sessions |-> IF sessions[s] = "expired" THEN "none" ELSE sessions[s]]
  ELSE sessions

\* reset and createSession: two mutexes over state that nothing relates, so
\* the two critical sections are one step.  Session ids are random, hence new.
CreateSession(r, s) ==
  /\ pc[r] = "admit"
  /\ attempts' = [attempts EXCEPT ![Client(r)] = NoAttempt]
  /\ sessions[s] = "none"
  /\ sessions' = [SweptSessions EXCEPT ![s] = "live"]
  /\ Answer(r)
  /\ UNCHANGED <<on, secret, bound, disk, unsaved>>

\* Bound of the instance: with every id in use the login ends without a session.
NoSessionLeft(r) ==
  /\ pc[r] = "admit"
  /\ Known = Sessions
  /\ attempts' = [attempts EXCEPT ![Client(r)] = NoAttempt]
  /\ sessions' = SweptSessions
  /\ Answer(r)
  /\ UNCHANGED <<on, secret, bound, disk, unsaved>>

\* validSession of any request: an expired session is deleted when it is seen.
UseExpired(s) ==
  /\ on /\ sessions[s] = "expired"
  /\ sessions' = [sessions EXCEPT ![s] = "none"]
  /\ UNCHANGED <<on, secret, bound, attempts, pc, req, disk, unsaved>>

\* destroySession: a critical section to validate, another one to delete.
Logout(r, s) ==
  /\ on /\ pc[r] = "idle" /\ sessions[s] = "live"
  /\ Goto(r, "logout")
  /\ req' = [req EXCEPT ![r] = [Fresh EXCEPT !.session = s]]
  /\ UNCHANGED <<on, secret, bound, attempts, sessions, disk, unsaved>>

DeleteSession(r) ==
  /\ pc[r] = "logout"
  /\ sessions' = [sessions EXCEPT ![req[r].session] = "none"]
  /\ Answer(r)
  /\ UNCHANGED <<on, secret, bound, attempts, disk, unsaved>>

-----------------------------------------------------------------------------
(* Time, the command line, and the life of the daemon *)

Older(a) == [a EXCEPT !.age = IF a.fails > 0 /\ @ <= Window THEN @ + 1 ELSE @]

Tick ==
  /\ attempts' = [c \in Clients |-> Older(attempts[c])]
  /\ UNCHANGED <<on, secret, bound, sessions, pc, req, disk, unsaved>>

Expire(s) ==
  /\ sessions[s] = "live"
  /\ sessions' = [sessions EXCEPT ![s] = "expired"]
  /\ UNCHANGED <<on, secret, bound, attempts, pc, req, disk, unsaved>>

\* "skyfired totp reset", a process of its own.
ClearBinding ==
  /\ "reset" \in Faults
  /\ file # None
  /\ file' = None
  /\ unsaved' = on
  /\ req' = [r \in Requests |-> [req[r] EXCEPT !.fd = IF @ = "file" THEN "gone" ELSE @]]
  /\ UNCHANGED <<on, secret, bound, attempts, sessions, pc, tmp>>

Stopped ==
  /\ secret' = None
  /\ bound' = FALSE
  /\ attempts' = [c \in Clients |-> NoAttempt]
  /\ sessions' = [s \in Sessions |-> "none"]
  /\ pc' = [r \in Requests |-> "idle"]
  /\ req' = [r \in Requests |-> Fresh]

\* The process ends, whatever its goroutines were doing.
Crash ==
  /\ "crash" \in Faults
  /\ on /\ on' = FALSE
  /\ Stopped
  /\ unsaved' = FALSE
  /\ UNCHANGED disk

\* (mutant) A file that does not parse is taken for an unconfirmed binding.
LoadBindingPartial ==
  /\ ~on /\ on' = TRUE
  /\ file # None
  /\ secret' = file.secret
  /\ bound' = file.confirmed
  /\ UNCHANGED <<attempts, sessions, pc, req, disk, unsaved>>

\* main: the stored binding is loaded; a file that does not parse ends the
\* daemon, so there is no step for it.
LoadBinding ==
  /\ ~on /\ on' = TRUE
  /\ file \notin {None, Partial}
  /\ secret' = file.secret
  /\ bound' = file.confirmed
  /\ UNCHANGED <<attempts, sessions, pc, req, disk, unsaved>>

\* No stored binding: a new secret is saved before anybody can log in.
NewSecret(s) ==
  /\ ~on /\ on' = TRUE
  /\ file = None
  /\ file' = [secret |-> s, confirmed |-> FALSE]
  /\ tmp' = None
  /\ secret' = s /\ bound' = FALSE
  /\ UNCHANGED <<attempts, sessions, pc, req, unsaved>>

-----------------------------------------------------------------------------

Init ==
  /\ on = FALSE
  /\ secret = None /\ bound = FALSE
  /\ attempts = [c \in Clients |-> NoAttempt]
  /\ sessions = [s \in Sessions |-> "none"]
  /\ pc = [r \in Requests |-> "idle"]
  /\ req = [r \in Requests |-> Fresh]
  /\ file = None /\ tmp = None
  /\ unsaved = FALSE

\* What the goroutine of a request does by itself.
Serve(r) ==
  \/ Refuse(r) \/ ReadBinding(r) \/ AskForCode(r) \/ VerifyCode(r)
  \/ OpenTmp(r) \/ WriteTmp(r) \/ RenameTmp(r) \/ SaveFails(r)
  \/ NoSessionLeft(r) \/ DeleteSession(r)
  \/ \E s \in Sessions : CreateSession(r, s)

Next ==
  \/ \E r \in Requests : Serve(r)
  \/ \E r \in Requests, c \in Clients : Arrive(r, c)
  \/ \E r \in Requests, s \in Sessions : Logout(r, s)
  \/ \E s \in Sessions : UseExpired(s) \/ Expire(s)
  \/ Tick
  \/ ClearBinding \/ Crash \/ LoadBinding
  \/ \E s \in Secrets : NewSecret(s)

\* Time passes.  No request has to go on.
Fairness == WF_vars(Tick)

Spec == Init /\ [][Next]_vars /\ Fairness

-----------------------------------------------------------------------------
(* Properties *)

\* Requests of c that have been admitted and can still be recorded as failures.
Admitted(c) == {r \in Requests : pc[r] \in Deciding /\ Client(r) = c}

\* Admission and the recording of a failure are two critical sections: requests
\* admitted together all count afterwards.  However they interleave, a client
\* never has more failures on record than the limit and one per further request
\* that can be in flight.
FailuresBounded ==
  \A c \in Clients : attempts[c].fails < MaxFails + Cardinality(Requests)

\* A block is served in full: no sweep of the table, no entry of another client
\* and no refused attempt lifts it before its time; only a login of that client
\* that was admitted earlier and succeeds does.
BlockServed ==
  [][\A c \in Clients :
       Blocked(attempts[c]) /\ ~Blocked(attempts'[c]) =>
         \/ attempts[c].age + 1 = Block /\ attempts'[c].age = Block
         \/ \E r \in Requests : pc[r] = "admit" /\ pc'[r] = "idle" /\ Client(r) = c
         \/ ~on']_vars

\* Attempts made during a block do not prolong it: it ends, also for a client
\* that never stops trying.
BlockEnds == \A c \in Clients : Blocked(attempts[c]) ~> ~Blocked(attempts[c])

\* Saves of concurrent first logins share one temporary file and can rename or
\* truncate each other's.  Once they are through, the binding the daemon
\* enforces is the one on disk, complete, unless the disk failed or the file
\* was removed: the next start demands the second factor again.
BindingSaved ==
  (on /\ bound /\ ~unsaved /\ \A r \in Requests : pc[r] \notin Saving) =>
    file = Binding

\* A session is made for a login whose own code was found right, and under a bound
\* authenticator, whatever the login read of the binding and others did to it since:
\* one that read "not bound" passes neither without a code, when another has enrolled
\* meanwhile, nor with one without enrolling.
SessionsNeedFactor ==
  [][\A s \in Sessions :
       sessions[s] # "live" /\ sessions'[s] = "live" =>
         /\ bound
         /\ \E r \in Requests :
              pc[r] = "admit" /\ pc'[r] = "idle" /\ req[r].code = "right"]_vars

=============================================================================
