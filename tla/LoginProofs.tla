---------------------------- MODULE LoginProofs ----------------------------
(***************************************************************************)
(* Proofs about Login, for any number of requests, clients and sessions,   *)
(* any limits and any faults: the types, the bound on recorded failures,   *)
(* the block that is served, the session that needs a right code           *)
(* and the binding that is on disk once nobody saves it any more.          *)
(***************************************************************************)
EXTENDS Login, FiniteSetTheorems, TLAPS

USE LimiterAssumption, RequestAssumption, NoneAssumption

-----------------------------------------------------------------------------
(* Types *)

\* What the code relies on without saying it: the local variables a step reads
\* are set, a file is open while it is written, and a daemon that does not run
\* has neither requests nor sessions.
LocalsOK ==
  /\ \A r \in Requests :
       /\ pc[r] # "idle" => on
       /\ pc[r] \in Deciding \cup Saving \cup {"admit"} => req[r].client \in Clients
       /\ pc[r] = "logout" => req[r].session \in Sessions
       /\ pc[r] = "write" <=> req[r].fd # None
  /\ ~on => sessions = [s \in Sessions |-> "none"]

TypeInv == TypeOK /\ LocalsOK

Locals == [client : Clients \cup {None}, code : Codes \cup {None}, bound : BOOLEAN,
           fd : {"tmp", "file", "gone", None}, session : Sessions \cup {None}]

LEMMA TypeInit == Init => TypeInv
<1> SUFFICES ASSUME Init PROVE TypeInv
  OBVIOUS
<1>1. NoAttempt \in Attempt /\ Fresh \in Locals
  BY DEF NoAttempt, Attempt, Fresh, Locals
<1>2. TypeOK
  BY <1>1 DEF Init, TypeOK, Steps, Locals
<1>3. LocalsOK
  BY DEF Init, LocalsOK, Fresh, Deciding, Saving
<1> QED
  BY <1>2, <1>3 DEF TypeInv

\* Setting the two locals that checkTOTP decides by changes no others.
LEMMA SetLocals ==
  ASSUME TypeOK, NEW r \in Requests, NEW b \in BOOLEAN, NEW code \in Codes,
         req' = [req EXCEPT ![r].bound = b, ![r].code = code]
  PROVE  /\ req' \in [Requests -> Locals]
         /\ \A q \in Requests : /\ req'[q].client = req[q].client
                               /\ req'[q].fd = req[q].fd /\ req'[q].session = req[q].session
         /\ \A q \in Requests : q # r => req'[q] = req[q]
<1>1. req \in [Requests -> Locals]
  BY DEF TypeOK, Locals
<1> DEFINE l == [req[r] EXCEPT !.bound = b, !.code = code]
<1>2. req' = [req EXCEPT ![r] = l]
  BY <1>1
<1>3. req[r] \in Locals
  BY <1>1
<1>4. /\ l \in Locals
      /\ l.client = req[r].client /\ l.fd = req[r].fd /\ l.session = req[r].session
  BY <1>3 DEF Locals
<1> HIDE DEF l
<1> QED
  BY <1>1, <1>2, <1>4

LEMMA Limiter ==
  ASSUME TypeOK, NEW c \in Clients
  PROVE  /\ AfterAllowed(c) \in [Clients -> Attempt]
         /\ AfterFail(c) \in [Clients -> Attempt]
<1>1. NoAttempt \in Attempt
  BY DEF NoAttempt, Attempt
<1>2. attempts \in [Clients -> Attempt]
  BY DEF TypeOK
<1>3. Swept \in [Clients -> Attempt]
  BY <1>1, <1>2 DEF Swept
<1>4. \A k \in [Clients -> Attempt] : [fails |-> k[c].fails + 1, age |-> 0] \in Attempt
  BY DEF Attempt
<1> QED
  BY <1>1, <1>2, <1>3, <1>4 DEF AfterAllowed, AfterFail

LEMMA TypeStep == TypeInv /\ [Next]_vars => TypeInv'
<1> SUFFICES ASSUME TypeInv, [Next]_vars PROVE TypeInv'
  OBVIOUS
<1> USE DEF TypeInv, TypeOK, LocalsOK, Steps, Deciding, Saving, disk, Goto, Codes
<1>1. ASSUME NEW r \in Requests, NEW c \in Clients, Arrive(r, c) PROVE TypeInv'
  <2>1. CASE Blocked(attempts[c])
    BY <1>1, <2>1, Limiter DEF Arrive
  <2>2. CASE ~Blocked(attempts[c])
    <3> DEFINE l == [Fresh EXCEPT !.client = c]
    <3>1. l \in Locals /\ l.client = c /\ l.fd = None
      BY DEF Locals, Fresh
    <3>2. on /\ pc' = [pc EXCEPT ![r] = "password"] /\ req' = [req EXCEPT ![r] = l]
      BY <1>1, <2>2 DEF Arrive
    <3>3. attempts' \in [Clients -> Attempt]
      BY <1>1, Limiter DEF Arrive
    <3>4. UNCHANGED <<on, secret, bound, sessions, file, tmp, unsaved>>
      BY <1>1 DEF Arrive
    <3> HIDE DEF l
    <3> QED
      BY <3>1, <3>2, <3>3, <3>4 DEF Locals
  <2> QED
    BY <2>1, <2>2
<1>2. ASSUME NEW r \in Requests, Refuse(r) PROVE TypeInv'
  BY <1>2, Limiter DEF Refuse, Answer, Client, Fresh
<1>3. ASSUME NEW r \in Requests, ReadBinding(r) \/ AskForCode(r) \/ VerifyCode(r) PROVE TypeInv'
  <2>1. CASE ReadBinding(r)
    <3>1. PICK code \in Codes : req' = [req EXCEPT ![r].bound = bound, ![r].code = code]
      BY <2>1 DEF ReadBinding
    <3>2. /\ req' \in [Requests -> Locals]
          /\ \A q \in Requests : /\ req'[q].client = req[q].client
                                /\ req'[q].fd = req[q].fd /\ req'[q].session = req[q].session
      BY <3>1, SetLocals
    <3>3. /\ pc[r] = "password" /\ pc' = [pc EXCEPT ![r] = "code"]
          /\ UNCHANGED <<on, secret, bound, attempts, sessions, file, tmp, unsaved>>
      BY <2>1 DEF ReadBinding
    <3> QED
      BY <3>2, <3>3 DEF Locals
  <2>2. CASE AskForCode(r)
    BY <2>2 DEF AskForCode, Answer, Fresh
  <2>3. CASE VerifyCode(r)
    <3>1. req' = [req EXCEPT ![r].bound = FALSE, ![r].code = "right"]
      BY <2>3 DEF VerifyCode
    <3>2. /\ req' \in [Requests -> Locals]
          /\ \A q \in Requests : /\ req'[q].client = req[q].client
                                /\ req'[q].fd = req[q].fd /\ req'[q].session = req[q].session
      BY <3>1, SetLocals
    <3>3. /\ pc[r] = "code" /\ pc' = [pc EXCEPT ![r] = IF req[r].bound THEN "admit" ELSE "open"]
          /\ bound' \in BOOLEAN
          /\ UNCHANGED <<on, secret, attempts, sessions, file, tmp, unsaved>>
      BY <2>3 DEF VerifyCode
    <3> QED
      BY <3>2, <3>3 DEF Locals
  <2> QED
    BY <1>3, <2>1, <2>2, <2>3
<1>4. ASSUME NEW r \in Requests, OpenTmp(r) PROVE TypeInv'
  BY <1>4 DEF OpenTmp
<1>5. ASSUME NEW r \in Requests, WriteTmp(r) PROVE TypeInv'
  BY <1>5 DEF WriteTmp, Binding, Config
<1>6. ASSUME NEW r \in Requests, RenameTmp(r) PROVE TypeInv'
  <2>1. CASE tmp = None
    BY <1>6, <2>1 DEF RenameTmp
  <2>2. CASE tmp # None
    <3>1. \A q \in Requests :
            /\ Renamed(req[q].fd) \in {"tmp", "file", "gone", None}
            /\ Renamed(req[q].fd) = None <=> req[q].fd = None
      BY DEF Renamed
    <3>2. req' = [q \in Requests |-> [req[q] EXCEPT !.fd = Renamed(req[q].fd)]]
      BY <1>6, <2>2 DEF RenameTmp
    <3>3. /\ pc' = [pc EXCEPT ![r] = "admit"] /\ pc[r] = "rename"
          /\ file' = tmp /\ tmp' = None
          /\ UNCHANGED <<on, secret, bound, attempts, sessions, unsaved>>
      BY <1>6, <2>2 DEF RenameTmp
    <3>4. req' \in [Requests -> Locals]
      <4>1. \A q \in Requests : [req[q] EXCEPT !.fd = Renamed(req[q].fd)] \in Locals
        BY <3>1 DEF Locals
      <4> QED
        BY <3>2, <4>1
    <3>5. \A q \in Requests :
            /\ req'[q].client = req[q].client
            /\ req'[q].session = req[q].session
            /\ req'[q].fd # None <=> req[q].fd # None
      BY <3>1, <3>2
    <3> QED
      BY <3>3, <3>4, <3>5 DEF Locals
  <2> QED
    BY <2>1, <2>2
<1>7. ASSUME NEW r \in Requests, SaveFails(r) PROVE TypeInv'
  BY <1>7 DEF SaveFails
<1>8. ASSUME NEW r \in Requests, NEW s \in Sessions, CreateSession(r, s) PROVE TypeInv'
  <2>1. attempts' \in [Clients -> Attempt]
    <3>1. attempts \in [Clients -> Attempt] /\ NoAttempt \in Attempt
      BY DEF NoAttempt, Attempt
    <3>2. attempts' = [attempts EXCEPT ![Client(r)] = NoAttempt]
      BY <1>8 DEF CreateSession
    <3> QED
      BY <3>1, <3>2
  <2>2. sessions' \in [Sessions -> {"none", "live", "expired"}]
    BY <1>8 DEF CreateSession, SweptSessions
  <2>3. /\ req' = [req EXCEPT ![r] = Fresh] /\ Fresh \in Locals /\ Fresh.fd = None
        /\ pc[r] = "admit" /\ pc' = [pc EXCEPT ![r] = "idle"] /\ on
        /\ UNCHANGED <<on, secret, bound, file, tmp, unsaved>>
    BY <1>8 DEF CreateSession, Answer, Fresh, Locals
  <2> QED
    BY <2>1, <2>2, <2>3 DEF Locals
<1>9. ASSUME NEW r \in Requests, NoSessionLeft(r) PROVE TypeInv'
  <2>1. attempts' \in [Clients -> Attempt]
    <3>1. attempts \in [Clients -> Attempt] /\ NoAttempt \in Attempt
      BY DEF NoAttempt, Attempt
    <3>2. attempts' = [attempts EXCEPT ![Client(r)] = NoAttempt]
      BY <1>9 DEF NoSessionLeft
    <3> QED
      BY <3>1, <3>2
  <2>2. sessions' \in [Sessions -> {"none", "live", "expired"}]
    BY <1>9 DEF NoSessionLeft, SweptSessions
  <2>3. /\ req' = [req EXCEPT ![r] = Fresh] /\ Fresh \in Locals /\ Fresh.fd = None
        /\ pc[r] = "admit" /\ pc' = [pc EXCEPT ![r] = "idle"] /\ on
        /\ UNCHANGED <<on, secret, bound, file, tmp, unsaved>>
    BY <1>9 DEF NoSessionLeft, Answer, Fresh, Locals
  <2> QED
    BY <2>1, <2>2, <2>3 DEF Locals
<1>10. ASSUME NEW r \in Requests, DeleteSession(r) PROVE TypeInv'
  BY <1>10 DEF DeleteSession, Answer, Fresh
<1>11. ASSUME NEW r \in Requests, NEW s \in Sessions, Logout(r, s) PROVE TypeInv'
  BY <1>11 DEF Logout, Fresh
<1>12. ASSUME NEW s \in Sessions, UseExpired(s) \/ Expire(s) PROVE TypeInv'
  BY <1>12 DEF UseExpired, Expire
<1>13. CASE Tick
  BY <1>13 DEF Tick, Older, Attempt
<1>14. CASE ClearBinding
  BY <1>14 DEF ClearBinding
<1>15. CASE Crash
  <2>1. NoAttempt \in Attempt /\ Fresh \in Locals /\ Fresh.fd = None
    BY DEF NoAttempt, Attempt, Locals, Fresh
  <2> QED
    BY <1>15, <2>1 DEF Crash, Stopped, Locals
<1>16. CASE LoadBinding
  BY <1>16 DEF LoadBinding, Config
<1>17. ASSUME NEW s \in Secrets, NewSecret(s) PROVE TypeInv'
  BY <1>17 DEF NewSecret, Config
<1>18. CASE UNCHANGED vars
  BY <1>18 DEF vars
<1> QED
  BY <1>1, <1>2, <1>3, <1>4, <1>5, <1>6, <1>7, <1>8, <1>9, <1>10, <1>11, <1>12, <1>13, <1>14,
     <1>15, <1>16, <1>17, <1>18 DEF Next, Serve

\* The variables keep their types, for any number of requests and any faults.
THEOREM TypeCorrect == Spec => []TypeOK
<1>1. TypeInv => TypeOK
  BY DEF TypeInv
<1> QED
  BY <1>1, TypeInit, TypeStep, PTL DEF Spec

-----------------------------------------------------------------------------
(* Recorded failures *)

Total == MaxFails + Cardinality(Requests) - 1

\* Each admitted request may still be recorded, and only a client whose
\* failures are below the limit has one admitted.
CountInv ==
  \A c \in Clients :
    attempts[c].fails + Cardinality(Admitted(c)) <= Total

LEMMA AdmittedFinite ==
  ASSUME NEW c \in Clients
  PROVE  /\ IsFiniteSet(Admitted(c)) /\ Cardinality(Admitted(c)) \in Nat
         /\ Cardinality(Admitted(c)) <= Cardinality(Requests) /\ Cardinality(Requests) \in Nat
<1>1. Admitted(c) \subseteq Requests
  BY DEF Admitted
<1> QED
  BY <1>1, FS_Subset, FS_CardinalityType

\* Neither count grows.
LEMMA CountKept ==
  ASSUME TypeInv, TypeInv', CountInv, NEW c \in Clients,
         attempts'[c].fails <= attempts[c].fails, Admitted(c)' \subseteq Admitted(c)
  PROVE  attempts'[c].fails + Cardinality(Admitted(c)') <= Total
<1>1. Cardinality(Admitted(c)') \in Nat /\ Cardinality(Admitted(c)') <= Cardinality(Admitted(c))
  BY AdmittedFinite, FS_Subset, FS_CardinalityType
<1>2. attempts[c].fails \in Nat /\ attempts'[c].fails \in Nat
  BY DEF TypeInv, TypeOK, Attempt
<1> QED
  BY <1>1, <1>2, AdmittedFinite DEF CountInv, Total

LEMMA CountStep == TypeInv /\ CountInv /\ [Next]_vars => CountInv'
<1> SUFFICES ASSUME TypeInv, CountInv, [Next]_vars, NEW c \in Clients
             PROVE  attempts'[c].fails + Cardinality(Admitted(c)') <= Total
  BY DEF CountInv, Total
<1> DEFINE Kept == attempts'[c].fails <= attempts[c].fails /\ Admitted(c)' \subseteq Admitted(c)
<1>0. TypeInv' /\ attempts \in [Clients -> Attempt] /\ attempts[c].fails \in Nat
  BY TypeStep DEF TypeInv, TypeOK, Attempt
<1> SUFFICES ASSUME ~Kept
             PROVE  attempts'[c].fails + Cardinality(Admitted(c)') <= Total
  BY <1>0, CountKept
<1>1. ASSUME NEW r \in Requests, NEW d \in Clients, Arrive(r, d)
      PROVE  attempts'[c].fails + Cardinality(Admitted(c)') <= Total
  <2>1. attempts'[c].fails <= attempts[c].fails
    BY <1>0, <1>1 DEF Arrive, AfterAllowed, NoAttempt, Attempt
  <2>2. d = c /\ ~Blocked(attempts[c])
    <3>1. CASE Blocked(attempts[d])
      BY <1>1, <2>1, <3>1 DEF Arrive, Admitted, Client
    <3>2. CASE ~Blocked(attempts[d]) /\ d # c
      <4>1. \A q \in Requests : pc'[q] \in Deciding /\ Client(q)' = c =>
                                pc[q] \in Deciding /\ Client(q) = c
        BY <1>1, <3>2 DEF Arrive, Client, Goto, Fresh, TypeInv, TypeOK
      <4> QED
        BY <2>1, <4>1 DEF Admitted
    <3> QED
      BY <3>1, <3>2
  <2>3. attempts'[c].fails <= MaxFails - 1
    BY <1>0, <1>1, <2>2 DEF Arrive, AfterAllowed, NoAttempt, Stale, Blocked
  <2>4. Cardinality(Admitted(c)') \in Nat /\ Cardinality(Admitted(c)') <= Cardinality(Requests)
    <3>1. Admitted(c)' \subseteq Requests
      BY DEF Admitted
    <3> QED
      BY <3>1, FS_Subset, FS_CardinalityType
  <2>5. attempts'[c].fails \in Nat
    BY <1>0 DEF TypeInv, TypeOK, Attempt
  <2> QED
    BY <2>3, <2>4, <2>5, AdmittedFinite DEF Total
<1>2. ASSUME NEW r \in Requests, Refuse(r)
      PROVE  attempts'[c].fails + Cardinality(Admitted(c)') <= Total
  <2>1. Admitted(c)' \subseteq Admitted(c) \ {r}
    BY <1>2 DEF Refuse, Answer, Goto, Admitted, Client, Deciding, TypeInv, TypeOK
  <2>2. Client(r) = c
    BY <1>0, <1>2, <2>1 DEF Refuse, AfterFail, Swept, NoAttempt, Attempt
  <2>3. r \in Admitted(c)
    BY <1>2, <2>2 DEF Refuse, Admitted, Deciding
  <2>4. attempts'[c].fails <= attempts[c].fails + 1
    BY <1>0, <1>2, <2>2 DEF Refuse, AfterFail, Swept, NoAttempt, Attempt
  <2>5. /\ Cardinality(Admitted(c) \ {r}) = Cardinality(Admitted(c)) - 1
        /\ IsFiniteSet(Admitted(c) \ {r})
    BY <2>3, AdmittedFinite, FS_RemoveElement
  <2>6. Cardinality(Admitted(c)') \in Nat /\ Cardinality(Admitted(c)') <= Cardinality(Admitted(c)) - 1
    BY <2>1, <2>5, FS_Subset, FS_CardinalityType
  <2>7. attempts'[c].fails \in Nat
    BY <1>0 DEF TypeInv, TypeOK, Attempt
  <2> QED
    BY <1>0, <2>4, <2>6, <2>7, AdmittedFinite DEF CountInv, Total
<1>3. ASSUME NEW r \in Requests,
             \/ ReadBinding(r) \/ AskForCode(r) \/ VerifyCode(r) \/ OpenTmp(r) \/ WriteTmp(r)
             \/ RenameTmp(r) \/ SaveFails(r) \/ DeleteSession(r)
             \/ \E s \in Sessions : Logout(r, s)
      PROVE  FALSE
  <2>1. UNCHANGED attempts
    BY <1>3 DEF ReadBinding, AskForCode, VerifyCode, OpenTmp, WriteTmp, RenameTmp, SaveFails,
                DeleteSession, Logout
  <2>2. \A q \in Requests : q # r => pc'[q] = pc[q] /\ Client(q)' = Client(q)
    BY <1>3 DEF ReadBinding, AskForCode, VerifyCode, OpenTmp, WriteTmp, RenameTmp, SaveFails,
                DeleteSession, Logout, Goto, Answer, Client, TypeInv, TypeOK
  <2>3. pc'[r] \in Deciding => pc[r] \in Deciding /\ Client(r)' = Client(r)
    BY <1>3 DEF ReadBinding, AskForCode, VerifyCode, OpenTmp, WriteTmp, RenameTmp, SaveFails,
                DeleteSession, Logout, Goto, Answer, Client, TypeInv, TypeOK, Deciding
  <2>4. Admitted(c)' \subseteq Admitted(c)
    BY <2>2, <2>3 DEF Admitted
  <2> QED
    BY <1>0, <2>1, <2>4
<1>4. ASSUME NEW r \in Requests,
             NoSessionLeft(r) \/ \E s \in Sessions : CreateSession(r, s)
      PROVE  FALSE
  <2>1. attempts'[c].fails <= attempts[c].fails
    BY <1>0, <1>4 DEF NoSessionLeft, CreateSession, NoAttempt
  <2>2. Admitted(c)' \subseteq Admitted(c)
    BY <1>4 DEF NoSessionLeft, CreateSession, Answer, Goto, Admitted, Client, Deciding,
                TypeInv, TypeOK
  <2> QED
    BY <2>1, <2>2
<1>5. ASSUME Tick \/ Crash PROVE FALSE
  BY <1>0, <1>5 DEF Tick, Older, Crash, Stopped, NoAttempt, Admitted, Client, Deciding, Attempt
<1>6. ASSUME UNCHANGED <<attempts, pc>>, UNCHANGED req \/ ClearBinding PROVE FALSE
  <2>1. \A q \in Requests : Client(q)' = Client(q)
    BY <1>6 DEF ClearBinding, Client, TypeInv, TypeOK
  <2> QED
    BY <1>0, <1>6, <2>1 DEF Admitted
<1> QED
  BY <1>1, <1>2, <1>3, <1>4, <1>5, <1>6
     DEF Next, Serve, ClearBinding, LoadBinding, NewSecret, UseExpired, Expire, vars

\* However requests interleave, a client never has more failures on record than
\* the limit and one per further request in flight.
THEOREM FailuresStayBounded == Spec => []FailuresBounded
<1>1. Init => CountInv
  <2> SUFFICES ASSUME Init PROVE CountInv
    OBVIOUS
  <2>1. \A c \in Clients : Admitted(c) = {} /\ attempts[c].fails = 0
    BY DEF Init, Admitted, Deciding, NoAttempt
  <2>2. Cardinality(Requests) \in Nat
    BY FS_CardinalityType
  <2>3. Cardinality({}) = 0
    BY FS_EmptySet
  <2>4. ASSUME NEW c \in Clients
        PROVE  attempts[c].fails + Cardinality(Admitted(c)) <= Total
    <3>1. Cardinality(Admitted(c)) = 0 /\ attempts[c].fails = 0
      BY <2>1, <2>3
    <3> QED
      BY <2>2, <3>1 DEF Total
  <2> QED
    BY <2>4 DEF CountInv, Total
<1>2. TypeInv /\ CountInv => FailuresBounded
  <2> SUFFICES ASSUME TypeInv, CountInv, NEW c \in Clients
               PROVE  attempts[c].fails < MaxFails + Cardinality(Requests)
    BY DEF FailuresBounded
  <2>1. attempts[c].fails \in Nat
    BY DEF TypeInv, TypeOK, Attempt
  <2> QED
    BY <2>1, AdmittedFinite DEF CountInv, Total
<1> QED
  BY <1>1, <1>2, TypeInit, TypeStep, CountStep, PTL DEF Spec

\* No sweep, no other client and no refused attempt lifts a block before its time.
THEOREM BlockIsServed == Spec => BlockServed
<1>1. ASSUME TypeInv, Next, NEW c \in Clients, Blocked(attempts[c]), ~Blocked(attempts'[c])
      PROVE  \/ attempts[c].age + 1 = Block /\ attempts'[c].age = Block
             \/ \E r \in Requests : pc[r] = "admit" /\ pc'[r] = "idle" /\ Client(r) = c
             \/ ~on'
  <2>0. attempts \in [Clients -> Attempt] /\ attempts[c] \in Attempt
    BY <1>1 DEF TypeInv, TypeOK
  <2>1. ASSUME NEW r \in Requests, NEW d \in Clients, Arrive(r, d) PROVE FALSE
    BY <1>1, <2>0, <2>1 DEF Arrive, AfterAllowed, Blocked
  <2>2. ASSUME NEW r \in Requests, Refuse(r) PROVE FALSE
    BY <1>1, <2>0, <2>2 DEF Refuse, AfterFail, Swept, Blocked, Stale, Attempt
  <2>3. ASSUME NEW r \in Requests, NoSessionLeft(r) \/ \E s \in Sessions : CreateSession(r, s)
        PROVE  pc[r] = "admit" /\ pc'[r] = "idle" /\ Client(r) = c
    BY <1>1, <2>0, <2>3 DEF NoSessionLeft, CreateSession, Answer, Goto, TypeInv, TypeOK
  <2>4. ASSUME Tick PROVE attempts[c].age + 1 = Block /\ attempts'[c].age = Block
    BY <1>1, <2>0, <2>4 DEF Tick, Older, Blocked, Stale, Attempt
  <2>5. ASSUME Crash PROVE ~on'
    BY <2>5 DEF Crash
  <2>6. ASSUME UNCHANGED attempts PROVE FALSE
    BY <1>1, <2>6
  <2> QED
    BY <1>1, <2>1, <2>2, <2>3, <2>4, <2>5, <2>6
       DEF Next, Serve, ReadBinding, AskForCode, VerifyCode, OpenTmp, WriteTmp, RenameTmp,
           SaveFails, DeleteSession, Logout, UseExpired, Expire, ClearBinding, LoadBinding,
           NewSecret
<1>2. TypeInv /\ [Next]_vars =>
        [\A c \in Clients :
           Blocked(attempts[c]) /\ ~Blocked(attempts'[c]) =>
             \/ attempts[c].age + 1 = Block /\ attempts'[c].age = Block
             \/ \E r \in Requests : pc[r] = "admit" /\ pc'[r] = "idle" /\ Client(r) = c
             \/ ~on']_vars
  BY <1>1
<1> QED
  BY <1>2, TypeInit, TypeStep, PTL DEF Spec, BlockServed

-----------------------------------------------------------------------------
(* Sessions *)

\* A login that goes on from its code has had it verified, and that under a bound
\* authenticator; one that read the binding found it bound only if it is.
FactorInv ==
  \A r \in Requests :
    /\ pc[r] = "code" /\ req[r].bound => bound
    /\ pc[r] \in Saving \cup {"admit"} => bound /\ req[r].code = "right"

LEMMA FactorStep == TypeInv /\ FactorInv /\ [Next]_vars => FactorInv'
<1> SUFFICES ASSUME TypeInv, FactorInv, [Next]_vars PROVE FactorInv'
  OBVIOUS
<1>0. pc \in [Requests -> Steps] /\ req \in [Requests -> Locals]
  BY DEF TypeInv, TypeOK, Locals
<1> USE <1>0 DEF Goto, Answer, Saving
<1>1. ASSUME NEW r \in Requests, UNCHANGED bound,
             \A q \in Requests : q # r =>
               /\ pc'[q] = pc[q]
               /\ req'[q].bound = req[q].bound /\ req'[q].code = req[q].code,
             \/ pc'[r] \notin {"code", "admit"} \cup Saving
             \/ /\ pc[r] \in Saving /\ pc'[r] \in Saving \cup {"admit"}
                /\ req'[r].code = req[r].code
             \/ /\ pc'[r] = pc[r]
                /\ req'[r].bound = req[r].bound /\ req'[r].code = req[r].code
      PROVE  FactorInv'
  BY <1>1 DEF FactorInv
<1>2. ASSUME NEW r \in Requests,
             \/ Refuse(r) \/ AskForCode(r) \/ DeleteSession(r)
             \/ \E c \in Clients : Arrive(r, c)
             \/ \E s \in Sessions : Logout(r, s)
      PROVE  FactorInv'
  <2>1. CASE DeleteSession(r)
    BY <1>1, <2>1 DEF DeleteSession
  <2>2. CASE ~DeleteSession(r)
    BY <1>1, <1>2, <2>2 DEF Refuse, AskForCode, Arrive, Logout
  <2> QED
    BY <2>1, <2>2
<1>3. ASSUME NEW r \in Requests, ReadBinding(r) PROVE FactorInv'
  BY <1>3 DEF ReadBinding, FactorInv, Locals
<1>4. ASSUME NEW r \in Requests, VerifyCode(r) PROVE FactorInv'
  BY <1>4 DEF VerifyCode, FactorInv
<1>5. ASSUME NEW r \in Requests, OpenTmp(r) \/ WriteTmp(r) \/ RenameTmp(r) \/ SaveFails(r)
      PROVE  FactorInv'
  <2>1. /\ UNCHANGED bound
        /\ pc[r] \in Saving /\ pc'[r] \in Saving \cup {"admit"}
        /\ \A q \in Requests : q # r => pc'[q] = pc[q]
    BY <1>5 DEF OpenTmp, WriteTmp, RenameTmp, SaveFails
  <2>2. \A q \in Requests : req'[q].bound = req[q].bound /\ req'[q].code = req[q].code
    BY <1>5 DEF OpenTmp, WriteTmp, RenameTmp, SaveFails, Locals
  <2> QED
    BY <1>1, <2>1, <2>2
<1>6. ASSUME NEW r \in Requests, NoSessionLeft(r) \/ \E s \in Sessions : CreateSession(r, s)
      PROVE  FactorInv'
  BY <1>6 DEF NoSessionLeft, CreateSession, FactorInv
<1>7. ASSUME NEW s \in Sessions, UseExpired(s) \/ Expire(s) PROVE FactorInv'
  BY <1>7 DEF UseExpired, Expire, FactorInv, TypeInv, TypeOK
<1>8. CASE Crash
  BY <1>8 DEF Crash, Stopped, FactorInv, Fresh
<1>9. CASE LoadBinding \/ \E s \in Secrets : NewSecret(s)
  <2>1. ~on /\ UNCHANGED <<pc, req, sessions>>
    BY <1>9 DEF LoadBinding, NewSecret
  <2>2. \A r \in Requests : pc[r] = "idle"
    BY <2>1 DEF TypeInv, LocalsOK
  <2> QED
    BY <2>1, <2>2 DEF FactorInv
<1>10. CASE ClearBinding
  BY <1>10 DEF ClearBinding, FactorInv, Locals
<1>11. CASE UNCHANGED <<bound, pc, req>>
  BY <1>11 DEF FactorInv
<1> QED
  BY <1>2, <1>3, <1>4, <1>5, <1>6, <1>7, <1>8, <1>9, <1>10, <1>11 DEF Next, Serve, Tick, vars

\* A session is made only for a login whose own code was verified and under a bound
\* authenticator, whatever it read of the binding before (checkTOTP).
THEOREM FactorNeeded == Spec => SessionsNeedFactor
<1>1. Init => FactorInv
  BY DEF Init, FactorInv, Saving
<1>2. ASSUME TypeInv, FactorInv, Next, NEW s \in Sessions,
             sessions[s] # "live", sessions'[s] = "live"
      PROVE  /\ bound
             /\ \E r \in Requests :
                  pc[r] = "admit" /\ pc'[r] = "idle" /\ req[r].code = "right"
  <2>0. s \in Sessions /\ sessions \in [Sessions -> {"none", "live", "expired"}]
    BY <1>2 DEF TypeInv, TypeOK
  <2>a. ASSUME NEW r \in Requests
        PROVE  /\ ~ (Refuse(r) \/ ReadBinding(r) \/ AskForCode(r) \/ VerifyCode(r))
               /\ ~ (OpenTmp(r) \/ WriteTmp(r) \/ RenameTmp(r) \/ SaveFails(r))
               /\ ~ NoSessionLeft(r)
    <3>1. ~ (Refuse(r) \/ ReadBinding(r) \/ AskForCode(r) \/ VerifyCode(r))
      BY <1>2 DEF Refuse, ReadBinding, AskForCode, VerifyCode
    <3>2. ~ (OpenTmp(r) \/ WriteTmp(r) \/ RenameTmp(r) \/ SaveFails(r))
      BY <1>2 DEF OpenTmp, WriteTmp, RenameTmp, SaveFails
    <3>3. ~ NoSessionLeft(r)
      BY <1>2, <2>0 DEF NoSessionLeft, SweptSessions
    <3> QED
      BY <3>1, <3>2, <3>3
  <2>b. ~ \E r \in Requests : DeleteSession(r)
    BY <1>2, <2>0 DEF DeleteSession
  <2>c. /\ ~ \E r \in Requests, c \in Clients : Arrive(r, c)
        /\ ~ \E r \in Requests, t \in Sessions : Logout(r, t)
    BY <1>2 DEF Arrive, Logout
  <2>d. ~ \E t \in Sessions : UseExpired(t) \/ Expire(t)
    BY <1>2, <2>0 DEF UseExpired, Expire
  <2>e. ~ (Tick \/ ClearBinding \/ Crash \/ LoadBinding) /\ ~ \E t \in Secrets : NewSecret(t)
    BY <1>2, <2>0 DEF Tick, ClearBinding, Crash, Stopped, LoadBinding, NewSecret
  <2>1. PICK r \in Requests, t \in Sessions : CreateSession(r, t)
    BY <1>2, <2>a, <2>b, <2>c, <2>d, <2>e DEF Next, Serve
  <2>2. pc \in [Requests -> Steps] /\ pc[r] = "admit" /\ pc' = [pc EXCEPT ![r] = "idle"]
    BY <1>2, <2>1 DEF CreateSession, Answer, Goto, TypeInv, TypeOK
  <2> QED
    BY <1>2, <2>2 DEF FactorInv
<1>3. TypeInv /\ FactorInv /\ [Next]_vars =>
        [\A s \in Sessions :
           sessions[s] # "live" /\ sessions'[s] = "live" =>
             /\ bound
             /\ \E r \in Requests :
                  pc[r] = "admit" /\ pc'[r] = "idle" /\ req[r].code = "right"]_vars
  BY <1>2
<1> QED
  BY <1>1, <1>3, TypeInit, TypeStep, FactorStep, PTL DEF Spec, SessionsNeedFactor

-----------------------------------------------------------------------------
(* The binding on disk *)

Has(r, fds)  == pc[r] = "write" /\ req[r].fd \in fds

\* A binding that is enforced is on disk or on its way there: some login has
\* yet to open the temporary file, or has a named file open for writing, or has
\* yet to rename a complete one.  And what a login will rename is complete,
\* unless the login that truncated it still has it open.
SaveInv ==
  on /\ ~unsaved =>
    /\ bound =>
         \/ file = Binding
         \/ \E r \in Requests : pc[r] = "open" \/ Has(r, {"tmp", "file"})
         \/ tmp = Binding /\ \E r \in Requests : pc[r] = "rename"
    /\ (\E r \in Requests : pc[r] \in {"write", "rename"}) =>
         \/ tmp \in {None, Binding}
         \/ \E w \in Requests : Has(w, {"tmp"})

LEMMA SaveStep == TypeInv /\ SaveInv /\ [Next]_vars => SaveInv'
<1> SUFFICES ASSUME TypeInv, SaveInv, [Next]_vars PROVE SaveInv'
  OBVIOUS
<1> SUFFICES ASSUME on', ~unsaved' PROVE SaveInv'
  BY DEF SaveInv
<1>0. pc \in [Requests -> Steps] /\ req \in [Requests -> Locals]
  BY DEF TypeInv, TypeOK, Locals
<1> USE <1>0 DEF Goto, Answer, disk
\* No other process, no save under way.
<1>1. ASSUME NEW r \in Requests, UNCHANGED <<on, secret, bound, disk, unsaved>>,
             pc[r] \notin Saving, pc'[r] \notin Saving,
             \A q \in Requests : q # r => pc'[q] = pc[q] /\ req'[q] = req[q]
      PROVE  SaveInv'
  BY <1>1 DEF SaveInv, Has, Binding, Saving
<1>2. ASSUME NEW r \in Requests,
             \/ Refuse(r) \/ ReadBinding(r) \/ AskForCode(r) \/ DeleteSession(r)
             \/ NoSessionLeft(r)
             \/ \E s \in Sessions : CreateSession(r, s) \/ Logout(r, s)
      PROVE  SaveInv'
  BY <1>1, <1>2 DEF Refuse, ReadBinding, AskForCode, DeleteSession, NoSessionLeft, CreateSession,
                    Logout, Saving
<1>3. ASSUME NEW r \in Requests, NEW c \in Clients, Arrive(r, c) PROVE SaveInv'
  <2>1. /\ pc[r] = "idle" /\ pc'[r] \in {"idle", "password"}
        /\ \A q \in Requests : q # r => pc'[q] = pc[q] /\ req'[q] = req[q]
        /\ UNCHANGED <<on, secret, bound, disk, unsaved>>
    BY <1>3 DEF Arrive
  <2> QED
    BY <1>1, <2>1 DEF Saving
<1>4. ASSUME NEW r \in Requests, VerifyCode(r) PROVE SaveInv'
  <2>1. CASE req[r].bound
    BY <1>1, <1>4, <2>1 DEF VerifyCode, Saving
  <2>2. CASE ~req[r].bound
    <3>1. /\ pc[r] = "code" /\ pc' = [pc EXCEPT ![r] = "open"]
          /\ UNCHANGED <<on, secret, file, tmp, unsaved>>
      BY <1>4, <2>2 DEF VerifyCode
    <3>2. Binding' = Binding
      BY <3>1 DEF Binding
    <3>3. \A q \in Requests : req'[q].fd = req[q].fd
      <4>1. req' = [req EXCEPT ![r].bound = FALSE, ![r].code = "right"]
        BY <1>4 DEF VerifyCode
      <4> QED
        BY <4>1, SetLocals DEF TypeInv, Codes
    <3> HIDE DEF Goto
    <3>4. \A q \in Requests : Has(q, {"tmp"}) => Has(q, {"tmp"})'
      BY <3>1, <3>3 DEF Has
    <3> QED
      BY <3>1, <3>2, <3>4 DEF SaveInv
  <2> QED
    BY <2>1, <2>2
<1>5. ASSUME NEW r \in Requests, OpenTmp(r) PROVE SaveInv'
  <2>1. Has(r, {"tmp"})' /\ Has(r, {"tmp", "file"})'
    BY <1>5 DEF OpenTmp, Has, Locals
  <2> QED
    BY <2>1 DEF SaveInv
<1>6. ASSUME NEW r \in Requests, WriteTmp(r) PROVE SaveInv'
  <2>1. /\ pc[r] = "write" /\ pc' = [pc EXCEPT ![r] = "rename"]
        /\ \A q \in Requests : q # r => req'[q] = req[q]
        /\ UNCHANGED <<on, secret, bound, unsaved>>
    BY <1>6 DEF WriteTmp
  <2>2. Binding' = Binding
    BY <2>1 DEF Binding
  <2>3. CASE req[r].fd = "tmp"
    BY <1>6, <2>1, <2>2, <2>3 DEF WriteTmp, SaveInv
  <2>4. CASE req[r].fd = "file"
    BY <1>6, <2>1, <2>2, <2>4 DEF WriteTmp, SaveInv, Has
  <2>5. CASE req[r].fd \notin {"tmp", "file"}
    BY <1>6, <2>1, <2>2, <2>5 DEF WriteTmp, SaveInv, Has
  <2> QED
    BY <2>3, <2>4, <2>5
<1>7. ASSUME NEW r \in Requests, RenameTmp(r) PROVE SaveInv'
  <2>1. /\ pc[r] = "rename" /\ pc' = [pc EXCEPT ![r] = "admit"] /\ tmp' = None
        /\ UNCHANGED <<on, secret, bound, unsaved>>
    BY <1>7 DEF RenameTmp
  <2>2. Binding' = Binding
    BY <2>1 DEF Binding
  <2>3. CASE tmp = None
    <3>1. UNCHANGED <<file, req>>
      BY <1>7, <2>3 DEF RenameTmp
    <3>2. tmp # Binding
      <4>1. secret \in Secrets
        BY <2>1 DEF TypeInv, TypeOK, LocalsOK
      <4>2. Binding \in [secret : Secrets, confirmed : BOOLEAN]
        BY <4>1 DEF Binding
      <4> QED
        BY <2>3, <4>2, NoneAssumption
    <3> QED
      BY <2>1, <2>2, <3>1, <3>2 DEF SaveInv, Has
  <2>4. CASE tmp = Binding /\ tmp # None
    BY <1>7, <2>1, <2>2, <2>4 DEF RenameTmp, SaveInv
  <2>5. CASE tmp \notin {None, Binding}
    <3>1. PICK w \in Requests : Has(w, {"tmp"})
      BY <2>1, <2>5 DEF SaveInv
    <3>2. Has(w, {"tmp", "file"})'
      BY <1>7, <2>1, <2>5, <3>1 DEF RenameTmp, Renamed, Has, Locals
    <3> QED
      BY <2>1, <3>2 DEF SaveInv
  <2> QED
    BY <2>3, <2>4, <2>5
<1>8. ASSUME NEW r \in Requests, SaveFails(r) PROVE SaveInv'
  BY <1>8 DEF SaveFails
<1>9. CASE ClearBinding \/ Crash
  <2>1. CASE Crash
    BY <2>1, Zenon DEF Crash
  <2>2. CASE ClearBinding
    BY <2>2, Zenon DEF ClearBinding
  <2> QED
    BY <1>9, <2>1, <2>2
<1>10. CASE LoadBinding
  <2>1. \A r \in Requests : pc'[r] = "idle"
    BY <1>10 DEF LoadBinding, TypeInv, LocalsOK
  <2>2. bound' => file' = Binding'
    BY <1>10 DEF LoadBinding, Binding, Config, TypeInv, TypeOK
  <2> QED
    BY <2>1, <2>2 DEF SaveInv
<1>11. ASSUME NEW s \in Secrets, NewSecret(s) PROVE SaveInv'
  <2>1. ~bound' /\ \A r \in Requests : pc'[r] = "idle"
    BY <1>11 DEF NewSecret, TypeInv, LocalsOK
  <2> QED
    BY <2>1 DEF SaveInv
<1>12. CASE UNCHANGED <<on, secret, bound, pc, req, file, tmp, unsaved>>
  BY <1>12 DEF SaveInv, Has, Binding
<1> QED
  BY <1>2, <1>3, <1>4, <1>5, <1>6, <1>7, <1>8, <1>9, <1>10, <1>11, <1>12
     DEF Next, Serve, Tick, UseExpired, Expire, vars

\* Once the saves are through, the binding the daemon enforces is on disk.
THEOREM BindingIsSaved == Spec => []BindingSaved
<1>1. Init => SaveInv
  BY DEF Init, SaveInv
<1>2. SaveInv => BindingSaved
  BY DEF SaveInv, BindingSaved, Has, Saving
<1> QED
  BY <1>1, <1>2, TypeInit, TypeStep, SaveStep, PTL DEF Spec
=============================================================================
