-------------------------- MODULE ClientAppProofs --------------------------
(***************************************************************************)
(* ClientApp: types, a disconnect that holds, and a supervisor for every   *)
(* tunnel that is wanted, for any number of requests that overlap and of   *)
(* supervisors.  The last two hold until a Connect crosses a Disconnect.   *)
(***************************************************************************)
EXTENDS ClientApp, TLAPS

Types ==
  /\ TypeOK
  /\ pc \in [Threads -> UserLabels \cup MonitorLabels]

\* From Connect to its last step the tunnel is wanted, from Disconnect on not.
Intents ==
  \A u \in Users :
    /\ pc[u] \in Raising => desired
    /\ pc[u] \in Lowering => ~desired

\* An unwanted tunnel that is up has somebody who is about to lower it, and a
\* prober somebody who stops it.
Undone ==
  /\ ~desired /\ up =>
       \/ \E u \in Users : pc[u] \in Lowering
       \/ \E m \in Monitors : pc[m] \in {"report", "confirm", "undo"}
  /\ ~desired /\ probing => \E u \in Users : pc[u] \in {"stopMonitor", "stopProbe"}

\* A wanted tunnel has a supervisor that does not give up, or a Connect that is
\* about to arm one.
Watched ==
  desired /\ auto =>
    \/ current # NoMonitor /\ pc[current] \notin {"none", "undo", "reportUndone"}
    \/ \E u \in Users : pc[u] \in BringUpLabels \cup {"watch"}

Promises == Intents /\ Undone /\ Watched

Inv == Types /\ (~crossed => Promises)

-----------------------------------------------------------------------------

LEMMA InitHolds == Init => Inv
<1> SUFFICES ASSUME Init PROVE Inv
  OBVIOUS
<1>1. Types
  BY ClientAssumption DEF Init, Types, TypeOK, Threads, UserLabels, MonitorLabels, Statuses
<1>2. Intents
  BY DEF Init, Intents, Raising, Lowering, BringUpLabels, Threads
<1> QED
  BY <1>1, <1>2 DEF Inv, Promises, Init, Undone, Watched

\* What a step leaves behind, by the goroutine that takes it.
LEMMA TypesStep == Types /\ [Next]_vars => Types'
<1> SUFFICES ASSUME Types, [Next]_vars PROVE Types'
  OBVIOUS
<1> USE ClientAssumption DEF Types, TypeOK, Threads, UserLabels, MonitorLabels, BringUpLabels,
        Statuses, Goto, Crossing
<1>1. ASSUME NEW t \in Threads, BringUp(t) PROVE Types'
  <2>1. CASE Announce(t)
    BY <2>1 DEF Announce
  <2>2. CASE Load(t)
    BY <2>2 DEF Load
  <2>3. CASE Raise(t)
    BY <2>3 DEF Raise
  <2>4. CASE Report(t)
    BY <2>4 DEF Report, After
  <2>5. CASE Failed(t)
    BY <2>5 DEF Failed, After
  <2> QED
    BY <1>1, <2>1, <2>2, <2>3, <2>4, <2>5 DEF BringUp
<1>2. ASSUME NEW u \in Users, Request(u) PROVE Types'
  BY <1>2 DEF Request
<1>3. ASSUME NEW u \in Users, UserStep(u) PROVE Types'
  <2>1. CASE Toggle(u)
    BY <2>1 DEF Toggle
  <2>2. CASE Connect(u)
    BY <2>2 DEF Connect
  <2>3. CASE Watch(u)
    BY <2>3 DEF Watch
  <2>4. CASE StartProbe(u)
    BY <2>4 DEF StartProbe
  <2>5. CASE Disconnect(u)
    BY <2>5 DEF Disconnect
  <2>6. CASE StopMonitor(u)
    BY <2>6 DEF StopMonitor
  <2>7. CASE StopProbe(u)
    BY <2>7 DEF StopProbe
  <2>8. CASE Lower(u)
    BY <2>8 DEF Lower
  <2>9. CASE ReportDown(u)
    BY <2>9 DEF ReportDown
  <2> QED
    BY <1>1, <1>3, <2>1, <2>2, <2>3, <2>4, <2>5, <2>6, <2>7, <2>8, <2>9 DEF UserStep
<1>4. ASSUME NEW m \in Monitors, MonitorStep(m) PROVE Types'
  <2>1. CASE Leave(m)
    BY <2>1 DEF Leave
  <2>2. CASE Tick(m)
    BY <2>2 DEF Tick
  <2>3. CASE Inspect(m)
    BY <2>3 DEF Inspect
  <2>4. CASE Retry(m)
    BY <2>4 DEF Retry
  <2>5. CASE Drop(m)
    BY <2>5 DEF Drop
  <2>6. CASE Wake(m)
    BY <2>6 DEF Wake
  <2>7. CASE Confirm(m)
    BY <2>7 DEF Confirm
  <2>8. CASE Undo(m)
    BY <2>8 DEF Undo
  <2>9. CASE ReportUndone(m)
    BY <2>9 DEF ReportUndone
  <2> QED
    BY <1>1, <1>4, <2>1, <2>2, <2>3, <2>4, <2>5, <2>6, <2>7, <2>8, <2>9 DEF MonitorStep
<1>5. CASE NetworkChanges
  BY <1>5 DEF NetworkChanges
<1>6. CASE UNCHANGED vars
  BY <1>6 DEF vars
<1> QED
  BY <1>2, <1>3, <1>4, <1>5, <1>6 DEF Next

\* Every reachable state of the client is well typed.
THEOREM TypeCorrect == Spec => []TypeOK
<1>1. Init => Types
  BY InitHolds DEF Inv
<1>2. Types => TypeOK
  BY DEF Types
<1> QED
  BY <1>1, <1>2, TypesStep, PTL DEF Spec

\* The steps that leave crossed alone.
LEMMA PromisesStep ==
  ASSUME Types, Types', Promises, [Next]_vars,
         \A u \in Users : ~Connect(u) /\ ~Disconnect(u)
  PROVE  Promises'
<1> USE ClientAssumption DEF Types, TypeOK, Promises, Intents, Undone, Watched, Threads,
        UserLabels, MonitorLabels, BringUpLabels, Raising, Lowering, Goto
<1>1. ASSUME NEW t \in Threads, BringUp(t) PROVE Promises'
  <2>1. CASE Announce(t)
    BY <2>1 DEF Announce
  <2>2. CASE Load(t)
    BY <2>2 DEF Load
  <2>3. CASE Raise(t)
    BY <2>3 DEF Raise
  <2>4. CASE Report(t)
    BY <2>4 DEF Report, After
  <2>5. CASE Failed(t)
    BY <2>5 DEF Failed, After
  <2> QED
    BY <1>1, <2>1, <2>2, <2>3, <2>4, <2>5 DEF BringUp
<1>2. ASSUME NEW u \in Users, Request(u) PROVE Promises'
  BY <1>2 DEF Request
<1>3. ASSUME NEW u \in Users, UserStep(u) PROVE Promises'
  <2>1. CASE Toggle(u)
    BY <2>1 DEF Toggle
  <2>3. CASE Watch(u)
    BY <2>3 DEF Watch
  <2>4. CASE StartProbe(u)
    BY <2>4 DEF StartProbe
  <2>6. CASE StopMonitor(u)
    BY <2>6 DEF StopMonitor
  <2>7. CASE StopProbe(u)
    BY <2>7 DEF StopProbe
  <2>8. CASE Lower(u)
    BY <2>8 DEF Lower
  <2>9. CASE ReportDown(u)
    BY <2>9 DEF ReportDown
  <2> QED
    BY <1>1, <1>3, <2>1, <2>3, <2>4, <2>6, <2>7, <2>8, <2>9 DEF UserStep
<1>4. ASSUME NEW m \in Monitors, MonitorStep(m) PROVE Promises'
  <2>1. CASE Leave(m)
    BY <2>1 DEF Leave, Cancelled
  <2>2. CASE Tick(m)
    BY <2>2 DEF Tick
  <2>3. CASE Inspect(m)
    BY <2>3 DEF Inspect
  <2>4. CASE Retry(m)
    BY <2>4 DEF Retry
  <2>5. CASE Drop(m)
    BY <2>5 DEF Drop
  <2>6. CASE Wake(m)
    BY <2>6 DEF Wake
  <2>7. CASE Confirm(m)
    BY <2>7 DEF Confirm
  <2>8. CASE Undo(m)
    BY <2>8 DEF Undo
  <2>9. CASE ReportUndone(m)
    BY <2>9 DEF ReportUndone
  <2> QED
    BY <1>1, <1>4, <2>1, <2>2, <2>3, <2>4, <2>5, <2>6, <2>7, <2>8, <2>9 DEF MonitorStep
<1>5. CASE NetworkChanges
  BY <1>5 DEF NetworkChanges
<1>6. CASE UNCHANGED vars
  BY <1>6 DEF vars
<1> QED
  BY <1>2, <1>3, <1>4, <1>5, <1>6 DEF Next

\* A Connect that meets no Disconnect, and one that meets neither kind.
LEMMA ConnectStep ==
  ASSUME Types, Types', ~crossed => Promises, NEW u \in Users, Connect(u), ~crossed'
  PROVE  Promises'
<1> USE ClientAssumption DEF Types, TypeOK, Threads, Connect, Goto
<1>1. \A v \in Users : pc[v] \notin Lowering
  BY DEF Crossing
<1>2. desired' /\ pc'[u] = "announce" /\ \A v \in Users \ {u} : pc'[v] = pc[v]
  OBVIOUS
<1>3. Intents'
  BY <1>1, <1>2 DEF Intents, Raising, Lowering, BringUpLabels
<1>4. Undone' /\ Watched'
  BY <1>2 DEF Undone, Watched, BringUpLabels
<1> QED
  BY <1>3, <1>4 DEF Promises

LEMMA DisconnectStep ==
  ASSUME Types, Types', ~crossed => Promises, NEW u \in Users, Disconnect(u), ~crossed'
  PROVE  Promises'
<1> USE ClientAssumption DEF Types, TypeOK, Threads, Disconnect, Goto
<1>1. \A v \in Users : pc[v] \notin Raising
  BY DEF Crossing
<1>2. ~desired' /\ pc'[u] = "stopMonitor" /\ \A v \in Users \ {u} : pc'[v] = pc[v]
  OBVIOUS
<1>3. Intents'
  BY <1>1, <1>2 DEF Intents, Raising, Lowering, BringUpLabels
<1>4. Undone' /\ Watched'
  BY <1>2 DEF Undone, Watched, Lowering
<1> QED
  BY <1>3, <1>4 DEF Promises

\* Only Connect and Disconnect write the history.
LEMMA CrossedStep ==
  ASSUME [Next]_vars, \A u \in Users : ~Connect(u) /\ ~Disconnect(u)
  PROVE  crossed' = crossed
BY DEF Next, vars, Request, UserStep, BringUp, Announce, Load, Raise, Report, Failed, Toggle,
       Watch, StartProbe, StopMonitor, StopProbe, Lower, ReportDown, MonitorStep, Leave, Tick,
       Inspect, Retry, Drop, Wake, Confirm, Undo, ReportUndone, NetworkChanges

LEMMA InvStep == Inv /\ [Next]_vars => Inv'
<1> SUFFICES ASSUME Inv, [Next]_vars PROVE Inv'
  OBVIOUS
<1>1. Types'
  BY TypesStep DEF Inv
<1>2. ASSUME ~crossed' PROVE Promises'
  <2>1. CASE \E u \in Users : Connect(u)
    BY <1>1, <1>2, <2>1, ConnectStep DEF Inv
  <2>2. CASE \E u \in Users : Disconnect(u)
    BY <1>1, <1>2, <2>2, DisconnectStep DEF Inv
  <2>3. CASE \A u \in Users : ~Connect(u) /\ ~Disconnect(u)
    BY <1>1, <1>2, <2>3, CrossedStep, PromisesStep DEF Inv
  <2> QED
    BY <2>1, <2>2, <2>3
<1> QED
  BY <1>1, <1>2 DEF Inv

LEMMA Invariance == Spec => []Inv
BY InitHolds, InvStep, PTL DEF Spec

-----------------------------------------------------------------------------

\* A Disconnect that no Connect crossed is final, for any number of requests and
\* whatever supervisors were doing meanwhile (app.go: the user wants the tunnel down).
THEOREM DisconnectIsFinal == Spec => []DisconnectHolds
<1>1. Inv => DisconnectHolds
  BY DEF Inv, Promises, Undone, DisconnectHolds, Quiet, UsersIdle, Lowering
<1> QED
  BY <1>1, Invariance, PTL

\* Between requests a tunnel that is wanted has a live supervisor, for any number
\* of Connects that overlapped and of supervisors they replaced that still work,
\* as long as no Disconnect crossed them.
THEOREM WantedIsSupervised == Spec => []Supervised
<1>1. Inv => Supervised
  BY DEF Inv, Promises, Watched, Supervised, UsersIdle, BringUpLabels
<1> QED
  BY <1>1, Invariance, PTL

=============================================================================
