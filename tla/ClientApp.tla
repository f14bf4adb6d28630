------------------------------ MODULE ClientApp ------------------------------
(***************************************************************************)
(* The connection state machine of skyfire-client (client/internal/app):   *)
(* requests of the user (tray callbacks, each in a goroutine of its own),  *)
(* the reconnect supervisor and the tunnel they share.  A step is a        *)
(* critical section of App.mu or a tunnel call, which Tunnel.mu makes      *)
(* atomic; everything else can interleave.                                 *)
(*                                                                         *)
(* Abstractions.  The configuration text, time and the counters are left   *)
(* out: a handshake is fresh or it is not, a back-off ends.  online stands *)
(* for the world around the client: while it holds, the configuration can  *)
(* be fetched, a tunnel can be raised and its handshakes stay fresh; else  *)
(* each of the three may fail.  Dry-run mode and statistics are left out.  *)
(***************************************************************************)
EXTENDS Integers, FiniteSets

CONSTANTS
  Users,         \* goroutines the user interface starts requests in
  Monitors,      \* slots for supervisor goroutines (bound: Watch needs a free one)
  NoMonitor,     \* monCancel is nil
  Requests       \* calls the user interface makes

ASSUME ClientAssumption ==
  /\ Users \cap Monitors = {}
  /\ NoMonitor \notin Monitors
  /\ Requests \subseteq {"toggle", "connect", "disconnect"}

VARIABLES
  pc,            \* what each goroutine does next
  status,        \* App.status
  desired,       \* App.desired
  current,       \* the supervisor monCancel cancels
  probing,       \* probeCancel is set: a latency prober runs
  auto,          \* App.autoReconnect, set by a flag before anything runs
  up,            \* Tunnel.dev is not nil
  online,
  crossed        \* history: a Connect and a Disconnect overlapped, see Crossing

vars == <<pc, status, desired, current, probing, auto, up, online, crossed>>

Threads == Users \cup Monitors

\* bringUp, run by both kinds of goroutines.
BringUpLabels == {"announce", "load", "raise", "report", "failed"}
UserLabels ==
  BringUpLabels \cup {"idle", "toggle", "connect", "watch", "startProbe",
                      "disconnect", "stopMonitor", "stopProbe", "lower", "reportDown"}
MonitorLabels ==
  BringUpLabels \cup {"none", "wait", "inspect", "retry", "drop", "sleep",
                      "confirm", "undo", "reportUndone"}

Statuses == {"Disconnected", "Connecting", "Connected", "Error"}

Goto(t, label) == pc' = [pc EXCEPT ![t] = label]

\* A supervisor's context is cancelled once another one took its place or the
\* user stopped it.
Cancelled(m) == m # current

-----------------------------------------------------------------------------
(* bringUp *)

\* (mutant) bringUp starts the supervisor itself, whoever calls it.
AfterWithWatch(t, ok) == "watch"

\* (mutant) A supervisor gives up when one attempt fails.
AfterGivingUp(t, ok) ==
  CASE t \in Users -> "watch"
    [] t \in Monitors /\ ok -> "confirm"
    [] OTHER -> "none"

\* (mutant) Connect arms the supervisor only when the first attempt worked.
AfterConnected(t, ok) ==
  CASE t \in Users -> IF ok THEN "watch" ELSE "idle"
    [] t \in Monitors /\ ok -> "confirm"
    [] OTHER -> "wait"

\* Where the caller of bringUp goes on: Connect arms the supervisor in any
\* case, a supervisor looks at its result.
After(t, ok) ==
  CASE t \in Users -> "watch"
    [] t \in Monitors /\ ok -> "confirm"
    [] OTHER -> "wait"

Announce(t) ==
  /\ pc[t] = "announce"
  /\ status' = "Connecting"
  /\ Goto(t, "load")
  /\ UNCHANGED <<desired, current, probing, auto, up, online, crossed>>

\* loadConfig: from the server, else from the cache if there is one.
Load(t) ==
  /\ pc[t] = "load"
  /\ \/ Goto(t, "raise")
     \/ ~online /\ Goto(t, "failed")
  /\ UNCHANGED <<status, desired, current, probing, auto, up, online, crossed>>

\* Tunnel.Up: refused when the tunnel is already up.
Raise(t) ==
  /\ pc[t] = "raise"
  /\ \/ ~up /\ up' = TRUE /\ Goto(t, "report")
     \/ (up \/ ~online) /\ Goto(t, "failed") /\ UNCHANGED up
  /\ UNCHANGED <<status, desired, current, probing, auto, online, crossed>>

Report(t) ==
  /\ pc[t] = "report"
  /\ status' = "Connected"
  /\ Goto(t, After(t, TRUE))
  /\ UNCHANGED <<desired, current, probing, auto, up, online, crossed>>

Failed(t) ==
  /\ pc[t] = "failed"
  /\ status' = "Error"
  /\ Goto(t, After(t, FALSE))
  /\ UNCHANGED <<desired, current, probing, auto, up, online, crossed>>

BringUp(t) == Announce(t) \/ Load(t) \/ Raise(t) \/ Report(t) \/ Failed(t)

-----------------------------------------------------------------------------
(* Requests of the user *)

\* Where a Connect and a Disconnect are from their first effect to their last on
\* what they share.
Raising  == BringUpLabels \cup {"watch", "startProbe"}
Lowering == {"stopMonitor", "stopProbe", "lower"}

\* History: a request that meets one of the other kind crosses it; one that meets
\* none of either kind starts afresh.
Crossing(others, alike) ==
  crossed' = \/ \E v \in Users : pc[v] \in others
             \/ crossed /\ \E v \in Users : pc[v] \in alike

Request(u) ==
  /\ pc[u] = "idle"
  /\ \E r \in Requests : Goto(u, r)
  /\ UNCHANGED <<status, desired, current, probing, auto, up, online, crossed>>

\* Toggle decides by a status it has read before.
Toggle(u) ==
  /\ pc[u] = "toggle"
  /\ Goto(u, IF status \in {"Connected", "Connecting"} THEN "disconnect" ELSE "connect")
  /\ UNCHANGED <<status, desired, current, probing, auto, up, online, crossed>>

Connect(u) ==
  /\ pc[u] = "connect"
  /\ desired' = TRUE
  /\ Crossing(Lowering, Raising)
  /\ Goto(u, "announce")
  /\ UNCHANGED <<status, current, probing, auto, up, online>>

\* The running supervisor is cancelled and a new one started.
Watch(u) ==
  /\ pc[u] = "watch"
  /\ IF auto
     THEN \E m \in Monitors :
            /\ pc[m] = "none"
            /\ current' = m
            /\ pc' = [pc EXCEPT ![u] = "startProbe", ![m] = "wait"]
     ELSE Goto(u, "startProbe") /\ UNCHANGED current
  /\ UNCHANGED <<status, desired, probing, auto, up, online, crossed>>

StartProbe(u) ==
  /\ pc[u] = "startProbe"
  /\ probing' = TRUE
  /\ Goto(u, "idle")
  /\ UNCHANGED <<status, desired, current, auto, up, online, crossed>>

Disconnect(u) ==
  /\ pc[u] = "disconnect"
  /\ desired' = FALSE
  /\ Crossing(Raising, Lowering)
  /\ Goto(u, "stopMonitor")
  /\ UNCHANGED <<status, current, probing, auto, up, online>>

StopMonitor(u) ==
  /\ pc[u] = "stopMonitor"
  /\ current' = NoMonitor
  /\ Goto(u, "stopProbe")
  /\ UNCHANGED <<status, desired, probing, auto, up, online, crossed>>

StopProbe(u) ==
  /\ pc[u] = "stopProbe"
  /\ probing' = FALSE
  /\ Goto(u, "lower")
  /\ UNCHANGED <<status, desired, current, auto, up, online, crossed>>

\* Tunnel.Down never fails.
Lower(u) ==
  /\ pc[u] = "lower"
  /\ up' = FALSE
  /\ Goto(u, "reportDown")
  /\ UNCHANGED <<status, desired, current, probing, auto, online, crossed>>

ReportDown(u) ==
  /\ pc[u] = "reportDown"
  /\ status' = "Disconnected"
  /\ Goto(u, "idle")
  /\ UNCHANGED <<desired, current, probing, auto, up, online, crossed>>

UserStep(u) ==
  \/ Toggle(u) \/ Connect(u) \/ BringUp(u) \/ Watch(u) \/ StartProbe(u)
  \/ Disconnect(u) \/ StopMonitor(u) \/ StopProbe(u) \/ Lower(u) \/ ReportDown(u)

-----------------------------------------------------------------------------
(* The supervisor *)

\* (mutant) The context is only looked at while backing off.
LeaveAsleep(m) ==
  /\ pc[m] = "sleep"
  /\ Cancelled(m)
  /\ Goto(m, "none")
  /\ UNCHANGED <<status, desired, current, probing, auto, up, online, crossed>>

\* A select finds the context cancelled.  When the timer has fired too, either
\* branch may be taken.
Leave(m) ==
  /\ pc[m] \in {"wait", "sleep"}
  /\ Cancelled(m)
  /\ Goto(m, "none")
  /\ UNCHANGED <<status, desired, current, probing, auto, up, online, crossed>>

\* The ticker fires; it only stays when the tunnel is desired.
Tick(m) ==
  /\ pc[m] = "wait"
  /\ Goto(m, IF desired THEN "inspect" ELSE "none")
  /\ UNCHANGED <<status, desired, current, probing, auto, up, online, crossed>>

\* healthy: up, and with a fresh handshake or still in its grace time.
Inspect(m) ==
  /\ pc[m] = "inspect"
  /\ \/ up /\ Goto(m, "wait")
     \/ (~up \/ ~online) /\ Goto(m, "retry")
  /\ UNCHANGED <<status, desired, current, probing, auto, up, online, crossed>>

Retry(m) ==
  /\ pc[m] = "retry"
  /\ status' = "Connecting"
  /\ Goto(m, "drop")
  /\ UNCHANGED <<desired, current, probing, auto, up, online, crossed>>

Drop(m) ==
  /\ pc[m] = "drop"
  /\ up' = FALSE
  /\ Goto(m, "sleep")
  /\ UNCHANGED <<status, desired, current, probing, auto, online, crossed>>

\* The back-off is over.
Wake(m) ==
  /\ pc[m] = "sleep"
  /\ Goto(m, IF desired THEN "announce" ELSE "none")
  /\ UNCHANGED <<status, desired, current, probing, auto, up, online, crossed>>

\* (mutant) A rebuilt tunnel is not checked against what the user wants.
ConfirmAlways(m) ==
  /\ pc[m] = "confirm"
  /\ Goto(m, "wait")
  /\ UNCHANGED <<status, desired, current, probing, auto, up, online, crossed>>

\* "Disconnect raced with the rebuild; honor it."
Confirm(m) ==
  /\ pc[m] = "confirm"
  /\ Goto(m, IF desired THEN "wait" ELSE "undo")
  /\ UNCHANGED <<status, desired, current, probing, auto, up, online, crossed>>

Undo(m) ==
  /\ pc[m] = "undo"
  /\ up' = FALSE
  /\ Goto(m, "reportUndone")
  /\ UNCHANGED <<status, desired, current, probing, auto, online, crossed>>

ReportUndone(m) ==
  /\ pc[m] = "reportUndone"
  /\ status' = "Disconnected"
  /\ Goto(m, "none")
  /\ UNCHANGED <<desired, current, probing, auto, up, online, crossed>>

MonitorStep(m) ==
  \/ Leave(m) \/ Tick(m) \/ Inspect(m) \/ Retry(m) \/ Drop(m) \/ Wake(m)
  \/ BringUp(m) \/ Confirm(m) \/ Undo(m) \/ ReportUndone(m)

-----------------------------------------------------------------------------

\* The network, the server or the host fails or works again.
NetworkChanges ==
  /\ online' = ~online
  /\ UNCHANGED <<pc, status, desired, current, probing, auto, up, crossed>>

Init ==
  /\ pc = [t \in Threads |-> IF t \in Users THEN "idle" ELSE "none"]
  /\ status = "Disconnected"
  /\ desired = FALSE
  /\ current = NoMonitor
  /\ probing = FALSE
  /\ auto \in BOOLEAN
  /\ up = FALSE
  /\ online = TRUE
  /\ crossed = FALSE

Next ==
  \/ \E u \in Users : Request(u) \/ UserStep(u)
  \/ \E m \in Monitors : MonitorStep(m)
  \/ NetworkChanges

\* Goroutines get to run; a select whose context stays cancelled is not decided
\* against it for ever (Go picks among ready cases at random).
Fairness ==
  /\ \A u \in Users : WF_vars(UserStep(u))
  /\ \A m \in Monitors : WF_vars(MonitorStep(m)) /\ SF_vars(Leave(m))

Spec == Init /\ [][Next]_vars

FairSpec == Spec /\ Fairness

-----------------------------------------------------------------------------
(* Properties *)

TypeOK ==
  /\ \A u \in Users : pc[u] \in UserLabels
  /\ \A m \in Monitors : pc[m] \in MonitorLabels
  /\ status \in Statuses
  /\ current \in Monitors \cup {NoMonitor}
  /\ desired \in BOOLEAN /\ probing \in BOOLEAN /\ auto \in BOOLEAN
  /\ up \in BOOLEAN /\ online \in BOOLEAN /\ crossed \in BOOLEAN

UsersIdle == \A u \in Users : pc[u] = "idle"

\* No request is running and each supervisor has ended or waits for its ticker.
Quiet == UsersIdle /\ \A m \in Monitors : pc[m] \in {"none", "wait"}

\* Disconnect is final (its comment: the user wants the tunnel down): whatever
\* supervisors and other disconnects were doing meanwhile, once everything is quiet
\* the tunnel is down and no prober is left.  Not after a Connect that was under way:
\* it raises the tunnel without a second look at the wish.
DisconnectHolds == Quiet /\ ~desired /\ ~crossed => ~up /\ ~probing

\* When no request runs, a desired tunnel has a supervisor that is not cancelled,
\* also when the first attempt failed, a supervisor it replaces is still busy or
\* another Connect overlapped.  Not after a Disconnect that was under way: between
\* its setDesired and its stopMonitor a Connect can run to its end.
Supervised ==
  UsersIdle /\ desired /\ auto /\ ~crossed => current # NoMonitor /\ pc[current] # "none"

\* A tunnel that stays desired, by requests that did not cross, comes back once the
\* network works for good, and then stays up, however the outages met the attempts
\* of supervisors.
Recovers == <>[](auto /\ desired /\ online /\ UsersIdle /\ ~crossed) => <>[]up

\* A supervisor that was replaced or stopped ends, so two do not work for ever.
StaleSupervisorsEnd ==
  \A m \in Monitors : m # current /\ pc[m] # "none" ~> m = current \/ pc[m] = "none"

=============================================================================
