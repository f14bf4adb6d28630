------------------------------ MODULE Whitelist ------------------------------
(***************************************************************************)
(* Split-by-domain routing of skyfire-client (tunnel/whitelist.go with the *)
(* handlers of tunnel/dnsproxy.go): host routes for the addresses that     *)
(* listed names resolve to.  The goroutines that share the routes: the one *)
(* that raises and lowers the tunnel (Owner), one per datagram, one per    *)
(* TCP connection, and the refresh loop (Loop).  A step is a critical      *)
(* section of the router's mutex or one lookup.                            *)
(*                                                                         *)
(* Abstractions.  Addresses and names are model values, dns is what the    *)
(* resolvers answer.  Left out: CIDR rules, names that are not listed (they *)
(* are relayed), the DNS messages, the configuration of the system         *)
(* resolver, whose failure counts as a proxy that does not start.          *)
(***************************************************************************)
EXTENDS Integers, FiniteSets

CONSTANTS
  Queries,      \* goroutines of the proxy that handle a datagram
  Conns,        \* and those that handle a TCP connection, query after query
  Owner, Loop,
  Names,        \* names a domain rule of the list matches
  Exact,        \* those listed literally: resolved when the tunnel is raised
  Addrs,        \* addresses names resolve to
  Servers,      \* addresses of the tunnel's DNS servers
  Failures,     \* what may fail: subset of {"route", "lookup", "proxy"}
  MaxChanges    \* bound: how often the answer for a name changes

ASSUME WhitelistAssumption ==
  /\ Queries \cap Conns = {} /\ {Owner, Loop} \cap (Queries \cup Conns) = {} /\ Owner # Loop
  /\ Exact \subseteq Names /\ Servers \subseteq Addrs
  /\ Failures \subseteq {"route", "lookup", "proxy"}
  /\ MaxChanges \in Nat

VARIABLES
  pc,           \* what each goroutine does next
  asked,        \* the name a goroutine resolves
  held,         \* the addresses it got for it
  exact,        \* literal names the Owner has not resolved yet
  proxy,        \* the proxy accepts queries
  left,         \* names the refresh has still to look up
  wanted,       \* addresses it found so far
  hostRoutes,   \* routes through the tunnel, as installed and as recorded
  seen,         \* names to be refreshed
  dns,          \* the addresses each name has at the moment
  changes

vars == <<pc, asked, held, exact, proxy, left, wanted, hostRoutes, seen, dns, changes>>

Handlers  == Queries \cup Conns
Resolvers == Handlers \cup {Owner}

\* resolveAndRoute, run by the Owner and by handlers.
ResolveLabels == {"resolve", "remember", "route"}
HandlerLabels == ResolveLabels \cup {"idle", "reading"}
OwnerLabels   == ResolveLabels \cup {"start", "next", "loop", "up", "closing", "joining", "down"}
LoopLabels    == {"off", "wait", "lookup", "apply", "done"}

Goto(t, label) == pc' = [pc EXCEPT ![t] = label]

\* What a lookup of n can return, and which routes an attempt to add ips leaves.
Found(n)    == IF "lookup" \in Failures THEN {{}, dns[n]} ELSE {dns[n]}
Added(ips)  == IF "route" \in Failures THEN {hostRoutes \cup s : s \in SUBSET ips}
               ELSE {hostRoutes \cup ips}

-----------------------------------------------------------------------------
(* resolveAndRoute *)

Resolve(r) ==
  /\ pc[r] = "resolve"
  /\ \E ips \in Found(asked[r]) : held' = [held EXCEPT ![r] = ips]
  /\ Goto(r, "remember")
  /\ UNCHANGED <<asked, exact, proxy, left, wanted, hostRoutes, seen, dns, changes>>

Remember(r) ==
  /\ pc[r] = "remember"
  /\ seen' = seen \cup {asked[r]}
  /\ Goto(r, "route")
  /\ UNCHANGED <<asked, held, exact, proxy, left, wanted, hostRoutes, dns, changes>>

\* (mutant) A handler goes on with the Owner's next name.
RouteThenNext(r) ==
  /\ pc[r] = "route"
  /\ hostRoutes' \in Added(held[r])
  /\ held' = [held EXCEPT ![r] = {}]
  /\ Goto(r, "next")
  /\ UNCHANGED <<asked, exact, proxy, left, wanted, seen, dns, changes>>

\* Where a goroutine goes after resolveAndRoute: a connection whose answer could
\* be written waits for its next query.
AfterRoute(r) ==
  IF r = Owner THEN {"next"} ELSE IF r \in Conns THEN {"reading", "idle"} ELSE {"idle"}

\* addHostRoutes; a query is then answered with what was found.
Route(r) ==
  /\ pc[r] = "route"
  /\ hostRoutes' \in Added(held[r])
  /\ held' = [held EXCEPT ![r] = {}]
  /\ \E label \in AfterRoute(r) : Goto(r, label)
  /\ UNCHANGED <<asked, exact, proxy, left, wanted, seen, dns, changes>>

ResolveAndRoute(r) == Resolve(r) \/ Remember(r) \/ Route(r)

\* udpLoop: a datagram gets a goroutine of its own.
Ask(q, n) ==
  /\ proxy
  /\ pc[q] = "idle"
  /\ asked' = [asked EXCEPT ![q] = n]
  /\ Goto(q, "resolve")
  /\ UNCHANGED <<held, exact, proxy, left, wanted, hostRoutes, seen, dns, changes>>

\* tcpLoop: so does a connection.
Accept(c) ==
  /\ proxy
  /\ pc[c] = "idle"
  /\ Goto(c, "reading")
  /\ UNCHANGED <<asked, held, exact, proxy, left, wanted, hostRoutes, seen, dns, changes>>

\* handleTCP: the next query of a connection, which close does not end and which
\* does not look whether the proxy is open.
AskNext(c, n) ==
  /\ pc[c] = "reading"
  /\ asked' = [asked EXCEPT ![c] = n]
  /\ Goto(c, "resolve")
  /\ UNCHANGED <<held, exact, proxy, left, wanted, hostRoutes, seen, dns, changes>>

\* (mutant) A connection that says nothing is only closed by an open proxy.
ReadEndsWhenOpen(c) ==
  /\ pc[c] = "reading" /\ proxy
  /\ Goto(c, "idle")
  /\ UNCHANGED <<asked, held, exact, proxy, left, wanted, hostRoutes, seen, dns, changes>>

\* The client leaves, or the deadline for its next query passes.
ReadEnds(c) ==
  /\ pc[c] = "reading"
  /\ Goto(c, "idle")
  /\ UNCHANGED <<asked, held, exact, proxy, left, wanted, hostRoutes, seen, dns, changes>>

-----------------------------------------------------------------------------
(* start and stop, called by Tunnel.Up and Tunnel.Down *)

\* The DNS servers are routed first.
Start ==
  /\ pc[Owner] = "start"
  /\ hostRoutes' \in Added(Servers)
  /\ Goto(Owner, "next")
  /\ UNCHANGED <<asked, held, exact, proxy, left, wanted, seen, dns, changes>>

NextExact ==
  /\ pc[Owner] = "next"
  /\ \E n \in exact :
       /\ asked' = [asked EXCEPT ![Owner] = n]
       /\ exact' = exact \ {n}
  /\ Goto(Owner, "resolve")
  /\ UNCHANGED <<held, proxy, left, wanted, hostRoutes, seen, dns, changes>>

\* Without the proxy the tunnel is raised nevertheless.
StartProxy ==
  /\ pc[Owner] = "next" /\ exact = {}
  /\ proxy' \in IF "proxy" \in Failures THEN BOOLEAN ELSE {TRUE}
  /\ Goto(Owner, "loop")
  /\ UNCHANGED <<asked, held, exact, left, wanted, hostRoutes, seen, dns, changes>>

StartLoop ==
  /\ pc[Owner] = "loop"
  /\ pc' = [pc EXCEPT ![Owner] = "up", ![Loop] = "wait"]
  /\ UNCHANGED <<asked, held, exact, proxy, left, wanted, hostRoutes, seen, dns, changes>>

Stop ==
  /\ pc[Owner] = "up"
  /\ proxy' = FALSE
  /\ Goto(Owner, "closing")
  /\ UNCHANGED <<asked, held, exact, left, wanted, hostRoutes, seen, dns, changes>>

\* (mutant) The proxy is closed, its handlers are not waited for.
ProxyClosedAtOnce ==
  /\ pc[Owner] = "closing"
  /\ Goto(Owner, "joining")
  /\ UNCHANGED <<asked, held, exact, proxy, left, wanted, hostRoutes, seen, dns, changes>>

\* (mutant) stopCh is closed once the loop has ended.
ProxyClosedAfterLoop ==
  /\ pc[Owner] = "closing" /\ pc[Loop] = "done"
  /\ \A h \in Handlers : pc[h] = "idle"
  /\ Goto(Owner, "joining")
  /\ UNCHANGED <<asked, held, exact, proxy, left, wanted, hostRoutes, seen, dns, changes>>

\* close waits for the handlers; then stopCh is closed.
ProxyClosed ==
  /\ pc[Owner] = "closing"
  /\ \A h \in Handlers : pc[h] = "idle"
  /\ Goto(Owner, "joining")
  /\ UNCHANGED <<asked, held, exact, proxy, left, wanted, hostRoutes, seen, dns, changes>>

\* The loop has ended: every route is removed.
RemoveRoutes ==
  /\ pc[Owner] = "joining" /\ pc[Loop] = "done"
  /\ hostRoutes' = {}
  /\ Goto(Owner, "down")
  /\ UNCHANGED <<asked, held, exact, proxy, left, wanted, seen, dns, changes>>

OwnerStep ==
  \/ Start \/ NextExact \/ ResolveAndRoute(Owner) \/ StartProxy \/ StartLoop
  \/ ProxyClosed \/ RemoveRoutes

-----------------------------------------------------------------------------
(* The refresh loop *)

\* (mutant) The servers are not among the addresses to keep.
TickForgetsServers ==
  /\ pc[Loop] = "wait"
  /\ left' = seen
  /\ wanted' = {}
  /\ Goto(Loop, "lookup")
  /\ UNCHANGED <<asked, held, exact, proxy, hostRoutes, seen, dns, changes>>

\* The names are copied, then looked up without the mutex.  With stopCh closed
\* the select may still take the ticker.
Tick ==
  /\ pc[Loop] = "wait"
  /\ left' = seen
  /\ wanted' = Servers
  /\ Goto(Loop, "lookup")
  /\ UNCHANGED <<asked, held, exact, proxy, hostRoutes, seen, dns, changes>>

Lookup ==
  /\ pc[Loop] = "lookup"
  /\ \E n \in left, ips \in UNION {Found(m) : m \in left} :
       /\ ips \in Found(n)
       /\ wanted' = wanted \cup ips
       /\ left' = left \ {n}
  /\ UNCHANGED <<pc, asked, held, exact, proxy, hostRoutes, seen, dns, changes>>

LookedUp ==
  /\ pc[Loop] = "lookup" /\ left = {}
  /\ Goto(Loop, "apply")
  /\ UNCHANGED <<asked, held, exact, proxy, left, wanted, hostRoutes, seen, dns, changes>>

\* (mutant) Addresses that no longer resolve stay routed.
ApplyWithoutPruning ==
  /\ pc[Loop] = "apply"
  /\ hostRoutes' \in Added(wanted)
  /\ wanted' = {}
  /\ Goto(Loop, "wait")
  /\ UNCHANGED <<asked, held, exact, proxy, left, seen, dns, changes>>

\* applyHostRoutes: missing routes are added, all others removed.
Apply ==
  /\ pc[Loop] = "apply"
  /\ \E added \in Added(wanted) : hostRoutes' = added \cap wanted
  /\ wanted' = {}
  /\ Goto(Loop, "wait")
  /\ UNCHANGED <<asked, held, exact, proxy, left, seen, dns, changes>>

LoopEnds ==
  /\ pc[Loop] = "wait" /\ pc[Owner] = "joining"
  /\ Goto(Loop, "done")
  /\ UNCHANGED <<asked, held, exact, proxy, left, wanted, hostRoutes, seen, dns, changes>>

LoopStep == Tick \/ Lookup \/ LookedUp \/ Apply \/ LoopEnds

-----------------------------------------------------------------------------

\* The answer for a name changes.
DnsChanges(n) ==
  /\ changes < MaxChanges
  /\ changes' = changes + 1
  /\ \E ips \in SUBSET Addrs : ips # dns[n] /\ dns' = [dns EXCEPT ![n] = ips]
  /\ UNCHANGED <<pc, asked, held, exact, proxy, left, wanted, hostRoutes, seen>>

Init ==
  /\ pc = [t \in Resolvers \cup {Loop} |->
             CASE t = Owner -> "start" [] t = Loop -> "off" [] OTHER -> "idle"]
  /\ asked \in [Resolvers -> Names] /\ \A r, s \in Resolvers : asked[r] = asked[s]
  /\ held = [r \in Resolvers |-> {}]
  /\ exact = Exact
  /\ proxy = FALSE
  /\ left = {} /\ wanted = {} /\ hostRoutes = {} /\ seen = {}
  /\ dns \in [Names -> SUBSET Addrs]
  /\ changes = 0

Next ==
  \/ OwnerStep \/ Stop
  \/ LoopStep
  \/ \E h \in Handlers : ResolveAndRoute(h)
  \/ \E q \in Queries, n \in Names : Ask(q, n)
  \/ \E c \in Conns : Accept(c) \/ ReadEnds(c) \/ \E n \in Names : AskNext(c, n)
  \/ \E n \in Names : DnsChanges(n)

\* Goroutines get to run, lookups and the wait for the next query of a connection
\* have a deadline; a select is not decided for the ticker for ever (Go picks
\* among ready cases at random).
Fairness ==
  /\ WF_vars(OwnerStep)
  /\ WF_vars(LoopStep) /\ SF_vars(LoopEnds)
  /\ \A h \in Handlers : WF_vars(ResolveAndRoute(h))
  /\ \A c \in Conns : WF_vars(ReadEnds(c))

Spec == Init /\ [][Next]_vars

FairSpec == Spec /\ Fairness

-----------------------------------------------------------------------------
(* Properties *)

TypeOK ==
  /\ \A h \in Handlers : pc[h] \in HandlerLabels
  /\ pc[Owner] \in OwnerLabels /\ pc[Loop] \in LoopLabels
  /\ asked \in [Resolvers -> Names] /\ held \in [Resolvers -> SUBSET Addrs]
  /\ exact \subseteq Names /\ left \subseteq Names /\ seen \subseteq Names
  /\ wanted \subseteq Addrs /\ hostRoutes \subseteq Addrs
  /\ dns \in [Names -> SUBSET Addrs]
  /\ proxy \in BOOLEAN /\ changes \in 0 .. MaxChanges

\* stop removes every route before the device goes, and nothing that was under
\* way can add one afterwards.
StopClears ==
  pc[Owner] = "down" =>
    /\ hostRoutes = {}
    /\ pc[Loop] = "done" /\ \A h \in Handlers : pc[h] = "idle"

\* The servers that lookups are sent to stay reachable through the tunnel.
ServersRouted == pc[Owner] = "up" => Servers \subseteq hostRoutes

\* When answers change no more, a tunnel that stays up ends with exactly the
\* routes of the names it has seen, although refreshes and queries overlap.
Current == hostRoutes = Servers \cup UNION {dns[n] : n \in seen}
Converges == <>[](pc[Owner] = "up") => <>[]Current

\* A tunnel that is being lowered gets down, unless a client goes on asking on a
\* connection it has: neither a handler that is under way, nor a connection that
\* falls silent, nor the loop keeps it.
Asking == \E c \in Conns, n \in Names : AskNext(c, n)
StopEnds == <>[][~Asking]_vars => (pc[Owner] = "closing" ~> pc[Owner] = "down")

=============================================================================
