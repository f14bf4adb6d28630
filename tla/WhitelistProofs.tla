--------------------------- MODULE WhitelistProofs ---------------------------
(***************************************************************************)
(* The client's split-by-domain router, for any number of queries,         *)
(* connections, names and addresses and however refreshes and queries      *)
(* overlap: stop leaves nothing behind, whatever fails, and until then the *)
(* servers stay routed.                                                    *)
(***************************************************************************)
EXTENDS Whitelist, TLAPS

Labels == HandlerLabels \cup OwnerLabels \cup LoopLabels

\* What makes StopClears inductive: a closed proxy takes no query, stopCh is
\* closed when no query is left, and only then the loop ends.
StopInv ==
  /\ pc \in [Resolvers \cup {Loop} -> Labels]
  /\ pc[Owner] \in {"closing", "joining", "down"} => ~proxy
  /\ pc[Owner] \in {"joining", "down"} => \A h \in Handlers : pc[h] = "idle"
  /\ pc[Owner] = "down" => pc[Loop] = "done" /\ hostRoutes = {}

LEMMA InitStopInv == Init => StopInv
<1> SUFFICES ASSUME Init PROVE StopInv
  OBVIOUS
<1>1. pc[Owner] = "start"
  BY WhitelistAssumption DEF Init, Resolvers
<1>2. pc \in [Resolvers \cup {Loop} -> Labels]
  BY DEF Init, Labels, HandlerLabels, OwnerLabels, LoopLabels
<1> QED
  BY <1>1, <1>2 DEF StopInv

\* Nothing but the goroutine that runs changes its label.
LEMMA GotoLabels ==
  ASSUME StopInv, NEW t \in Resolvers \cup {Loop}, NEW label \in Labels, Goto(t, label)
  PROVE  /\ pc' \in [Resolvers \cup {Loop} -> Labels]
         /\ pc'[t] = label
         /\ \A r \in Resolvers \cup {Loop} : r # t => pc'[r] = pc[r]
  BY DEF StopInv, Goto

LEMMA OwnerKeepsStopInv == StopInv /\ (OwnerStep \/ Stop) => StopInv'
<1> SUFFICES ASSUME StopInv, OwnerStep \/ Stop PROVE StopInv'
  OBVIOUS
<1> USE WhitelistAssumption
    DEF Labels, OwnerLabels, LoopLabels, HandlerLabels, ResolveLabels, Handlers
<1>1. CASE Start
  BY <1>1, GotoLabels DEF Start, StopInv, Resolvers
<1>2. CASE NextExact
  BY <1>2, GotoLabels DEF NextExact, StopInv, Resolvers
<1>3. CASE Resolve(Owner)
  BY <1>3, GotoLabels DEF Resolve, StopInv, Resolvers
<1>4. CASE Remember(Owner)
  BY <1>4, GotoLabels DEF Remember, StopInv, Resolvers
<1>5. CASE Route(Owner)
  BY <1>5, GotoLabels DEF Route, AfterRoute, StopInv, Resolvers
<1>6. CASE StartProxy
  BY <1>6, GotoLabels DEF StartProxy, StopInv, Resolvers
<1>7. CASE StartLoop
  BY <1>7 DEF StartLoop, StopInv, Resolvers
<1>8. CASE ProxyClosed
  BY <1>8, GotoLabels DEF ProxyClosed, StopInv, Resolvers
<1>9. CASE RemoveRoutes
  BY <1>9, GotoLabels DEF RemoveRoutes, StopInv, Resolvers
<1>10. CASE Stop
  BY <1>10, GotoLabels DEF Stop, StopInv, Resolvers
<1> QED
  BY <1>1, <1>2, <1>3, <1>4, <1>5, <1>6, <1>7, <1>8, <1>9, <1>10
     DEF OwnerStep, ResolveAndRoute

LEMMA LoopKeepsStopInv == StopInv /\ LoopStep => StopInv'
<1> SUFFICES ASSUME StopInv, LoopStep PROVE StopInv'
  OBVIOUS
<1> USE WhitelistAssumption
    DEF Labels, OwnerLabels, LoopLabels, HandlerLabels, ResolveLabels, Handlers
<1>1. CASE Tick
  BY <1>1, GotoLabels DEF Tick, StopInv, Resolvers
<1>2. CASE Lookup
  BY <1>2 DEF Lookup, StopInv
<1>3. CASE LookedUp
  BY <1>3, GotoLabels DEF LookedUp, StopInv, Resolvers
<1>4. CASE Apply
  BY <1>4, GotoLabels DEF Apply, StopInv, Resolvers
<1>5. CASE LoopEnds
  BY <1>5, GotoLabels DEF LoopEnds, StopInv, Resolvers
<1> QED
  BY <1>1, <1>2, <1>3, <1>4, <1>5 DEF LoopStep

LEMMA HandlerKeepsStopInv ==
  ASSUME StopInv, NEW q \in Handlers, ResolveAndRoute(q)
  PROVE  StopInv'
<1> USE WhitelistAssumption
    DEF Labels, OwnerLabels, LoopLabels, HandlerLabels, ResolveLabels, Handlers
<1>1. CASE Resolve(q)
  BY <1>1, GotoLabels DEF Resolve, StopInv, Resolvers
<1>2. CASE Remember(q)
  BY <1>2, GotoLabels DEF Remember, StopInv, Resolvers
<1>3. CASE Route(q)
  BY <1>3, GotoLabels DEF Route, AfterRoute, StopInv, Resolvers, Handlers
<1> QED
  BY <1>1, <1>2, <1>3 DEF ResolveAndRoute

LEMMA QueryKeepsStopInv ==
  ASSUME StopInv, NEW q \in Queries, NEW n \in Names, Ask(q, n)
  PROVE  StopInv'
<1> USE WhitelistAssumption DEF Labels, OwnerLabels, LoopLabels, HandlerLabels, ResolveLabels
<1> QED
  BY GotoLabels DEF Ask, StopInv, Resolvers, Handlers

\* A connection that is served is not idle, so the proxy's close still waits.
LEMMA ConnKeepsStopInv ==
  ASSUME StopInv, NEW c \in Conns,
         Accept(c) \/ ReadEnds(c) \/ \E n \in Names : AskNext(c, n)
  PROVE  StopInv'
<1> USE WhitelistAssumption
    DEF Labels, OwnerLabels, LoopLabels, HandlerLabels, ResolveLabels, Handlers
<1>1. CASE Accept(c)
  BY <1>1, GotoLabels DEF Accept, StopInv, Resolvers, Handlers
<1>2. CASE ReadEnds(c)
  BY <1>2, GotoLabels DEF ReadEnds, StopInv, Resolvers, Handlers
<1>3. CASE \E n \in Names : AskNext(c, n)
  BY <1>3, GotoLabels DEF AskNext, StopInv, Resolvers, Handlers
<1> QED
  BY <1>1, <1>2, <1>3

LEMMA StepStopInv == StopInv /\ [Next]_vars => StopInv'
<1> SUFFICES ASSUME StopInv, [Next]_vars PROVE StopInv'
  OBVIOUS
<1>1. CASE \E n \in Names : DnsChanges(n)
  BY <1>1 DEF DnsChanges, StopInv
<1>2. CASE UNCHANGED vars
  BY <1>2 DEF vars, StopInv
<1> QED
  BY <1>1, <1>2, OwnerKeepsStopInv, LoopKeepsStopInv, HandlerKeepsStopInv,
     QueryKeepsStopInv, ConnKeepsStopInv DEF Next

\* Once stop has returned no route is left and none can be added: handlers and
\* loop have ended (whitelistRouter.stop).
THEOREM StopIsClean == Spec => []StopClears
<1>1. StopInv => StopClears
  BY DEF StopInv, StopClears
<1> QED
  BY <1>1, InitStopInv, StepStopInv, PTL DEF Spec

-----------------------------------------------------------------------------

Types ==
  /\ TypeOK
  /\ pc \in [Resolvers \cup {Loop} -> Labels]

LEMMA TypesInit == Init => Types
<1> SUFFICES ASSUME Init PROVE Types
  OBVIOUS
<1>1. pc \in [Resolvers \cup {Loop} -> Labels]
  BY InitStopInv DEF StopInv
<1>2. pc[Owner] = "start" /\ pc[Loop] = "off" /\ \A h \in Handlers : pc[h] = "idle"
  BY WhitelistAssumption DEF Init, Resolvers, Handlers
<1>3. held \in [Resolvers -> SUBSET Addrs]
  BY DEF Init
<1>4. /\ exact \subseteq Names /\ left \subseteq Names /\ seen \subseteq Names
      /\ wanted \subseteq Addrs /\ hostRoutes \subseteq Addrs
  BY WhitelistAssumption DEF Init
<1>5. proxy \in BOOLEAN
  BY DEF Init
<1>6. changes = 0 /\ 0 \in 0 .. MaxChanges
  <2>1. MaxChanges \in Nat
    BY WhitelistAssumption
  <2> QED
    BY <2>1 DEF Init
<1>7. asked \in [Resolvers -> Names] /\ dns \in [Names -> SUBSET Addrs]
  BY DEF Init
<1> QED
  BY <1>1, <1>2, <1>3, <1>4, <1>5, <1>6, <1>7
     DEF Types, TypeOK, HandlerLabels, OwnerLabels, LoopLabels

LEMMA TypesStep == Types /\ [Next]_vars => Types'
<1> SUFFICES ASSUME Types, [Next]_vars PROVE Types'
  OBVIOUS
<1> USE WhitelistAssumption
    DEF Types, TypeOK, Labels, HandlerLabels, OwnerLabels, LoopLabels, ResolveLabels, Resolvers,
        Handlers, Goto
<1>1. ASSUME NEW r \in Resolvers, ResolveAndRoute(r) PROVE Types'
  <2>1. CASE Resolve(r)
    BY <2>1 DEF Resolve, Found
  <2>2. CASE Remember(r)
    BY <2>2 DEF Remember
  <2>3. CASE Route(r)
    BY <2>3 DEF Route, AfterRoute, Added
  <2> QED
    BY <1>1, <2>1, <2>2, <2>3 DEF ResolveAndRoute
<1>2. CASE OwnerStep
  <2>1. CASE Start
    BY <2>1 DEF Start, Added
  <2>2. CASE NextExact
    BY <2>2 DEF NextExact
  <2>3. CASE StartProxy
    BY <2>3 DEF StartProxy
  <2>4. CASE StartLoop
    BY <2>4 DEF StartLoop
  <2>5. CASE ProxyClosed
    BY <2>5 DEF ProxyClosed
  <2>6. CASE RemoveRoutes
    BY <2>6 DEF RemoveRoutes
  <2> QED
    BY <1>1, <1>2, <2>1, <2>2, <2>3, <2>4, <2>5, <2>6 DEF OwnerStep
<1>3. CASE Stop
  BY <1>3 DEF Stop
<1>4. CASE LoopStep
  <2>1. CASE Tick
    BY <2>1 DEF Tick
  <2>2. CASE Lookup
    BY <2>2 DEF Lookup, Found
  <2>3. CASE LookedUp
    BY <2>3 DEF LookedUp
  <2>4. CASE Apply
    BY <2>4 DEF Apply, Added
  <2>5. CASE LoopEnds
    BY <2>5 DEF LoopEnds
  <2> QED
    BY <1>4, <2>1, <2>2, <2>3, <2>4, <2>5 DEF LoopStep
<1>5. ASSUME NEW q \in Queries, NEW n \in Names, Ask(q, n) PROVE Types'
  BY <1>5 DEF Ask
<1>8. ASSUME NEW c \in Conns, Accept(c) \/ ReadEnds(c) PROVE Types'
  BY <1>8 DEF Accept, ReadEnds
<1>9. ASSUME NEW c \in Conns, NEW n \in Names, AskNext(c, n) PROVE Types'
  BY <1>9 DEF AskNext
<1>6. ASSUME NEW n \in Names, DnsChanges(n) PROVE Types'
  BY <1>6 DEF DnsChanges
<1>7. CASE UNCHANGED vars
  BY <1>7 DEF vars
<1> QED
  BY <1>1, <1>2, <1>3, <1>4, <1>5, <1>6, <1>7, <1>8, <1>9 DEF Next

\* Every reachable state of the router is well typed.
THEOREM TypeCorrect == Spec => []TypeOK
<1>1. Types => TypeOK
  BY DEF Types
<1> QED
  BY <1>1, TypesInit, TypesStep, PTL DEF Spec

\* The servers are routed from the first step on; a refresh keeps them because
\* they are among the addresses it starts from.
ServerInv ==
  /\ pc[Owner] \in OwnerLabels \ {"start", "down"} => Servers \subseteq hostRoutes
  /\ pc[Loop] \in {"lookup", "apply"} => Servers \subseteq wanted

LEMMA ServerStep ==
  ASSUME "route" \notin Failures, Types, ServerInv, [Next]_vars
  PROVE  ServerInv'
<1> USE WhitelistAssumption
    DEF Types, ServerInv, OwnerLabels, ResolveLabels, Resolvers, Handlers, Goto
<1>1. ASSUME NEW r \in Resolvers, ResolveAndRoute(r) PROVE ServerInv'
  <2>1. CASE Resolve(r)
    BY <2>1 DEF Resolve, Found
  <2>2. CASE Remember(r)
    BY <2>2 DEF Remember
  <2>3. CASE Route(r)
    BY <2>3 DEF Route, AfterRoute, Added
  <2> QED
    BY <1>1, <2>1, <2>2, <2>3 DEF ResolveAndRoute
<1>2. CASE OwnerStep
  <2>1. CASE Start
    BY <2>1 DEF Start, Added
  <2>2. CASE NextExact
    BY <2>2 DEF NextExact
  <2>3. CASE StartProxy
    BY <2>3 DEF StartProxy
  <2>4. CASE StartLoop
    BY <2>4 DEF StartLoop
  <2>5. CASE ProxyClosed
    BY <2>5 DEF ProxyClosed
  <2>6. CASE RemoveRoutes
    BY <2>6 DEF RemoveRoutes
  <2> QED
    BY <1>1, <1>2, <2>1, <2>2, <2>3, <2>4, <2>5, <2>6 DEF OwnerStep
<1>3. CASE Stop
  BY <1>3 DEF Stop
<1>4. CASE LoopStep
  <2>1. CASE Tick
    BY <2>1 DEF Tick
  <2>2. CASE Lookup
    BY <2>2 DEF Lookup, Found
  <2>3. CASE LookedUp
    BY <2>3 DEF LookedUp
  <2>4. CASE Apply
    BY <2>4 DEF Apply, Added
  <2>5. CASE LoopEnds
    BY <2>5 DEF LoopEnds
  <2> QED
    BY <1>4, <2>1, <2>2, <2>3, <2>4, <2>5 DEF LoopStep
<1>5. ASSUME NEW q \in Queries, NEW n \in Names, Ask(q, n) PROVE ServerInv'
  BY <1>5 DEF Ask
<1>8. ASSUME NEW c \in Conns, Accept(c) \/ ReadEnds(c) PROVE ServerInv'
  BY <1>8 DEF Accept, ReadEnds
<1>9. ASSUME NEW c \in Conns, NEW n \in Names, AskNext(c, n) PROVE ServerInv'
  BY <1>9 DEF AskNext
<1>6. ASSUME NEW n \in Names, DnsChanges(n) PROVE ServerInv'
  BY <1>6 DEF DnsChanges
<1>7. CASE UNCHANGED vars
  BY <1>7 DEF vars
<1> QED
  BY <1>1, <1>2, <1>3, <1>4, <1>5, <1>6, <1>7, <1>8, <1>9 DEF Next

\* While routes can be added, the servers that lookups are sent to stay reachable
\* for as long as the tunnel is up, whatever answers, lookups and refreshes do.
THEOREM ServersStayRouted == "route" \notin Failures => (Spec => []ServersRouted)
<1> SUFFICES ASSUME "route" \notin Failures PROVE Spec => []ServersRouted
  OBVIOUS
<1>1. Init => ServerInv
  BY WhitelistAssumption DEF Init, ServerInv, Resolvers
<1>2. Types /\ ServerInv /\ [Next]_vars => ServerInv'
  BY ServerStep
<1>3. ServerInv => ServersRouted
  BY DEF ServerInv, ServersRouted, OwnerLabels
<1> QED
  BY <1>1, <1>2, <1>3, TypesInit, TypesStep, PTL DEF Spec

=============================================================================
