--------------------------- MODULE DnsProxyProofs ---------------------------
(***************************************************************************)
(* The DNS forwarder of the daemon, for any number of handlers, resolvers  *)
(* and queries: Close returns when everything it started has ended (the    *)
(* proxy implements Drain), and no resolver is left out.                   *)
(***************************************************************************)
EXTENDS DnsProxy, FiniteSetTheorems, TLAPS

Loaded == udp \in {"wait", "got"} /\ tcp \in {"wait", "got"}

\* The wait group counts what runs.  Nothing runs before Start and after Close,
\* and both loops run until Close begins.
GroupInv ==
  /\ phase \in {"new", "serving", "closing", "closed", "failed"}
  /\ pc \in [Handlers -> UdpSteps \cup TcpSteps]
  /\ wg = Cardinality(Running)
  /\ phase = "serving" => Loaded
  /\ phase \in {"new", "closed", "failed"} => Running = {}

LEMMA RunningFinite == IsFiniteSet(Running)
<1>1. IsFiniteSet({"udp", "tcp"})
  <2>1. IsFiniteSet({"udp"} \cup {"tcp"})
    BY FS_Singleton, FS_AddElement
  <2>2. {"udp"} \cup {"tcp"} = {"udp", "tcp"}
    OBVIOUS
  <2> QED
    BY <2>1, <2>2
<1>2. IsFiniteSet({"udp", "tcp"} \cup Handlers)
  BY <1>1, ProxyAssumption, FS_Union
<1>3. Running \subseteq {"udp", "tcp"} \cup Handlers
  BY DEF Running
<1> QED
  BY <1>2, <1>3, FS_Subset

\* How the steps change what runs.
LEMMA HandlerStarts ==
  ASSUME GroupInv, NEW h \in Handlers, pc[h] = "idle", NEW s \in UdpSteps \cup TcpSteps,
         s # "idle", Goto(h, s), wg' = wg + 1, UNCHANGED phase,
         udp' \in {"wait", "got"} <=> udp \in {"wait", "got"},
         tcp' \in {"wait", "got"} <=> tcp \in {"wait", "got"},
         phase \notin {"new", "closed", "failed"}
  PROVE  /\ h \notin Running /\ Running' = Running \cup {h}
         /\ GroupInv'
<1>1. h \notin {"udp", "tcp"}
  BY ProxyAssumption
<1>2. h \notin Running /\ Running' = Running \cup {h}
  BY <1>1 DEF Running, Goto, GroupInv
<1>3. Cardinality(Running') = Cardinality(Running) + 1
  BY <1>2, RunningFinite, FS_AddElement
<1> QED
  BY <1>2, <1>3 DEF GroupInv, Goto, Loaded

LEMMA HandlerEnds ==
  ASSUME GroupInv, NEW h \in Handlers, pc[h] # "idle", Goto(h, "idle"), wg' = wg - 1,
         UNCHANGED <<phase, udp, tcp>>
  PROVE  /\ h \in Running /\ Running' = Running \ {h}
         /\ GroupInv'
<1>1. h \notin {"udp", "tcp"}
  BY ProxyAssumption
<1>2. h \in Running /\ Running' = Running \ {h}
  BY <1>1 DEF Running, Goto, GroupInv
<1>3. Cardinality(Running') = Cardinality(Running) - 1
  BY <1>2, RunningFinite, FS_RemoveElement
<1> QED
  BY <1>2, <1>3 DEF GroupInv, Goto, Loaded, UdpSteps

LEMMA LoopEnds ==
  ASSUME GroupInv, UdpLoopEnds \/ TcpLoopEnds
  PROVE  /\ \E l \in Running : Running' = Running \ {l}
         /\ GroupInv'
<1>1. PICK l \in {"udp", "tcp"} : l \in Running /\ Running' = Running \ {l}
  <2>1. CASE UdpLoopEnds
    <3>1. "udp" \in Running /\ Running' = Running \ {"udp"}
      BY <2>1, ProxyAssumption DEF UdpLoopEnds, Running
    <3> QED
      BY <3>1
  <2>2. CASE TcpLoopEnds
    <3>1. "tcp" \in Running /\ Running' = Running \ {"tcp"}
      BY <2>2, ProxyAssumption DEF TcpLoopEnds, Running
    <3> QED
      BY <3>1
  <2> QED
    BY <2>1, <2>2
<1>2. Cardinality(Running') = Cardinality(Running) - 1
  BY <1>1, RunningFinite, FS_RemoveElement
<1>3. wg' = wg - 1 /\ phase = "closing" /\ UNCHANGED <<phase, pc>>
  BY DEF UdpLoopEnds, TcpLoopEnds
<1> QED
  BY <1>1, <1>2, <1>3 DEF GroupInv

\* A step within a loop or a handler.
LEMMA RunsOn ==
  ASSUME GroupInv, pc' \in [Handlers -> UdpSteps \cup TcpSteps],
         \A h \in Handlers : pc'[h] = "idle" <=> pc[h] = "idle",
         UNCHANGED <<phase, wg>>,
         udp' \in {"wait", "got"} <=> udp \in {"wait", "got"},
         tcp' \in {"wait", "got"} <=> tcp \in {"wait", "got"}
  PROVE  Running' = Running /\ GroupInv'
<1>1. Running' = Running
  BY DEF Running
<1> QED
  BY <1>1 DEF GroupInv, Loaded

LEMMA StepRuns ==
  ASSUME GroupInv, NEW h \in Handlers,
         \/ Step(h) \/ Answered(h) \/ TcpWrite(h) \/ TcpClientLeaves(h)
         \/ \E q \in Queries : TcpRead(h, q)
  PROVE  /\ UNCHANGED phase
         /\ Running' = Running \/ \E t \in Running : Running' = Running \ {t}
         /\ GroupInv'
<1> DEFINE Stays == UNCHANGED <<phase, wg, udp, tcp>> /\ pc[h] # "idle"
                    /\ \E s \in (UdpSteps \cup TcpSteps) \ {"idle"} : pc' = [pc EXCEPT ![h] = s]
           Leaves == UNCHANGED <<phase, udp, tcp>> /\ pc[h] # "idle" /\ Ends(h)
<1>1. Stays \/ Leaves
  <2>1. CASE Drop(h)
    BY <2>1 DEF Drop, server
  <2>2. CASE Relay(h)
    BY <2>2 DEF Relay, server, Goto, UdpSteps, TcpSteps
  <2>3. CASE Dial(h)
    BY <2>3 DEF Dial, server, Goto, UdpSteps, TcpSteps
  <2>4. CASE Answered(h)
    BY <2>4 DEF Answered, server, Goto, UdpSteps, TcpSteps
  <2>5. CASE GiveUp(h)
    <3>1. pc = [pc EXCEPT ![h] = pc[h]]
      BY DEF GroupInv
    <3> QED
      BY <2>5, <3>1 DEF GiveUp, server, UdpSteps, TcpSteps
  <2>6. CASE \E q \in Queries : TcpRead(h, q)
    BY <2>6 DEF TcpRead, server, Goto, UdpSteps, TcpSteps
  <2>7. CASE TcpWrite(h)
    BY <2>7 DEF TcpWrite, server, Goto, UdpSteps, TcpSteps
  <2>8. CASE TcpClientLeaves(h)
    BY <2>8 DEF TcpClientLeaves, server
  <2> QED
    BY <2>1, <2>2, <2>3, <2>4, <2>5, <2>6, <2>7, <2>8 DEF Step
<1>2. CASE Stays
  <2>1. /\ pc' \in [Handlers -> UdpSteps \cup TcpSteps]
        /\ \A g \in Handlers : pc'[g] = "idle" <=> pc[g] = "idle"
    BY <1>2 DEF GroupInv
  <2> QED
    BY <1>2, <2>1, RunsOn
<1>3. CASE Leaves
  <2>1. Goto(h, "idle") /\ wg' = wg - 1
    BY <1>3 DEF Ends
  <2> QED
    BY <1>3, <2>1, HandlerEnds
<1> QED
  BY <1>1, <1>2, <1>3

\* The state of Drain, as the refinement mapping has it.
Draining ==
  CASE phase = "serving" -> "open" [] phase = "failed" -> "closed" [] OTHER -> phase

LEMMA StartDrains ==
  ASSUME GroupInv, NEW u \in BOOLEAN, NEW t \in BOOLEAN, Start(u, t)
  PROVE  D!Next /\ GroupInv'
<1>1. phase = "new" /\ Running = {} /\ wg = 0 /\ UNCHANGED pc
  BY FS_EmptySet DEF Start, GroupInv
<1>2. \A h \in Handlers : pc[h] = "idle"
  BY <1>1 DEF Running
<1>3. CASE u /\ t
  <2>1. Running' = {"udp", "tcp"}
    BY <1>1, <1>2, <1>3 DEF Start, Running
  <2>2. Cardinality({"udp", "tcp"}) = 2
    <3>1. IsFiniteSet({"udp"}) /\ Cardinality({"udp"}) = 1
      BY FS_Singleton
    <3>2. Cardinality({"udp"} \cup {"tcp"}) = 2
      BY <3>1, FS_AddElement
    <3> QED
      BY <3>2
  <2>3. D!Opens
    BY <1>1, <1>3, <2>1 DEF Start, D!Opens
  <2> QED
    BY <1>1, <1>3, <2>1, <2>2, <2>3 DEF Start, D!Next, GroupInv, Loaded
<1>4. CASE ~(u /\ t)
  <2>1. Running' = {} /\ phase' = "failed" /\ UNCHANGED wg
    BY <1>1, <1>4 DEF Start, Running
  <2>2. D!Fails
    BY <1>1, <2>1 DEF D!Fails
  <2> QED
    BY <1>1, <2>1, <2>2 DEF D!Next, GroupInv
<1> QED
  BY <1>3, <1>4

LEMMA DrainStep == GroupInv /\ [Next]_vars => [D!Next]_(D!vars) /\ GroupInv'
<1> SUFFICES ASSUME GroupInv, [Next]_vars PROVE [D!Next]_(D!vars) /\ GroupInv'
  OBVIOUS
<1> DEFINE Q == [D!Next]_(D!vars) /\ GroupInv'
<1>1. ASSUME NEW u \in BOOLEAN, NEW t \in BOOLEAN, Start(u, t) PROVE Q
  BY <1>1, StartDrains
<1>2. ASSUME (\E q \in Queries : UdpReads(q)) \/ TcpAccepts \/ (\E l \in Lists : SetBlacklist(l))
      PROVE  Q
  <2>1. Running' = Running /\ UNCHANGED phase /\ GroupInv'
    BY <1>2, RunsOn DEF UdpReads, TcpAccepts, SetBlacklist, server, GroupInv
  <2> QED
    BY <2>1 DEF D!vars
<1>3. ASSUME NEW h \in Handlers, UdpSpawns(h) \/ TcpSpawns(h) PROVE Q
  <2>1. PICK s \in {"blocked", "read"} : Goto(h, s)
    BY <1>3 DEF UdpSpawns, TcpSpawns, Goto
  <2>2. (udp = "got" \/ tcp = "got") /\ Running # {}
    BY <1>3 DEF UdpSpawns, TcpSpawns, Running
  <2>3. h \notin Running /\ Running' = Running \cup {h} /\ GroupInv' /\ UNCHANGED phase
    BY <1>3, <2>1, <2>2, HandlerStarts
       DEF UdpSpawns, TcpSpawns, GroupInv, UdpSteps, TcpSteps
  <2>4. D!Starts
    BY <2>2, <2>3 DEF D!Starts
  <2> QED
    BY <2>3, <2>4 DEF D!Next
<1>4. ASSUME UdpLoopEnds \/ TcpLoopEnds PROVE Q
  <2>1. UNCHANGED phase
    BY <1>4 DEF UdpLoopEnds, TcpLoopEnds
  <2> QED
    BY <1>4, <2>1, LoopEnds DEF D!Next, D!Leaves
<1>5. ASSUME NEW h \in Handlers,
             \/ Step(h) \/ Answered(h) \/ TcpWrite(h) \/ TcpClientLeaves(h)
         \/ \E q \in Queries : TcpRead(h, q)
      PROVE  Q
  BY <1>5, StepRuns DEF D!Next, D!Leaves, D!vars
<1>6. CASE Close
  <2>1. Running' = Running
    BY <1>6 DEF Close, Running
  <2>2. D!Closes
    BY <1>6, <2>1 DEF Close, D!Closes
  <2> QED
    BY <1>6, <2>1, <2>2 DEF Close, D!Next, GroupInv
<1>7. CASE CloseReturns
  <2>1. Running = {}
    BY <1>7, RunningFinite, FS_EmptySet DEF CloseReturns, GroupInv
  <2>2. Running' = Running
    BY <1>7 DEF CloseReturns, Running
  <2>3. D!Closed
    BY <1>7, <2>1, <2>2 DEF CloseReturns, D!Closed
  <2> QED
    BY <1>7, <2>1, <2>2, <2>3 DEF CloseReturns, D!Next, GroupInv
<1>8. CASE UNCHANGED vars
  <2>1. Running' = Running /\ UNCHANGED phase
    BY <1>8 DEF vars, Running
  <2> QED
    BY <1>8, <2>1 DEF vars, D!vars, GroupInv, Loaded
<1> QED
  BY <1>1, <1>2, <1>3, <1>4, <1>5, <1>6, <1>7, <1>8 DEF Next, Loops, Handlers

\* When Close returns, no loop and no handler is left, and none starts any more.
THEOREM ProxyDrains == Spec => DrainsOnClose
<1>1. Init => GroupInv /\ D!Init
  <2> SUFFICES ASSUME Init PROVE GroupInv /\ D!Init
    OBVIOUS
  <2>1. Running = {}
    BY DEF Init, Running
  <2> QED
    BY <2>1, FS_EmptySet DEF Init, GroupInv, D!Init, UdpSteps
<1> QED
  BY <1>1, DrainStep, PTL DEF Spec, DrainsOnClose, D!Spec

-----------------------------------------------------------------------------
(* Every resolver is asked *)

Asks(f, i) == (f + i) % Upstreams

LEMMA SmallMod == ASSUME NEW u \in Nat \ {0}, NEW x \in 0 .. u - 1 PROVE x % u = x
BY Z3

LEMMA WrappedMod == ASSUME NEW u \in Nat \ {0}, NEW x \in 0 .. u - 1 PROVE (x + u) % u = x
BY Z3

LEMMA ModRange == ASSUME NEW u \in Nat \ {0}, NEW x \in Int PROVE x % u \in 0 .. u - 1
BY Z3

\* From wherever it starts, one round comes to every resolver.
LEMMA RoundCovers ==
  ASSUME NEW f \in Resolvers
  PROVE  {Asks(f, i) : i \in Resolvers} = Resolvers
<1> USE ProxyAssumption DEF Resolvers, Asks
<1>1. ASSUME NEW r \in Resolvers PROVE \E i \in Resolvers : Asks(f, i) = r
  <2>1. CASE f <= r
    <3>1. r - f \in Resolvers /\ f + (r - f) = r
      BY <2>1
    <3> QED
      BY <3>1, SmallMod
  <2>2. CASE r < f
    <3>1. r - f + Upstreams \in Resolvers /\ f + (r - f + Upstreams) = r + Upstreams
      BY <2>2
    <3> QED
      BY <3>1, WrappedMod
  <2> QED
    BY <2>1, <2>2
<1>2. ASSUME NEW i \in Resolvers PROVE Asks(f, i) \in Resolvers
  BY ModRange
<1> QED
  BY <1>1, <1>2

\* What the first n turns from f ask.
Round(f, n) == {Asks(f, i) : i \in 0 .. n - 1}

LEMMA RoundEmpty == ASSUME NEW f PROVE Round(f, 0) = {}
BY DEF Round

LEMMA RoundGrows ==
  ASSUME NEW f, NEW n \in Nat
  PROVE  Round(f, n + 1) = Round(f, n) \cup {Asks(f, n)}
<1>1. 0 .. (n + 1) - 1 = (0 .. n - 1) \cup {n}
  OBVIOUS
<1> QED
  BY <1>1 DEF Round

\* The upstreams tried so far are those of the turns so far.
RoundInv ==
  /\ next \in Nat
  /\ pc \in [Handlers -> UdpSteps \cup TcpSteps]
  /\ turn \in [Handlers -> Resolvers]
  /\ first \in [Handlers -> Resolvers]
  /\ tried \in [Handlers -> SUBSET Resolvers]
  /\ \A h \in UdpHandlers :
       IF pc[h] = "exchange"
       THEN tried[h] = Round(first[h], turn[h])
       ELSE turn[h] = 0 /\ tried[h] = {}

LEMMA RoundStep == RoundInv /\ [Next]_vars => RoundInv'
<1> SUFFICES ASSUME RoundInv, [Next]_vars PROVE RoundInv'
  OBVIOUS
<1> USE ProxyAssumption
<1>0. 0 \in Resolvers /\ \A n \in Nat : n % Upstreams \in Resolvers
  BY ModRange DEF Resolvers
<1>1. ASSUME NEW h \in Handlers, Ends(h), UNCHANGED next PROVE RoundInv'
  BY <1>0, <1>1 DEF Ends, Goto, RoundInv, UdpSteps
<1>2. ASSUME NEW h \in UdpHandlers, UdpSpawns(h) PROVE RoundInv'
  BY <1>2 DEF UdpSpawns, RoundInv, exchange, UdpSteps, Handlers
<1>3. ASSUME NEW h \in TcpHandlers, TcpSpawns(h) \/ (\E q \in Queries : TcpRead(h, q))
      PROVE  RoundInv'
  BY <1>3 DEF TcpSpawns, TcpRead, Goto, RoundInv, exchange, UdpSteps, TcpSteps, Handlers
<1>4. ASSUME NEW h \in TcpHandlers, TcpWrite(h) PROVE RoundInv'
  BY <1>0, <1>4 DEF TcpWrite, Goto, RoundInv, TcpSteps, Handlers
<1>5. ASSUME NEW h \in Handlers, Relay(h) PROVE RoundInv'
  <2>1. CASE h \in UdpHandlers
    <3>1. turn[h] = 0 /\ tried[h] = {}
      BY <1>5, <2>1 DEF Relay, RoundInv
    <3>2. Round(first'[h], turn[h]) = {}
      BY <3>1, RoundEmpty
    <3>3. /\ pc' = [pc EXCEPT ![h] = "exchange"]
          /\ first' = [first EXCEPT ![h] = next % Upstreams]
          /\ next % Upstreams \in Resolvers
          /\ UNCHANGED <<next, turn, tried>>
      BY <1>0, <1>5, <2>1 DEF Relay, Goto, RoundInv
    <3> QED
      BY <3>1, <3>2, <3>3 DEF RoundInv, UdpSteps, Handlers
  <2>2. CASE h \notin UdpHandlers
    BY <1>5, <2>2 DEF Relay, Goto, RoundInv, TcpSteps, Handlers
  <2> QED
    BY <2>1, <2>2
<1>6. ASSUME NEW h \in Handlers, Dial(h) PROVE RoundInv'
  <2> DEFINE f == ((next' - 1) % CounterSize) % Upstreams
  <2>1. next' \in Nat /\ f \in Resolvers
    <3>1. next' = (next + 1) % CounterSize /\ next + 1 \in Nat
      BY <1>6 DEF Dial, RoundInv
    <3>2. \A n \in Int : n % CounterSize \in Nat
      BY ModRange
    <3>3. next' \in Nat /\ next' - 1 \in Int
      BY <3>1, <3>2
    <3>4. (next' - 1) % CounterSize \in Nat
      BY <3>2, <3>3
    <3> QED
      BY <1>0, <3>3, <3>4
  <2>2. /\ pc' = [pc EXCEPT ![h] = "exchange"]
        /\ first' = [first EXCEPT ![h] = f]
        /\ UNCHANGED <<turn, tried>>
    BY <1>6 DEF Dial, Goto
  <2>3. h \in UdpHandlers => turn[h] = 0 /\ tried[h] = {}
    BY <1>6 DEF Dial, RoundInv
  <2>4. Round(f, 0) = {}
    BY RoundEmpty
  <2> HIDE DEF f
  <2> QED
    BY <2>1, <2>2, <2>3, <2>4 DEF RoundInv, UdpSteps, Handlers
<1>7. ASSUME NEW h \in Handlers, Answered(h) \/ GiveUp(h) PROVE RoundInv'
  <2>1. CASE Ends(h)
    BY <1>1, <1>7, <2>1 DEF Answered, GiveUp
  <2>2. CASE h \notin UdpHandlers /\ ~Ends(h)
    BY <1>7, <2>2 DEF Answered, GiveUp, Goto, RoundInv, exchange, TcpSteps, Handlers
  <2>3. CASE h \in UdpHandlers /\ ~Ends(h)
    <3>1. /\ pc[h] = "exchange" /\ ~LastTurn(h)
          /\ turn' = [turn EXCEPT ![h] = @ + 1]
          /\ tried' = [tried EXCEPT ![h] = @ \cup {Asked(h)}]
          /\ UNCHANGED <<pc, first, next>>
      BY <1>7, <2>3 DEF Answered, GiveUp
    <3>2. turn[h] \in Nat /\ turn[h] + 1 \in Resolvers
      BY <3>1 DEF LastTurn, RoundInv, Resolvers, Handlers
    <3>3. Round(first[h], turn[h] + 1) = Round(first[h], turn[h]) \cup {Asked(h)}
      BY <3>2, RoundGrows DEF Asks, Asked
    <3>4. Asked(h) \in Resolvers
      BY <1>0, <3>2 DEF Asked, RoundInv, Resolvers
    <3> QED
      BY <2>3, <3>1, <3>2, <3>3, <3>4 DEF RoundInv, Handlers
  <2> QED
    BY <2>1, <2>2, <2>3
<1>8. ASSUME UNCHANGED <<next, pc, turn, first, tried>> PROVE RoundInv'
  BY <1>8 DEF RoundInv
<1>9. ASSUME NEW h \in Handlers, Step(h) \/ Answered(h) PROVE RoundInv'
  BY <1>1, <1>5, <1>6, <1>7, <1>9 DEF Step, Drop
<1>10. ASSUME NEW h \in TcpHandlers, TcpClientLeaves(h) PROVE RoundInv'
  BY <1>1, <1>10 DEF TcpClientLeaves, Handlers
<1> QED
  BY <1>2, <1>3, <1>4, <1>8, <1>9, <1>10
     DEF Next, Loops, Start, UdpReads, TcpAccepts, UdpLoopEnds, TcpLoopEnds, SetBlacklist,
         Close, CloseReturns, exchange, vars

\* A datagram is given up only when every resolver was asked, for any number of
\* resolvers and any counter.
THEOREM AllAsked == Spec => GivesUpAfterAll
<1>1. Init => RoundInv
  BY ProxyAssumption DEF Init, RoundInv, UdpSteps, Resolvers, Handlers
<1>2. ASSUME RoundInv, NEW h \in UdpHandlers, GiveUp(h), pc'[h] = "idle"
      PROVE  tried[h] \cup {Asked(h)} = Resolvers
  <2>1. pc[h] = "exchange" /\ LastTurn(h)
    BY <1>2 DEF GiveUp, Ends
  <2>2. turn[h] = Upstreams - 1 /\ first[h] \in Resolvers
    BY <1>2, <2>1, ProxyAssumption DEF LastTurn, RoundInv, Resolvers, Handlers
  <2>3. Resolvers = (0 .. turn[h] - 1) \cup {turn[h]}
    BY <2>2, ProxyAssumption DEF Resolvers
  <2>4. tried[h] \cup {Asked(h)} = {Asks(first[h], i) : i \in Resolvers}
    BY <1>2, <2>1, <2>3 DEF RoundInv, Round, Asks, Asked
  <2> QED
    BY <2>2, <2>4, RoundCovers
<1>3. RoundInv =>
        [\A h \in UdpHandlers :
           GiveUp(h) /\ pc'[h] = "idle" => tried[h] \cup {Asked(h)} = Resolvers]_vars
  BY <1>2
<1> QED
  BY <1>1, <1>3, RoundStep, PTL DEF Spec, GivesUpAfterAll
-----------------------------------------------------------------------------

\* The types that the two invariants above do not have.
PlainTypes ==
  /\ udp \in {"off", "wait", "got", "done"} /\ tcp \in {"off", "wait", "got", "done"}
  /\ held \in Queries \cup {None}
  /\ query \in [Handlers -> Queries \cup {None}]
  /\ pc \in [Handlers -> UdpSteps \cup TcpSteps]
  /\ \A h \in UdpHandlers : pc[h] \in UdpSteps
  /\ \A h \in TcpHandlers : pc[h] \in TcpSteps
  /\ next \in 0 .. CounterSize - 1
  /\ blacklist \in Lists

LEMMA PlainStep == PlainTypes /\ [Next]_vars => PlainTypes'
<1> SUFFICES ASSUME PlainTypes, [Next]_vars PROVE PlainTypes'
  OBVIOUS
<1>0. /\ UdpHandlers \cap TcpHandlers = {} /\ Handlers = UdpHandlers \cup TcpHandlers
      /\ (next + 1) % CounterSize \in 0 .. CounterSize - 1
  BY ProxyAssumption, ModRange DEF PlainTypes, Handlers
<1> USE <1>0 DEF PlainTypes, UdpSteps, TcpSteps, Goto, server, exchange
<1>1. ASSUME NEW u \in BOOLEAN, NEW t \in BOOLEAN, Start(u, t) PROVE PlainTypes'
  BY <1>1 DEF Start
<1>2. ASSUME NEW q \in Queries, UdpReads(q) PROVE PlainTypes'
  BY <1>2 DEF UdpReads
<1>3. ASSUME NEW q \in Queries, NEW h \in TcpHandlers, TcpRead(h, q) PROVE PlainTypes'
  BY <1>3 DEF TcpRead
<1>4. CASE TcpAccepts
  BY <1>4 DEF TcpAccepts
<1>5. ASSUME NEW h \in UdpHandlers, UdpSpawns(h) PROVE PlainTypes'
  BY <1>5 DEF UdpSpawns
<1>6. ASSUME NEW h \in TcpHandlers, TcpSpawns(h) PROVE PlainTypes'
  BY <1>6 DEF TcpSpawns
<1>7. CASE UdpLoopEnds \/ TcpLoopEnds
  BY <1>7 DEF UdpLoopEnds, TcpLoopEnds
<1>8. ASSUME NEW h \in Handlers, Drop(h) PROVE PlainTypes'
  BY <1>8 DEF Drop, Ends
<1>9. ASSUME NEW h \in Handlers, Relay(h) PROVE PlainTypes'
  BY <1>9 DEF Relay
<1>10. ASSUME NEW h \in Handlers, Dial(h) PROVE PlainTypes'
  BY <1>10 DEF Dial
<1>11. ASSUME NEW h \in Handlers, GiveUp(h) PROVE PlainTypes'
  BY <1>11 DEF GiveUp, Ends
<1>12. ASSUME NEW h \in Handlers, Answered(h) PROVE PlainTypes'
  BY <1>12 DEF Answered, Ends
<1>13. ASSUME NEW h \in TcpHandlers, TcpWrite(h) \/ TcpClientLeaves(h) PROVE PlainTypes'
  BY <1>13 DEF TcpWrite, TcpClientLeaves, Ends
<1>14. ASSUME NEW l \in Lists, SetBlacklist(l) PROVE PlainTypes'
  BY <1>14 DEF SetBlacklist
<1>15. CASE Close \/ CloseReturns
  BY <1>15 DEF Close, CloseReturns
<1>16. CASE UNCHANGED vars
  BY <1>16 DEF vars
<1> QED
  BY <1>1, <1>2, <1>3, <1>4, <1>5, <1>6, <1>7, <1>8, <1>9, <1>10, <1>11, <1>12, <1>13, <1>14, <1>15, <1>16 DEF Next, Loops, Step

\* The group never counts more than the two loops and every handler.
LEMMA GroupBound == ASSUME GroupInv PROVE wg \in 0 .. 2 + Cardinality(Handlers)
<1>1. IsFiniteSet(Handlers) /\ IsFiniteSet({"udp", "tcp"}) /\ Cardinality({"udp", "tcp"}) = 2
  <2>1. IsFiniteSet({"udp"}) /\ Cardinality({"udp"}) = 1
    BY FS_Singleton
  <2>2. {"udp", "tcp"} = {"udp"} \cup {"tcp"} /\ "tcp" \notin {"udp"}
    OBVIOUS
  <2>3. IsFiniteSet({"udp"} \cup {"tcp"}) /\ Cardinality({"udp"} \cup {"tcp"}) = 1 + 1
    BY <2>1, <2>2, FS_AddElement
  <2> QED
    BY <2>2, <2>3, ProxyAssumption
<1> DEFINE All == {"udp", "tcp"} \cup Handlers
<1>2. IsFiniteSet(All) /\ Cardinality(All) <= 2 + Cardinality(Handlers)
  <2>1. {"udp", "tcp"} \cap Handlers = {}
    BY ProxyAssumption
  <2>2. IsFiniteSet(All)
        /\ Cardinality(All) = 2 + Cardinality(Handlers) - Cardinality({"udp", "tcp"} \cap Handlers)
    BY <1>1, FS_Union
  <2>3. Cardinality(Handlers) \in Nat
    BY <1>1, FS_CardinalityType
  <2> QED
    BY <2>1, <2>2, <2>3, FS_EmptySet
<1>3. Running \subseteq All
  BY DEF Running
<1>4. Cardinality(Running) <= Cardinality(All) /\ Cardinality(Running) \in Nat
  BY <1>2, <1>3, FS_Subset, FS_CardinalityType, RunningFinite
<1>5. Cardinality(All) \in Nat /\ Cardinality(Handlers) \in Nat
  BY <1>1, <1>2, FS_CardinalityType
<1>6. wg = Cardinality(Running)
  BY DEF GroupInv
<1> HIDE DEF All
<1> QED
  BY <1>2, <1>4, <1>5, <1>6

\* Every reachable state of the proxy is well typed; the wait group stays between
\* zero and the number of its goroutines.
THEOREM TypeCorrect == Spec => []TypeOK
<1>1. Init => PlainTypes /\ GroupInv /\ RoundInv
  <2> SUFFICES ASSUME Init PROVE PlainTypes /\ GroupInv /\ RoundInv
    OBVIOUS
  <2>1. Running = {}
    BY DEF Init, Running
  <2>2. GroupInv
    BY <2>1, FS_EmptySet DEF Init, GroupInv, UdpSteps
  <2>3. RoundInv
    BY ProxyAssumption DEF Init, RoundInv, UdpSteps, Resolvers, Handlers
  <2>4. next \in 0 .. CounterSize - 1
    BY ProxyAssumption DEF Init
  <2> QED
    BY <2>2, <2>3, <2>4 DEF Init, PlainTypes, UdpSteps, TcpSteps, Handlers
<1>2. PlainTypes /\ GroupInv /\ RoundInv => TypeOK
  <2> SUFFICES ASSUME PlainTypes, GroupInv, RoundInv PROVE TypeOK
    OBVIOUS
  <2>1. Resolvers \subseteq 0 .. Upstreams
    BY ProxyAssumption DEF Resolvers
  <2> QED
    BY <2>1, GroupBound DEF PlainTypes, GroupInv, RoundInv, TypeOK
<1>3. GroupInv /\ [Next]_vars => GroupInv'
  BY DrainStep
<1> QED
  BY <1>1, <1>2, <1>3, PlainStep, RoundStep, PTL DEF Spec

=============================================================================
