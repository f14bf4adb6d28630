--------------------------- MODULE NetstackProofs ---------------------------
(***************************************************************************)
(* Proofs about Netstack, for any number of flows, any addresses and any   *)
(* limits: the types, the bound on what a limited flow moves in any span   *)
(* of time, and that a relay that ends by itself has moved everything.     *)
(***************************************************************************)
EXTENDS Netstack, TLAPS

USE NetstackAssumption

-----------------------------------------------------------------------------
(* Limits *)

\* The limits in force are those of peers that have one.
ShapingOK ==
  \A i \in DOMAIN shaping :
    /\ shaping[i].up \in Nat /\ shaping[i].down \in Nat
    /\ shaping[i].up > 0 \/ shaping[i].down > 0

LEMMA BuiltShaping ==
  ASSUME NEW peers \in Specs, shaping' = BuildNSShaping(peers)
  PROVE  ShapingOK'
BY DEF BuildNSShaping, Limited, ShapingOK

LEMMA ShapingForType == ASSUME ShapingOK, NEW a PROVE ShapingFor(a) \in [Dirs -> Nat]
<1> DEFINE match == {i \in DOMAIN shaping : Covers(shaping[i].prefix, a)}
           best  == {i \in match : \A j \in match :
                       \/ Len(shaping[j].prefix) < Len(shaping[i].prefix)
                       \/ Len(shaping[j].prefix) = Len(shaping[i].prefix) /\ i <= j}
           pick  == CHOOSE i \in best : TRUE
<1>1. CASE best = {}
  <2>1. ShapingFor(a) = [up |-> 0, down |-> 0]
    BY <1>1 DEF ShapingFor
  <2> QED
    BY <2>1 DEF Dirs
<1>2. CASE best # {}
  <2>1. ShapingFor(a) = [up |-> shaping[pick].up, down |-> shaping[pick].down]
    BY <1>2 DEF ShapingFor
  <2>2. pick \in best
    BY <1>2
  <2>3. pick \in DOMAIN shaping
    BY <2>2
  <2> HIDE DEF pick
  <2> QED
    BY <2>1, <2>3 DEF ShapingOK, Dirs
<1> QED
  BY <1>1, <1>2

LEMMA BurstType ==
  ASSUME NEW l \in Nat
  PROVE  Burst(l) \in Nat /\ (l > 0 => \A n \in 0 .. MaxRead : n <= Burst(l))
BY DEF Burst

LEMMA NextAge == ASSUME NEW l \in Nat, NEW a \in Nat PROVE l * (a + 1) = l * a + l
BY Z3

LEMMA NoAge == ASSUME NEW l \in Nat PROVE l * 0 = 0
BY Z3

LEMMA ProductType == ASSUME NEW l \in Nat, NEW a \in Nat PROVE l * a \in Nat
BY Z3

-----------------------------------------------------------------------------
(* The inductive invariant *)

Early == {"idle", "forward", "list", "shape", "dial", "endpoint"}

Types ==
  /\ tun \in {"open", "closed"}
  /\ forwarding \in BOOLEAN
  /\ ShapingOK
  /\ step \in [Flows -> Steps] /\ kind \in [Flows -> Kinds] /\ dst \in [Flows -> Hosts]
  /\ open \in [Flows -> SUBSET {"client", "remote"}]
  /\ broken \in [Flows -> SUBSET {"client", "remote"}]
  /\ limit \in [Flows -> [Dirs -> Nat]]
  /\ pipe \in [Flows -> [Dirs -> Pipe]]
  /\ ticks \in 0 .. MaxTicks - 1

\* Before its relay a flow has moved nothing; a relay of a connection has both
\* sockets.
StepsOK ==
  \A f \in Flows :
    /\ step[f] \in Early => pipe[f] = [d \in Dirs |-> Idle]
    /\ step[f] = "relay" /\ kind[f] = "tcp" => open[f] = {"client", "remote"}

\* What holds of the direction d of flow f when it is in state p: the tokens
\* left and what was let through came out of one bucket and the ticks of the
\* span; what was read fits the bucket; a copier that is done without an abort
\* has moved everything.
PipeOK(f, d, p) ==
  /\ p.waiting <= MaxWaiting[d]
  /\ p.tokens <= Burst(limit[f][d])
  /\ limit[f][d] > 0 => /\ p.paced + p.tokens <= Burst(limit[f][d]) + limit[f][d] * ticks
                        /\ p.hand <= Burst(limit[f][d])
  /\ p.copier = "pace" => limit[f][d] > 0
  /\ p.copier = "read" => p.hand = 0
  /\ kind[f] = "tcp" /\ step[f] = "ended" => p.copier \in {"off", "done"}
  /\ kind[f] = "tcp" /\ broken[f] = {} /\ p.copier = "done" =>
       p.waiting = 0 /\ p.hand = 0 /\ p.ended

PipesOK == \A f \in Flows, d \in Dirs : PipeOK(f, d, pipe[f][d])

Inv == Types /\ StepsOK /\ PipesOK

LEMMA IdlePipe == Idle \in Pipe
BY DEF Idle, Pipe

\* What a direction becomes, field by field.
AtStart(t)        == [Idle EXCEPT !.copier = "read", !.tokens = t]
AfterRead(x, n, c) == [x EXCEPT !.waiting = @ - n, !.hand = n, !.copier = c]
AfterWrite(x, b)  == [x EXCEPT !.copier = "read", !.hand = 0, !.full = b]
AfterTick(x, t, h) == [x EXCEPT !.tokens = t, !.paced = h]

LEMMA Started ==
  ASSUME NEW t \in Nat
  PROVE  /\ AtStart(t) \in Pipe /\ AtStart(t).copier = "read" /\ AtStart(t).tokens = t
         /\ AtStart(t).waiting = 0 /\ AtStart(t).hand = 0 /\ AtStart(t).paced = 0
<1>1. Idle.waiting = 0 /\ Idle.hand = 0 /\ Idle.paced = 0
  BY DEF Idle
<1>2. Idle \in Pipe
  BY IdlePipe
<1> QED
  BY <1>1, <1>2 DEF Pipe, AtStart

LEMMA HasRead ==
  ASSUME NEW x \in Pipe, NEW n \in 1 .. MaxRead, n <= x.waiting, NEW c \in {"pace", "write"}
  PROVE  /\ AfterRead(x, n, c) \in Pipe /\ AfterRead(x, n, c).copier = c
         /\ AfterRead(x, n, c).hand = n /\ AfterRead(x, n, c).tokens = x.tokens
         /\ AfterRead(x, n, c).paced = x.paced
         /\ AfterRead(x, n, c).waiting \in Nat /\ AfterRead(x, n, c).waiting <= x.waiting
<1>1. x.waiting \in Nat /\ x.waiting - n \in Nat /\ n \in 0 .. MaxRead
  BY DEF Pipe
<1>2. /\ AfterRead(x, n, c).waiting = x.waiting - n /\ AfterRead(x, n, c).hand = n
      /\ AfterRead(x, n, c).copier = c
  BY DEF Pipe, AfterRead
<1>3. AfterRead(x, n, c).tokens = x.tokens /\ AfterRead(x, n, c).paced = x.paced
  BY DEF Pipe, AfterRead
<1>4. AfterRead(x, n, c) \in Pipe
  BY <1>1 DEF Pipe, AfterRead
<1> QED
  BY <1>1, <1>2, <1>3, <1>4

LEMMA HasPaced ==
  ASSUME NEW x \in Pipe, x.hand <= x.tokens
  PROVE  /\ Paced(x) \in Pipe /\ Paced(x).copier = "write" /\ Paced(x).hand = x.hand
         /\ Paced(x).waiting = x.waiting
         /\ Paced(x).tokens \in Nat /\ Paced(x).tokens <= x.tokens
         /\ Paced(x).paced + Paced(x).tokens = x.paced + x.tokens
<1>1. /\ x.tokens \in Nat /\ x.hand \in 0 .. MaxRead /\ x.paced \in Nat
      /\ x.tokens - x.hand \in Nat /\ x.paced + x.hand \in Nat
  BY DEF Pipe
<1>2. Paced(x).copier = "write" /\ Paced(x).hand = x.hand /\ Paced(x).waiting = x.waiting
  BY DEF Pipe, Paced
<1>3. Paced(x).paced = x.paced + x.hand /\ Paced(x).tokens = x.tokens - x.hand
  BY DEF Pipe, Paced
<1>4. Paced(x) \in Pipe
  BY <1>1 DEF Pipe, Paced
<1> QED
  BY <1>1, <1>2, <1>3, <1>4

LEMMA HasWritten ==
  ASSUME NEW x \in Pipe, NEW b \in BOOLEAN
  PROVE  /\ AfterWrite(x, b) \in Pipe /\ AfterWrite(x, b).copier = "read"
         /\ AfterWrite(x, b).hand = 0 /\ AfterWrite(x, b).tokens = x.tokens
         /\ AfterWrite(x, b).waiting = x.waiting /\ AfterWrite(x, b).paced = x.paced
<1>1. /\ AfterWrite(x, b).copier = "read"
      /\ AfterWrite(x, b).hand = 0 /\ AfterWrite(x, b).tokens = x.tokens
      /\ AfterWrite(x, b).waiting = x.waiting /\ AfterWrite(x, b).paced = x.paced
  BY DEF Pipe, AfterWrite
<1>2. 0 \in 0 .. MaxRead
  OBVIOUS
<1>3. AfterWrite(x, TRUE) \in Pipe
  BY <1>2 DEF Pipe, AfterWrite
<1>4. AfterWrite(x, FALSE) \in Pipe
  BY <1>2 DEF Pipe, AfterWrite
<1>5. CASE b = TRUE
  BY <1>1, <1>3, <1>5
<1>6. CASE b = FALSE
  BY <1>1, <1>4, <1>6
<1> QED
  BY <1>5, <1>6

LEMMA IdleTicks == AfterTick(Idle, 0, 0) = Idle
<1>1. Idle.tokens = 0 /\ Idle.paced = 0
  BY DEF Idle
<1>2. Idle \in Pipe
  BY IdlePipe
<1> HIDE DEF Idle
<1> QED
  BY <1>1, <1>2 DEF AfterTick, Pipe

LEMMA PipeFields ==
  ASSUME NEW x \in Pipe
  PROVE  /\ x.waiting \in Nat /\ x.hand \in 0 .. MaxRead /\ x.tokens \in Nat
         /\ x.paced \in Nat
BY DEF Pipe

LEMMA InvInit == Init => Inv
<1> SUFFICES ASSUME Init PROVE Inv
  OBVIOUS
<1>1. Types
  <2>1. ShapingOK
    <3>1. PICK peers \in Specs : shaping = BuildNSShaping(peers)
      BY DEF Init
    <3> QED
      BY <3>1 DEF BuildNSShaping, Limited, ShapingOK
  <2> QED
    BY <2>1, IdlePipe DEF Init, Types, Steps, Kinds, AnyHost
<1>2. StepsOK
  BY DEF Init, StepsOK, Early
<1>3. ASSUME NEW f \in Flows, NEW d \in Dirs PROVE PipeOK(f, d, pipe[f][d])
  <2>1. pipe[f][d] = Idle /\ limit[f][d] = 0 /\ step[f] = "idle"
    BY DEF Init
  <2>2. Burst(0) \in Nat /\ MaxWaiting[d] \in Nat
    BY BurstType
  <2> QED
    BY <2>1, <2>2 DEF PipeOK, Idle
<1> QED
  BY <1>1, <1>2, <1>3 DEF Inv, PipesOK

-----------------------------------------------------------------------------
(* Steps *)

\* Nothing a direction depends on changes.
LEMMA SamePipes ==
  ASSUME Inv, UNCHANGED <<limit, pipe, ticks, kind>>,
         \A f \in Flows : /\ step'[f] = "ended" => step[f] \in Early \cup {"ended"}
                          /\ broken[f] \subseteq broken'[f]
  PROVE  PipesOK'
<1> SUFFICES ASSUME NEW f \in Flows, NEW d \in Dirs PROVE PipeOK(f, d, pipe[f][d])'
  BY DEF PipesOK
<1>1. PipeOK(f, d, pipe[f][d])
  BY DEF Inv, PipesOK
<1>2. CASE step[f] \in Early
  <2>1. pipe[f][d] = Idle
    BY <1>2 DEF Inv, StepsOK
  <2> QED
    BY <1>1, <2>1 DEF PipeOK, Idle
<1>3. CASE step[f] \notin Early
  BY <1>1, <1>3 DEF PipeOK
<1> QED
  BY <1>2, <1>3

\* One direction of a flow that is past its beginning moves to p.
LEMMA OnePipe ==
  ASSUME Inv, NEW f \in Flows, NEW d \in Dirs, NEW p \in Pipe, Piped(f, d, p),
         step[f] \notin Early, PipeOK(f, d, p),
         UNCHANGED <<settings, step, kind, dst, open, broken, limit, ticks>>
  PROVE  Inv'
<1>1. pipe' \in [Flows -> [Dirs -> Pipe]]
  BY DEF Inv, Types, Piped
<1>2. \A g \in Flows, e \in Dirs : pipe'[g][e] = IF g = f /\ e = d THEN p ELSE pipe[g][e]
  BY DEF Inv, Types, Piped
<1>3. \A g \in Flows : g # f => pipe'[g] = pipe[g]
  BY DEF Inv, Types, Piped
<1>4. Types'
  BY <1>1 DEF Inv, Types, ShapingOK, settings
<1>5. StepsOK'
  BY <1>3 DEF Inv, StepsOK
<1>6. \A g \in Flows, e \in Dirs : PipeOK(g, e, pipe'[g][e])
  BY <1>2 DEF Inv, PipesOK
<1>7. PipesOK'
  BY <1>6 DEF PipesOK, PipeOK
<1> QED
  BY <1>4, <1>5, <1>7 DEF Inv

LEMMA InvStep == Inv /\ [Next]_vars => Inv'
<1> SUFFICES ASSUME Inv, [Next]_vars PROVE Inv'
  OBVIOUS
<1> USE DEF settings
<1>1. ASSUME \/ Configure \/ CloseTun \/ UNCHANGED vars
             \/ \E s \in Specs : ApplyShaping(s)
      PROVE  Inv'
  <2>1. /\ UNCHANGED <<step, kind, dst, open, limit, pipe, ticks>>
        /\ \A f \in Flows : broken[f] \subseteq broken'[f]
    BY <1>1 DEF Configure, CloseTun, ApplyShaping, vars, Inv, Types
  <2>2. ShapingOK'
    BY <1>1, BuiltShaping
       DEF Configure, CloseTun, ApplyShaping, vars, Inv, Types, ShapingOK
  <2>3. Types'
    BY <1>1, <2>2 DEF Configure, CloseTun, ApplyShaping, vars, Inv, Types
  <2>4. StepsOK'
    BY <2>1 DEF Inv, StepsOK
  <2> QED
    BY <2>1, <2>3, <2>4, SamePipes DEF Inv, Early
<1>2. ASSUME NEW f \in Flows, NEW k \in Kinds, NEW h \in Hosts, Arrives(f, k, h) PROVE Inv'
  <2>1. /\ step[f] = "idle" /\ step' = [step EXCEPT ![f] = "forward"]
        /\ kind' = [kind EXCEPT ![f] = k] /\ dst' = [dst EXCEPT ![f] = h]
        /\ UNCHANGED <<settings, open, broken, limit, pipe, ticks>>
    BY <1>2 DEF Arrives, Goto
  <2>2. Types'
    BY <2>1 DEF Inv, Types, ShapingOK, Steps
  <2>3. StepsOK'
    BY <2>1 DEF Inv, Types, StepsOK, Early
  <2>4. \A d \in Dirs : pipe[f][d] = Idle
    BY <2>1 DEF Inv, StepsOK, Early
  <2>5. ASSUME NEW g \in Flows, NEW d \in Dirs PROVE PipeOK(g, d, pipe[g][d])'
    BY <2>1, <2>4, <2>5 DEF Inv, Types, PipesOK, PipeOK, Idle
  <2> QED
    BY <2>2, <2>3, <2>5 DEF Inv, PipesOK
<1>3. ASSUME NEW f \in Flows, CheckForwarding(f) \/ CheckList(f) \/ Dial(f) PROVE Inv'
  <2>1. /\ step[f] \in Early /\ step'[f] \in Early \cup {"ended"}
        /\ step' = [step EXCEPT ![f] = step'[f]]
        /\ \A g \in Flows : g # f => open'[g] = open[g]
        /\ UNCHANGED <<settings, kind, broken, limit, pipe, ticks>>
    BY <1>3 DEF CheckForwarding, CheckList, Dial, Refused, Goto, Early, Inv, Types
  <2>2. open' \in [Flows -> SUBSET {"client", "remote"}] /\ dst' \in [Flows -> Hosts]
    <3>1. AnyHost \in Hosts
      BY DEF AnyHost
    <3>2. /\ open' \in {open, [open EXCEPT ![f] = {}], [open EXCEPT ![f] = {"remote"}]}
          /\ dst' \in {dst, [dst EXCEPT ![f] = AnyHost]}
      BY <1>3 DEF CheckForwarding, CheckList, Dial, Refused
    <3>3. {"remote"} \in SUBSET {"client", "remote"} /\ {} \in SUBSET {"client", "remote"}
      OBVIOUS
    <3>4. [open EXCEPT ![f] = {}] \in [Flows -> SUBSET {"client", "remote"}]
      BY <3>3 DEF Inv, Types
    <3>5. [open EXCEPT ![f] = {"remote"}] \in [Flows -> SUBSET {"client", "remote"}]
      BY <3>3 DEF Inv, Types
    <3>6. [dst EXCEPT ![f] = AnyHost] \in [Flows -> Hosts]
      BY <3>1 DEF Inv, Types
    <3> QED
      BY <3>2, <3>4, <3>5, <3>6 DEF Inv, Types
  <2>3. Types'
    BY <2>1, <2>2 DEF Inv, Types, ShapingOK, Steps, Early
  <2>4. StepsOK'
    BY <2>1 DEF Inv, Types, StepsOK, Early
  <2> QED
    BY <2>1, <2>3, <2>4, SamePipes DEF Inv, Types
<1>4. ASSUME NEW f \in Flows, Shape(f) PROVE Inv'
  <2>1. /\ step[f] = "shape" /\ step' = [step EXCEPT ![f] = step'[f]]
        /\ step'[f] \in {"dial", "endpoint"}
        /\ limit' = [limit EXCEPT ![f] = ShapingFor(Source[f])]
        /\ UNCHANGED <<settings, kind, dst, open, broken, pipe, ticks>>
    BY <1>4 DEF Shape, Goto, Inv, Types
  <2>2. limit' \in [Flows -> [Dirs -> Nat]]
    BY <2>1, ShapingForType DEF Inv, Types
  <2>3. Types'
    BY <2>1, <2>2 DEF Inv, Types, ShapingOK, Steps
  <2>4. StepsOK'
    BY <2>1 DEF Inv, Types, StepsOK, Early
  <2>5. ASSUME NEW d \in Dirs PROVE PipeOK(f, d, pipe[f][d])'
    <3>1. pipe[f][d] = Idle
      BY <2>1 DEF Inv, StepsOK, Early
    <3>2. limit'[f][d] \in Nat
      BY <2>2
    <3>3. /\ Burst(limit'[f][d]) \in Nat /\ limit'[f][d] * ticks \in Nat
          /\ MaxWaiting[d] \in Nat
      BY <3>2, BurstType, ProductType DEF Inv, Types
    <3>4. step'[f] # "ended" /\ pipe'[f][d] = Idle /\ ticks' = ticks
      BY <2>1, <3>1
    <3>5. Burst(limit[f][d])' = Burst(limit'[f][d])
      BY DEF Burst
    <3> QED
      BY <3>3, <3>4, <3>5 DEF PipeOK, Idle
  <2>6. ASSUME NEW g \in Flows, g # f, NEW d \in Dirs PROVE PipeOK(g, d, pipe[g][d])'
    <3>1. PipeOK(g, d, pipe[g][d])
      BY DEF Inv, PipesOK
    <3>2. limit'[g] = limit[g] /\ step'[g] = step[g]
      BY <2>1, <2>6 DEF Inv, Types
    <3> QED
      BY <2>1, <3>1, <3>2 DEF PipeOK, Burst
  <2> QED
    BY <2>3, <2>4, <2>5, <2>6 DEF Inv, PipesOK
<1>5. ASSUME NEW f \in Flows, Endpoint(f) PROVE Inv'
  <2>1. CASE Refused(f) /\ UNCHANGED pipe
    <3>1. /\ step[f] \in Early /\ step' = [step EXCEPT ![f] = "ended"]
          /\ open' = [open EXCEPT ![f] = {}] /\ dst' \in [Flows -> Hosts]
          /\ UNCHANGED <<settings, kind, broken, limit, pipe, ticks>>
      BY <1>5, <2>1 DEF Endpoint, Refused, Goto, Early, AnyHost, Inv, Types
    <3>2. Types'
      BY <3>1 DEF Inv, Types, ShapingOK, Steps
    <3>3. StepsOK'
      BY <3>1 DEF Inv, Types, StepsOK, Early
    <3> QED
      BY <3>1, <3>2, <3>3, SamePipes DEF Inv, Types
  <2>2. CASE ~(Refused(f) /\ UNCHANGED pipe)
    <3> DEFINE start(d) == [Idle EXCEPT !.copier = "read", !.tokens = Burst(limit[f][d])]
    <3>1. /\ step[f] = "endpoint" /\ step' = [step EXCEPT ![f] = "relay"]
          /\ open' = [open EXCEPT ![f] = {"client", "remote"}]
          /\ pipe' = [pipe EXCEPT ![f] = [d \in Dirs |-> start(d)]]
          /\ UNCHANGED <<settings, kind, dst, broken, limit, ticks>>
      BY <1>5, <2>2 DEF Endpoint, Goto
    <3>2. \A d \in Dirs : limit[f][d] \in Nat /\ Burst(limit[f][d]) \in Nat
      BY BurstType DEF Inv, Types
    <3>3. \A d \in Dirs :
            /\ start(d) \in Pipe /\ start(d).waiting = 0 /\ start(d).hand = 0
            /\ start(d).copier = "read" /\ start(d).tokens = Burst(limit[f][d])
            /\ start(d).paced = 0
      <4>1. \A d \in Dirs : start(d) = AtStart(Burst(limit[f][d]))
        BY DEF AtStart
      <4> HIDE DEF start
      <4> QED
        BY <3>2, <4>1, Started
    <3> HIDE DEF start
    <3>4. pipe' \in [Flows -> [Dirs -> Pipe]]
      BY <3>1, <3>3 DEF Inv, Types
    <3>5. Types'
      BY <3>1, <3>4 DEF Inv, Types, ShapingOK, Steps
    <3>6. StepsOK'
      BY <3>1 DEF Inv, Types, StepsOK, Early
    <3>7. ASSUME NEW d \in Dirs PROVE PipeOK(f, d, pipe[f][d])'
      <4>1. pipe'[f][d] = start(d) /\ step'[f] = "relay"
        BY <3>1 DEF Inv, Types
      <4>2. limit[f][d] * ticks \in Nat /\ MaxWaiting[d] \in Nat
        BY <3>2, ProductType DEF Inv, Types
      <4>3. UNCHANGED <<limit, kind, broken, ticks>>
        BY <3>1
      <4> QED
        BY <3>2, <3>3, <4>1, <4>2, <4>3 DEF PipeOK
    <3>8. ASSUME NEW g \in Flows, g # f, NEW d \in Dirs PROVE PipeOK(g, d, pipe[g][d])'
      BY <3>1, <3>8 DEF Inv, Types, PipesOK, PipeOK
    <3> QED
      BY <3>5, <3>6, <3>7, <3>8 DEF Inv, PipesOK
  <2> QED
    BY <2>1, <2>2
<1>6. ASSUME NEW f \in Flows, RelayReturns(f) PROVE Inv'
  <2>1. /\ kind[f] = "tcp" /\ step[f] = "relay" /\ BothDone(f)
        /\ step' = [step EXCEPT ![f] = "ended"] /\ open' = [open EXCEPT ![f] = {}]
        /\ UNCHANGED <<settings, kind, dst, broken, limit, pipe, ticks>>
    BY <1>6 DEF RelayReturns, Goto
  <2>2. Types'
    BY <2>1 DEF Inv, Types, ShapingOK, Steps
  <2>3. StepsOK'
    BY <2>1 DEF Inv, Types, StepsOK, Early
  <2>4. ASSUME NEW g \in Flows, NEW d \in Dirs PROVE PipeOK(g, d, pipe[g][d])'
    BY <2>1, <2>4 DEF Inv, Types, PipesOK, PipeOK, BothDone
  <2> QED
    BY <2>2, <2>3, <2>4 DEF Inv, PipesOK
<1>7. ASSUME NEW f \in Flows, NEW d \in Dirs, CopyRead(f, d) PROVE Inv'
  <2> DEFINE o == pipe[f][d]
             c == IF limit[f][d] > 0 THEN "pace" ELSE "write"
             p(n) == [o EXCEPT !.waiting = @ - n, !.hand = n, !.copier = c]
  <2>1. PICK n \in Reads(f, d) : Piped(f, d, p(n))
    BY <1>7 DEF CopyRead
  <2>2. o.copier = "read" /\ UNCHANGED <<settings, step, kind, dst, open, broken, limit, ticks>>
    BY <1>7 DEF CopyRead
  <2>3. o \in Pipe /\ PipeOK(f, d, o) /\ limit[f][d] \in Nat /\ MaxWaiting[d] \in Nat
    BY DEF Inv, Types, PipesOK
  <2>4. step[f] \notin Early
    BY <2>2 DEF Inv, StepsOK, Idle
  <2>5. n \in 1 .. MaxRead /\ n <= o.waiting
    BY DEF Reads
  <2>6. /\ p(n) \in Pipe /\ p(n).copier = c /\ p(n).hand = n /\ p(n).tokens = o.tokens
        /\ p(n).paced = o.paced /\ p(n).waiting \in Nat /\ p(n).waiting <= o.waiting
    <3>1. p(n) = AfterRead(o, n, c) /\ c \in {"pace", "write"}
      BY DEF AfterRead
    <3> HIDE DEF p, o, c
    <3> QED
      BY <2>3, <2>5, <3>1, HasRead
  <2> HIDE DEF p
  <2>7. PipeOK(f, d, p(n))
    <3>1. limit[f][d] > 0 => n <= Burst(limit[f][d])
      BY <2>3, <2>5, BurstType
    <3>2. kind[f] = "tcp" => step[f] # "ended"
      BY <2>2, <2>3 DEF PipeOK
    <3>3. o.waiting \in Nat
      BY <2>3, PipeFields
    <3> QED
      BY <2>3, <2>6, <3>1, <3>2, <3>3 DEF PipeOK
  <2> QED
    BY <2>1, <2>2, <2>4, <2>6, <2>7, OnePipe
<1>8. ASSUME NEW f \in Flows, NEW d \in Dirs, CopyPace(f, d) PROVE Inv'
  <2> DEFINE o == pipe[f][d]
             p == Paced(o)
  <2>1. /\ o.copier = "pace" /\ o.hand <= o.tokens /\ Piped(f, d, p)
        /\ UNCHANGED <<settings, step, kind, dst, open, broken, limit, ticks>>
    BY <1>8 DEF CopyPace
  <2>2. o \in Pipe /\ PipeOK(f, d, o) /\ limit[f][d] \in Nat
    BY DEF Inv, Types, PipesOK
  <2>3. step[f] \notin Early
    BY <2>1 DEF Inv, StepsOK, Idle
  <2>4. /\ p \in Pipe /\ p.copier = "write" /\ p.hand = o.hand /\ p.waiting = o.waiting
        /\ p.tokens \in Nat /\ p.tokens <= o.tokens
        /\ p.paced + p.tokens = o.paced + o.tokens
    BY <2>1, <2>2, HasPaced
  <2> HIDE DEF p
  <2>5. PipeOK(f, d, p)
    <3>1. kind[f] = "tcp" => step[f] # "ended"
      BY <2>1, <2>2 DEF PipeOK
    <3>2. Burst(limit[f][d]) \in Nat /\ o.tokens \in Nat
      BY <2>2, BurstType, PipeFields
    <3>3. p.tokens <= Burst(limit[f][d])
      BY <2>2, <2>4, <3>2 DEF PipeOK
    <3> QED
      BY <2>2, <2>4, <3>1, <3>3 DEF PipeOK
  <2> QED
    BY <2>1, <2>3, <2>4, <2>5, OnePipe
<1>9. ASSUME NEW f \in Flows, NEW d \in Dirs, CopyWrite(f, d) PROVE Inv'
  <2> DEFINE o == pipe[f][d]
             p(last) == [o EXCEPT !.copier = "read", !.hand = 0, !.full = last]
  <2>1. PICK last \in BOOLEAN : Piped(f, d, p(last))
    BY <1>9 DEF CopyWrite
  <2>2. o.copier = "write" /\ UNCHANGED <<settings, step, kind, dst, open, broken, limit, ticks>>
    BY <1>9 DEF CopyWrite
  <2>3. /\ o \in Pipe /\ PipeOK(f, d, o) /\ limit[f][d] \in Nat
    BY DEF Inv, Types, PipesOK
  <2>4. step[f] \notin Early
    BY <2>2 DEF Inv, StepsOK, Idle
  <2>5. /\ p(last) \in Pipe /\ p(last).copier = "read" /\ p(last).tokens = o.tokens
        /\ p(last).waiting = o.waiting /\ p(last).hand = 0 /\ p(last).paced = o.paced
    <3>1. p(last) = AfterWrite(o, last)
      BY DEF AfterWrite
    <3> HIDE DEF p, o
    <3> QED
      BY <2>3, <3>1, HasWritten
  <2> HIDE DEF p
  <2>6. PipeOK(f, d, p(last))
    <3>1. kind[f] = "tcp" => step[f] # "ended"
      BY <2>2, <2>3 DEF PipeOK
    <3>2. limit[f][d] > 0 => 0 <= Burst(limit[f][d])
      BY <2>3, BurstType
    <3> QED
      BY <2>3, <2>5, <3>1, <3>2 DEF PipeOK
  <2> QED
    BY <2>1, <2>2, <2>4, <2>5, <2>6, OnePipe
<1>10. ASSUME NEW f \in Flows, NEW d \in Dirs, TcpCopyEnds(f, d) PROVE Inv'
  <2> DEFINE o == pipe[f][d]
             p == [o EXCEPT !.copier = "done", !.told = Tells(d)]
  <2>1. /\ Piped(f, d, p)
        /\ UNCHANGED <<settings, step, kind, dst, open, broken, limit, ticks>>
    BY <1>10 DEF TcpCopyEnds
  <2>2. /\ o \in Pipe /\ PipeOK(f, d, o) /\ limit[f][d] \in Nat
    BY DEF Inv, Types, PipesOK
  <2>3. step[f] \notin Early
    BY <1>10 DEF TcpCopyEnds, CopyIsOver, Inv, StepsOK, Idle, Early
  <2>4. p \in Pipe
    BY <2>2 DEF Pipe, Tells
  <2>5. PipeOK(f, d, p)
    <3>1. kind[f] = "tcp" /\ o.copier \in {"read", "pace", "write"} /\ CopyIsOver(f, d)
      BY <1>10 DEF TcpCopyEnds, CopyIsOver
    <3>2. step[f] = "relay"
      BY <2>2, <2>3, <3>1 DEF PipeOK, Early, Inv, Types, Steps
    <3>3. /\ p.copier = "done" /\ p.waiting = o.waiting /\ p.hand = o.hand /\ p.ended = o.ended
          /\ p.tokens = o.tokens /\ p.paced = o.paced
      BY <2>2 DEF Pipe
    <3>4. ~(o.copier = "pace" /\ o.hand > Burst(limit[f][d]))
      <4>1. Burst(limit[f][d]) \in Nat /\ o.hand \in 0 .. MaxRead
        BY <2>2, BurstType, PipeFields
      <4> QED
        BY <2>2, <4>1 DEF PipeOK
    <3>5. broken[f] = {} => o.copier = "read" /\ o.waiting = 0 /\ o.ended
      BY <3>1, <3>2, <3>4 DEF CopyIsOver, Usable, From, To, Inv, StepsOK
    <3> HIDE DEF p
    <3> QED
      BY <2>2, <3>2, <3>3, <3>5 DEF PipeOK
  <2> HIDE DEF p
  <2> QED
    BY <2>1, <2>3, <2>4, <2>5, OnePipe
<1>11. ASSUME NEW f \in Flows, NEW d \in Dirs, UdpCopyEnds(f, d) PROVE Inv'
  <2> DEFINE o == pipe[f][d]
             p == [o EXCEPT !.copier = "done"]
  <2>1. /\ kind[f] = "udp" /\ o.copier \in {"read", "pace", "write"}
        /\ pipe' = [pipe EXCEPT ![f][d] = p]
        /\ open' = [open EXCEPT ![f] = {}]
        /\ step' = [step EXCEPT ![f] = step'[f]] /\ step'[f] \in {step[f], "ended"}
        /\ UNCHANGED <<settings, kind, dst, broken, limit, ticks>>
    BY <1>11 DEF UdpCopyEnds, CopyIsOver, Piped, Goto, Inv, Types
  <2>2. o \in Pipe /\ PipeOK(f, d, o) /\ step[f] \notin Early
    BY <2>1 DEF Inv, Types, PipesOK, StepsOK, Idle
  <2>3. /\ p \in Pipe /\ p.copier = "done" /\ p.waiting = o.waiting /\ p.hand = o.hand
        /\ p.tokens = o.tokens /\ p.paced = o.paced
    BY <2>2 DEF Pipe
  <2> HIDE DEF p
  <2>4. /\ pipe' \in [Flows -> [Dirs -> Pipe]]
        /\ \A g \in Flows, e \in Dirs : pipe'[g][e] = IF g = f /\ e = d THEN p ELSE pipe[g][e]
        /\ \A g \in Flows : g # f => pipe'[g] = pipe[g]
    BY <2>1, <2>3 DEF Inv, Types
  <2>5. Types'
    <3>1. step' \in [Flows -> Steps]
      BY <2>1 DEF Inv, Types, Steps
    <3>2. open' \in [Flows -> SUBSET {"client", "remote"}]
      BY <2>1 DEF Inv, Types
    <3> QED
      BY <2>1, <2>4, <3>1, <3>2 DEF Inv, Types, ShapingOK
  <2>6. StepsOK'
    BY <2>1, <2>2, <2>4 DEF Inv, Types, StepsOK, Early
  <2>7. ASSUME NEW g \in Flows, NEW e \in Dirs PROVE PipeOK(g, e, pipe[g][e])'
    <3>1. PipeOK(g, e, pipe[g][e])
      BY DEF Inv, PipesOK
    <3>2. CASE g = f /\ e = d
      BY <2>1, <2>2, <2>3, <2>4, <3>2 DEF PipeOK
    <3>3. CASE g = f /\ e # d
      BY <2>1, <2>4, <3>1, <3>3 DEF PipeOK
    <3>4. CASE g # f
      BY <2>1, <2>4, <3>1, <3>4 DEF PipeOK, Inv, Types
    <3> QED
      BY <3>2, <3>3, <3>4
  <2> QED
    BY <2>5, <2>6, <2>7 DEF Inv, PipesOK
<1>12. ASSUME NEW f \in Flows, NEW d \in Dirs, Sends(f, d) \/ EndsSide(f, d) \/ Takes(f, d)
       PROVE  Inv'
  <2> DEFINE o == pipe[f][d]
  <2>1. PICK p \in {[o EXCEPT !.waiting = @ + 1], [o EXCEPT !.ended = TRUE],
                    [o EXCEPT !.full = FALSE]} :
          /\ Piped(f, d, p)
          /\ p.waiting # o.waiting => o.waiting < MaxWaiting[d] /\ ~o.ended
    BY <1>12 DEF Sends, EndsSide, Takes
  <2>2. step[f] = "relay" /\ UNCHANGED <<settings, step, kind, dst, open, broken, limit, ticks>>
    BY <1>12 DEF Sends, EndsSide, Takes
  <2>3. /\ o \in Pipe /\ PipeOK(f, d, o) /\ MaxWaiting[d] \in Nat
    BY DEF Inv, Types, PipesOK
  <2>4. /\ p \in Pipe /\ p.waiting \in {o.waiting, o.waiting + 1} /\ p.copier = o.copier
        /\ p.hand = o.hand /\ p.tokens = o.tokens /\ p.paced = o.paced
        /\ o.ended => p.ended
    <3>1. CASE p = [o EXCEPT !.waiting = @ + 1]
      <4>1. o.waiting \in Nat
        BY <2>3, PipeFields
      <4> QED
        BY <2>3, <3>1, <4>1 DEF Pipe
    <3>2. CASE p = [o EXCEPT !.ended = TRUE]
      BY <2>3, <3>2 DEF Pipe
    <3>3. CASE p = [o EXCEPT !.full = FALSE]
      BY <2>3, <3>3 DEF Pipe
    <3> QED
      BY <3>1, <3>2, <3>3
  <2>5. PipeOK(f, d, p)
    <3>1. o.waiting \in Nat
      BY <2>3, PipeFields
    <3> QED
      BY <2>1, <2>2, <2>3, <2>4, <3>1 DEF PipeOK
  <2> QED
    BY <2>1, <2>2, <2>4, <2>5, OnePipe DEF Early
<1>13. ASSUME NEW f \in Flows, NEW side \in {"client", "remote"}, Breaks(f, side) PROVE Inv'
  <2>1. /\ broken' = [broken EXCEPT ![f] = @ \cup {side}]
        /\ UNCHANGED <<settings, step, kind, dst, open, limit, pipe, ticks>>
    BY <1>13 DEF Breaks
  <2>2. Types' /\ \A g \in Flows : broken[g] \subseteq broken'[g]
    BY <2>1 DEF Inv, Types, ShapingOK
  <2>3. StepsOK'
    BY <2>1 DEF Inv, StepsOK
  <2> QED
    BY <2>1, <2>2, <2>3, SamePipes DEF Inv
<1>14. CASE Tick
  <2> DEFINE n(f, d, again) == [pipe[f][d] EXCEPT
        !.tokens = IF step[f] = "relay" THEN Refilled(pipe[f][d], limit[f][d]) ELSE @,
        !.paced = IF again THEN 0 ELSE @]
  <2>1. PICK again \in BOOLEAN :
          /\ again \/ ticks + 1 < MaxTicks
          /\ ticks' = IF again THEN 0 ELSE ticks + 1
          /\ pipe' = [f \in Flows |-> [d \in Dirs |-> n(f, d, again)]]
          /\ UNCHANGED <<settings, step, kind, dst, open, broken, limit>>
    BY <1>14 DEF Tick
  <2> DEFINE t(f, d) == IF step[f] = "relay" THEN Refilled(pipe[f][d], limit[f][d])
                        ELSE pipe[f][d].tokens
             h(f, d) == IF again THEN 0 ELSE pipe[f][d].paced
  <2>2. ASSUME NEW f \in Flows, NEW d \in Dirs
        PROVE  /\ limit[f][d] \in Nat /\ Burst(limit[f][d]) \in Nat
               /\ pipe[f][d] \in Pipe /\ pipe[f][d].tokens \in Nat /\ pipe[f][d].paced \in Nat
               /\ t(f, d) \in Nat /\ h(f, d) \in Nat /\ t(f, d) <= Burst(limit[f][d])
               /\ t(f, d) <= pipe[f][d].tokens + limit[f][d]
    <3>1. /\ limit[f][d] \in Nat /\ pipe[f][d] \in Pipe
          /\ pipe[f][d].tokens <= Burst(limit[f][d])
      BY DEF Inv, Types, PipesOK, PipeOK
    <3>2. Burst(limit[f][d]) \in Nat /\ pipe[f][d].tokens \in Nat /\ pipe[f][d].paced \in Nat
      BY <3>1, BurstType, PipeFields
    <3> QED
      BY <3>1, <3>2 DEF Refilled
  <2>3. ASSUME NEW f \in Flows, NEW d \in Dirs
        PROVE  /\ n(f, d, again) \in Pipe /\ n(f, d, again).copier = pipe[f][d].copier
               /\ n(f, d, again).hand = pipe[f][d].hand
               /\ n(f, d, again).waiting = pipe[f][d].waiting
               /\ n(f, d, again).ended = pipe[f][d].ended
               /\ n(f, d, again).tokens = t(f, d) /\ n(f, d, again).paced = h(f, d)
    <3>1. n(f, d, again) = AfterTick(pipe[f][d], t(f, d), h(f, d))
      BY DEF AfterTick
    <3>2. /\ pipe[f][d] \in Pipe /\ t(f, d) \in Nat /\ h(f, d) \in Nat
      BY <2>2
    <3>3. PICK q : q = AfterTick(pipe[f][d], t(f, d), h(f, d))
      OBVIOUS
    <3> HIDE DEF t, h, n
    <3>4. /\ q \in Pipe /\ q.copier = pipe[f][d].copier /\ q.hand = pipe[f][d].hand
          /\ q.waiting = pipe[f][d].waiting /\ q.ended = pipe[f][d].ended
          /\ q.tokens = t(f, d) /\ q.paced = h(f, d)
      BY <3>2, <3>3 DEF AfterTick, Pipe
    <3> QED
      BY <3>1, <3>3, <3>4
  <2>4. \A f \in Flows : step[f] \in Early => pipe'[f] = [d \in Dirs |-> Idle]
    <3> SUFFICES ASSUME NEW f \in Flows, step[f] \in Early, NEW d \in Dirs
                 PROVE  n(f, d, again) = Idle
      BY <2>1
    <3>1. pipe[f][d] = Idle /\ step[f] # "relay"
      BY DEF Inv, StepsOK, Early
    <3>2. Idle.tokens = 0 /\ Idle.paced = 0
      BY DEF Idle
    <3>3. n(f, d, again) = AfterTick(pipe[f][d], t(f, d), h(f, d))
      BY DEF AfterTick
    <3>4. t(f, d) = 0
      BY <3>1, <3>2
    <3>5. h(f, d) = 0
      <4>1. pipe[f][d].paced = 0
        BY <3>1, <3>2
      <4> QED
        BY <4>1
    <3> HIDE DEF n, t, h
    <3> QED
      BY <3>1, <3>3, <3>4, <3>5, IdleTicks
  <2> HIDE DEF n
  <2>5. Types'
    <3>1. ticks' \in 0 .. MaxTicks - 1
      BY <2>1 DEF Inv, Types
    <3>2. pipe' \in [Flows -> [Dirs -> Pipe]]
      BY <2>1, <2>3
    <3> QED
      BY <2>1, <3>1, <3>2 DEF Inv, Types, ShapingOK
  <2>6. StepsOK'
    BY <2>1, <2>4 DEF Inv, StepsOK
  <2>7. ASSUME NEW f \in Flows, NEW d \in Dirs PROVE PipeOK(f, d, pipe[f][d])'
    <3> DEFINE o == pipe[f][d]
               p == pipe'[f][d]
               l == limit[f][d]
    <3>1. PipeOK(f, d, o) /\ UNCHANGED <<step, kind, broken, limit>>
      BY <2>1 DEF Inv, PipesOK
    <3>2. /\ p.copier = o.copier /\ p.hand = o.hand /\ p.waiting = o.waiting
          /\ p.ended = o.ended /\ p.tokens = t(f, d) /\ p.paced = h(f, d)
      BY <2>1, <2>3
    <3>3. l > 0 => p.paced + p.tokens <= Burst(l) + l * ticks'
      <4>1. SUFFICES ASSUME l > 0 PROVE h(f, d) + t(f, d) <= Burst(l) + l * ticks'
        BY <3>2
      <4>2. ticks \in Nat
        BY DEF Inv, Types
      <4>3. CASE again
        <5>1. h(f, d) = 0 /\ l * ticks' = 0
          BY <2>1, <2>2, <4>3, NoAge
        <5> QED
          BY <2>2, <5>1
      <4>4. CASE ~again
        <5>1. h(f, d) = o.paced /\ l * ticks' = l * ticks + l /\ l * ticks \in Nat
          BY <2>1, <2>2, <4>2, <4>4, NextAge, ProductType
        <5>2. o.paced + o.tokens <= Burst(l) + l * ticks
          BY <3>1, <4>1 DEF PipeOK
        <5> HIDE DEF t, h
        <5> QED
          BY <2>2, <5>1, <5>2
      <4> QED
        BY <4>3, <4>4
    <3> HIDE DEF t, h
    <3> QED
      BY <2>2, <3>1, <3>2, <3>3 DEF PipeOK
  <2> QED
    BY <2>5, <2>6, <2>7 DEF Inv, PipesOK
<1> QED
  BY <1>1, <1>2, <1>3, <1>4, <1>5, <1>6, <1>7, <1>8, <1>9, <1>10, <1>11, <1>12, <1>13, <1>14
     DEF Next, Handles, Copies

-----------------------------------------------------------------------------
(* What follows *)

\* The variables keep their types, whatever the settings hold.
THEOREM TypeCorrect == Spec => []TypeOK
<1>1. Inv => TypeOK
  BY DEF Inv, Types, ShapingOK, PipesOK, PipeOK, TypeOK
<1> QED
  BY <1>1, InvInit, InvStep, PTL DEF Spec

\* In any span of time a limited flow moves at most one bucket and what its limit
\* adds, and no read is larger than the bucket.
THEOREM FlowsArePaced == Spec => []FlowPaced
<1>1. Inv => FlowPaced
  <2> SUFFICES ASSUME Inv, NEW f \in Flows, NEW d \in Dirs, limit[f][d] > 0
               PROVE  /\ pipe[f][d].paced <= Burst(limit[f][d]) + limit[f][d] * ticks
                      /\ pipe[f][d].hand <= Burst(limit[f][d])
    BY DEF FlowPaced
  <2>1. pipe[f][d].paced \in Nat /\ pipe[f][d].tokens \in Nat
    BY PipeFields DEF Inv, Types
  <2>2. Burst(limit[f][d]) \in Nat /\ limit[f][d] * ticks \in Nat
    BY BurstType, ProductType DEF Inv, Types
  <2>3. /\ pipe[f][d].paced + pipe[f][d].tokens <= Burst(limit[f][d]) + limit[f][d] * ticks
        /\ pipe[f][d].hand <= Burst(limit[f][d])
    BY DEF Inv, PipesOK, PipeOK
  <2> QED
    BY <2>1, <2>2, <2>3
<1> QED
  BY <1>1, InvInit, InvStep, PTL DEF Spec

\* A relay that ends without an abort has moved all that both sides sent.
THEOREM NothingIsTruncated == Spec => []NothingTruncated
<1>1. Inv => NothingTruncated
  BY DEF Inv, PipesOK, PipeOK, NothingTruncated
<1> QED
  BY <1>1, InvInit, InvStep, PTL DEF Spec
=============================================================================
