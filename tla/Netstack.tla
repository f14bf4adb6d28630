------------------------------ MODULE Netstack ------------------------------
(***************************************************************************)
(* The data path of the netstack driver: a connection or datagram that     *)
(* leaves the tunnel is checked against forwarding and the block list,     *)
(* dialled with an OS socket, and relayed by two goroutines, one for each  *)
(* direction, each with its rate limiter.  Settings change at any time,    *)
(* and Remove closes the stack under the flows.                            *)
(*                                                                         *)
(* Data are counted in units.  A read takes some, the limiter makes them   *)
(* wait, a write hands them to the sink; a write to a connection waits for *)
(* the sink to read, and nothing in the code limits that wait.  An address *)
(* is its bits, a prefix the leading ones.                                 *)
(***************************************************************************)
EXTENDS Integers, Sequences, FiniteSets, SequencesExt

CONSTANTS
  Flows,        \* flows, each used once
  Source,       \* the tunnel address of the peer a flow comes from
  Hosts,        \* destinations
  LocalAddrs,   \* the addresses of the interface, among them
  Specs,        \* limits ApplyShaping is called with
  MinBurst,     \* 64 KiB, the least a bucket holds
  MaxRead,      \* what one read returns at most: 32 KiB of a connection, a datagram
  MaxWaiting,   \* bound: what a side has sent and nobody has read
  MaxTicks      \* bound: ticks of a span of time in which flows are measured

Dirs  == {"up", "down"}
Kinds == {"tcp", "udp"}

ASSUME NetstackAssumption ==
  /\ Hosts # {} /\ LocalAddrs \subseteq Hosts
  /\ \A s \in Specs : \A i \in DOMAIN s : {s[i].up, s[i].down} \subseteq Nat
  /\ MinBurst \in Nat /\ MaxRead \in 1 .. MinBurst
  /\ MaxWaiting \in [Dirs -> Nat] /\ MaxTicks \in Nat \ {0}

\* The side a direction reads from, and the side it writes to.
From(d) == IF d = "up" THEN "client" ELSE "remote"
To(d)   == IF d = "up" THEN "remote" ELSE "client"

VARIABLES
  tun,          \* open, closed
  forwarding, shaping,     \* the atomics of nsTun; the block list is a choice
  step,         \* of a flow: idle, forward, list, shape, dial, endpoint, relay, ended
  kind, dst,    \* what it is, and where it goes, until it is dialled
  open,         \* sockets it holds
  broken,       \* sides whose connection has been aborted
  limit,        \* upload and download limit, 0: none
  pipe,         \* its directions
  ticks         \* history: ticks since the present span of time began

vars == <<tun, forwarding, shaping, step, kind, dst, open, broken, limit, pipe, ticks>>
settings == <<tun, forwarding, shaping>>

Steps == {"idle", "forward", "list", "shape", "dial", "endpoint", "relay", "ended"}

Pipe ==
  [ waiting : Nat,                                       \* sent, not read
    ended   : BOOLEAN,                                   \* the source sends no more
    copier  : {"off", "read", "pace", "write", "done"},
    hand    : 0 .. MaxRead,                              \* read, not written
    tokens  : Nat,                                       \* in the limiter's bucket
    full    : BOOLEAN,                                   \* the sink has no room left
    told    : BOOLEAN,                                   \* the sink was told of the end
    paced   : Nat ]                                      \* history: let through in this span

Idle == [waiting |-> 0, ended |-> FALSE, copier |-> "off", hand |-> 0, tokens |-> 0,
         full |-> FALSE, told |-> FALSE, paced |-> 0]

\* (mutant) The bucket holds what the limit adds, however little.
BurstUnfloored(l) == l

\* newByteLimiter: the bucket holds at least the largest read.
Burst(l) == IF l = 0 THEN 0 ELSE IF l < MinBurst THEN MinBurst ELSE l

TypeOK ==
  /\ tun \in {"open", "closed"}
  /\ forwarding \in BOOLEAN
  /\ step \in [Flows -> Steps] /\ kind \in [Flows -> Kinds] /\ dst \in [Flows -> Hosts]
  /\ open \in [Flows -> SUBSET {"client", "remote"}]
  /\ broken \in [Flows -> SUBSET {"client", "remote"}]
  /\ limit \in [Flows -> [Dirs -> Nat]]
  /\ pipe \in [Flows -> [Dirs -> Pipe]]
  /\ \A f \in Flows, d \in Dirs :
       pipe[f][d].waiting <= MaxWaiting[d] /\ pipe[f][d].tokens <= Burst(limit[f][d])
  /\ \A i \in DOMAIN shaping : shaping[i].up > 0 \/ shaping[i].down > 0
  /\ ticks \in 0 .. MaxTicks - 1

-----------------------------------------------------------------------------
(* Settings *)

Limited(s) == s.up > 0 \/ s.down > 0

\* (mutant) Peers without a limit are kept.
BuildNSShapingAll(peers) == peers

\* Peers without a limit are left out; the others keep their order.
BuildNSShaping(peers) == [i \in {j \in DOMAIN peers : Limited(peers[j])} |-> peers[i]]

Covers(prefix, addr) == IsPrefix(prefix, addr)

\* shapingFor: the first of the longest prefixes that match.
ShapingFor(src) ==
  LET match == {i \in DOMAIN shaping : Covers(shaping[i].prefix, src)}
      best  == {i \in match : \A j \in match :
                  \/ Len(shaping[j].prefix) < Len(shaping[i].prefix)
                  \/ Len(shaping[j].prefix) = Len(shaping[i].prefix) /\ i <= j}
  IN IF best = {} THEN [up |-> 0, down |-> 0]
     ELSE LET i == CHOOSE i \in best : TRUE
          IN [up |-> shaping[i].up, down |-> shaping[i].down]

\* Stands for the destination where it no longer matters.
AnyHost == CHOOSE h \in Hosts : TRUE

IsLocal(h) == h \in LocalAddrs

Configure ==
  /\ tun = "open"
  /\ forwarding' = ~forwarding
  /\ UNCHANGED <<tun, shaping, step, kind, dst, open, broken, limit, pipe, ticks>>

\* RemoveShaping is ApplyShaping of nothing.
ApplyShaping(peers) ==
  /\ tun = "open"
  /\ shaping' = BuildNSShaping(peers)
  /\ UNCHANGED <<tun, forwarding, step, kind, dst, open, broken, limit, pipe, ticks>>

\* Remove closes the device and the stack; the endpoints of the flows go with it.
CloseTun ==
  /\ tun = "open" /\ tun' = "closed"
  /\ broken' = [f \in Flows |-> IF step[f] = "relay" THEN broken[f] \cup {"client"}
                                ELSE broken[f]]
  /\ UNCHANGED <<forwarding, shaping, step, kind, dst, open, limit, pipe, ticks>>

-----------------------------------------------------------------------------
(* handleTCP and handleUDP *)

Goto(f, s) == step' = [step EXCEPT ![f] = s]

Arrives(f, k, h) ==
  /\ tun = "open" /\ step[f] = "idle"
  /\ Goto(f, "forward")
  /\ kind' = [kind EXCEPT ![f] = k] /\ dst' = [dst EXCEPT ![f] = h]
  /\ UNCHANGED <<settings, open, broken, limit, pipe, ticks>>

\* The flow is refused or given up: its sockets are closed.
Refused(f) ==
  /\ Goto(f, "ended")
  /\ open' = [open EXCEPT ![f] = {}]
  /\ dst' = [dst EXCEPT ![f] = AnyHost]

CheckForwarding(f) ==
  /\ step[f] = "forward"
  /\ IF forwarding \/ IsLocal(dst[f])
     THEN Goto(f, "list") /\ UNCHANGED <<open, dst>>
     ELSE Refused(f)
  /\ UNCHANGED <<settings, kind, broken, limit, pipe, ticks>>

\* The block list in force, which changes at any time, has the destination or not.
CheckList(f) ==
  /\ step[f] = "list"
  /\ \/ Refused(f)
     \/ /\ Goto(f, IF kind[f] = "tcp" THEN "shape" ELSE "dial")
        /\ UNCHANGED <<open, dst>>
  /\ UNCHANGED <<settings, kind, broken, limit, pipe, ticks>>

\* The limits are read once; TCP reads them before it dials, UDP after.
Shape(f) ==
  /\ step[f] = "shape"
  /\ limit' = [limit EXCEPT ![f] = ShapingFor(Source[f])]
  /\ Goto(f, IF kind[f] = "tcp" THEN "dial" ELSE "endpoint")
  /\ UNCHANGED <<settings, kind, dst, open, broken, pipe, ticks>>

Dial(f) ==
  /\ step[f] = "dial"
  /\ \/ /\ open' = [open EXCEPT ![f] = {"remote"}]
        /\ dst' = [dst EXCEPT ![f] = AnyHost]
        /\ Goto(f, IF kind[f] = "tcp" THEN "endpoint" ELSE "shape")
     \/ Refused(f)
  /\ UNCHANGED <<settings, kind, broken, limit, pipe, ticks>>

\* (mutant) The dialled socket is forgotten when there is no endpoint.
EndpointLeaks(f) ==
  /\ step[f] = "endpoint"
  /\ \/ /\ tun = "open"
        /\ Goto(f, "relay")
        /\ open' = [open EXCEPT ![f] = {"client", "remote"}]
        /\ pipe' = [pipe EXCEPT ![f] = [d \in Dirs |->
             [Idle EXCEPT !.copier = "read", !.tokens = Burst(limit[f][d])]]]
        /\ UNCHANGED dst
     \/ Goto(f, "ended") /\ UNCHANGED <<open, pipe, dst>>
  /\ UNCHANGED <<settings, kind, broken, limit, ticks>>

\* CreateEndpoint fails on a closed stack, and may fail on an open one.
Endpoint(f) ==
  /\ step[f] = "endpoint"
  /\ \/ /\ tun = "open"
        /\ Goto(f, "relay")
        /\ open' = [open EXCEPT ![f] = {"client", "remote"}]
        /\ pipe' = [pipe EXCEPT ![f] = [d \in Dirs |->
             [Idle EXCEPT !.copier = "read", !.tokens = Burst(limit[f][d])]]]
        /\ UNCHANGED dst
     \/ Refused(f) /\ UNCHANGED pipe
  /\ UNCHANGED <<settings, kind, dst, broken, limit, ticks>>

-----------------------------------------------------------------------------
(* relayConns and relayUDP *)

Usable(f, side) == side \in open[f] \ broken[f]

Piped(f, d, p) == pipe' = [pipe EXCEPT ![f][d] = p]

\* A limited reader of a connection never reads more than its bucket holds; one
\* of datagrams takes them as they are.
Reads(f, d) ==
  {n \in 1 .. MaxRead :
     /\ n <= pipe[f][d].waiting
     /\ kind[f] = "tcp" /\ limit[f][d] > 0 => n <= Burst(limit[f][d])}

CopyRead(f, d) ==
  /\ pipe[f][d].copier = "read" /\ Usable(f, From(d))
  /\ \E n \in Reads(f, d) :
       Piped(f, d, [pipe[f][d] EXCEPT !.waiting = @ - n, !.hand = n,
                      !.copier = IF limit[f][d] > 0 THEN "pace" ELSE "write"])
  /\ UNCHANGED <<settings, step, kind, dst, open, broken, limit, ticks>>

\* What was read takes its tokens.
Paced(p) == [p EXCEPT !.copier = "write", !.paced = @ + p.hand, !.tokens = @ - p.hand]

\* WaitN of the limiter.
CopyPace(f, d) ==
  LET p == pipe[f][d] IN
  /\ p.copier = "pace" /\ p.hand <= p.tokens
  /\ Piped(f, d, Paced(p))
  /\ UNCHANGED <<settings, step, kind, dst, open, broken, limit, ticks>>

\* The write of a connection is done when the sink has room for it, which may be
\* its last; no deadline ends the wait.  A datagram does not wait.
CopyWrite(f, d) ==
  /\ pipe[f][d].copier = "write" /\ Usable(f, To(d)) /\ ~pipe[f][d].full
  /\ \E last \in BOOLEAN :
       /\ last => kind[f] = "tcp"
       /\ Piped(f, d, [pipe[f][d] EXCEPT !.copier = "read", !.hand = 0, !.full = last])
  /\ UNCHANGED <<settings, step, kind, dst, open, broken, limit, ticks>>

\* A read that fails or is at the end, a write that fails, a wait for more than
\* the bucket holds; UDP has a read deadline on each side instead of an end.
CopyIsOver(f, d) ==
  LET p == pipe[f][d] IN
  \/ p.copier = "read" /\ ~Usable(f, From(d))
  \/ p.copier = "read" /\ p.waiting = 0 /\ (kind[f] = "udp" \/ p.ended)
  \/ p.copier = "pace" /\ p.hand > Burst(limit[f][d])
  \/ p.copier = "write" /\ ~Usable(f, To(d))

\* (mutant) The end of the request is not passed on.
TellsNone(d) == FALSE

\* closeWrite knows the TCP connections of package net only, and the client's
\* is one of the stack: it is not told of the end.
Tells(d) == To(d) = "remote"

TcpCopyEnds(f, d) ==
  /\ kind[f] = "tcp" /\ CopyIsOver(f, d)
  /\ Piped(f, d, [pipe[f][d] EXCEPT !.copier = "done", !.told = Tells(d)])
  /\ UNCHANGED <<settings, step, kind, dst, open, broken, limit, ticks>>

\* (mutant) The relay ends with either direction.
BothDoneEither(f) == \E d \in Dirs : pipe[f][d].copier = "done"

BothDone(f) == \A d \in Dirs : pipe[f][d].copier = "done"

\* relayConns waits for both directions and closes both connections.
RelayReturns(f) ==
  /\ kind[f] = "tcp" /\ step[f] = "relay" /\ BothDone(f)
  /\ Goto(f, "ended")
  /\ open' = [open EXCEPT ![f] = {}]
  /\ UNCHANGED <<settings, kind, dst, broken, limit, pipe, ticks>>

\* Each direction of relayUDP closes both sockets; the other notices.
UdpCopyEnds(f, d) ==
  /\ kind[f] = "udp" /\ CopyIsOver(f, d)
  /\ Piped(f, d, [pipe[f][d] EXCEPT !.copier = "done"])
  /\ open' = [open EXCEPT ![f] = {}]
  /\ IF \A e \in Dirs \ {d} : pipe[f][e].copier = "done" THEN Goto(f, "ended") ELSE UNCHANGED step
  /\ UNCHANGED <<settings, kind, dst, broken, limit, ticks>>

-----------------------------------------------------------------------------
(* The sides, and time *)

Sends(f, d) ==
  /\ step[f] = "relay" /\ Usable(f, From(d)) /\ ~pipe[f][d].ended
  /\ pipe[f][d].waiting < MaxWaiting[d]
  /\ Piped(f, d, [pipe[f][d] EXCEPT !.waiting = @ + 1])
  /\ UNCHANGED <<settings, step, kind, dst, open, broken, limit, ticks>>

\* A side ends its half of the connection, or falls silent for good.
EndsSide(f, d) ==
  /\ step[f] = "relay" /\ Usable(f, From(d)) /\ ~pipe[f][d].ended
  /\ Piped(f, d, [pipe[f][d] EXCEPT !.ended = TRUE])
  /\ UNCHANGED <<settings, step, kind, dst, open, broken, limit, ticks>>

\* A side reads what it was sent.
Takes(f, d) ==
  /\ step[f] = "relay" /\ Usable(f, To(d)) /\ pipe[f][d].full
  /\ Piped(f, d, [pipe[f][d] EXCEPT !.full = FALSE])
  /\ UNCHANGED <<settings, step, kind, dst, open, broken, limit, ticks>>

\* A connection is reset, a datagram is refused.
Breaks(f, side) ==
  /\ step[f] = "relay" /\ Usable(f, side)
  /\ broken' = [broken EXCEPT ![f] = @ \cup {side}]
  /\ UNCHANGED <<settings, step, kind, dst, open, limit, pipe, ticks>>

\* (mutant) The bucket has no limit.
RefilledOver(p, l) == p.tokens + l

\* The tokens after a tick.
Refilled(p, l) == IF p.tokens + l > Burst(l) THEN Burst(l) ELSE p.tokens + l

\* Every limiter gets its tokens.  A new span of time may begin with any tick.
Tick ==
  \E again \in BOOLEAN :
    /\ again \/ ticks + 1 < MaxTicks
    /\ ticks' = IF again THEN 0 ELSE ticks + 1
    /\ pipe' = [f \in Flows |-> [d \in Dirs |->
         [pipe[f][d] EXCEPT
            !.tokens = IF step[f] = "relay" THEN Refilled(pipe[f][d], limit[f][d]) ELSE @,
            !.paced = IF again THEN 0 ELSE @]]]
    /\ UNCHANGED <<settings, step, kind, dst, open, broken, limit>>

-----------------------------------------------------------------------------

\* ensure: a new stack gets the limits and the forwarding last asked for.
Init ==
  /\ tun = "open" /\ forwarding \in BOOLEAN
  /\ shaping \in {BuildNSShaping(peers) : peers \in Specs}
  /\ step = [f \in Flows |-> "idle"]
  /\ kind = [f \in Flows |-> "tcp"]
  /\ dst = [f \in Flows |-> AnyHost]
  /\ open = [f \in Flows |-> {}] /\ broken = [f \in Flows |-> {}]
  /\ limit = [f \in Flows |-> [d \in Dirs |-> 0]]
  /\ pipe = [f \in Flows |-> [d \in Dirs |-> Idle]]
  /\ ticks = 0

Handles(f) ==
  CheckForwarding(f) \/ CheckList(f) \/ Shape(f) \/ Dial(f) \/ Endpoint(f) \/ RelayReturns(f)

Copies(f, d) ==
  CopyRead(f, d) \/ CopyPace(f, d) \/ CopyWrite(f, d) \/ TcpCopyEnds(f, d) \/ UdpCopyEnds(f, d)

Next ==
  \/ Configure \/ CloseTun
  \/ \E s \in Specs : ApplyShaping(s)
  \/ \E f \in Flows :
       \/ \E k \in Kinds, h \in Hosts : Arrives(f, k, h)
       \/ Handles(f)
       \/ \E d \in Dirs : Copies(f, d) \/ Sends(f, d) \/ EndsSide(f, d) \/ Takes(f, d)
       \/ \E side \in {"client", "remote"} : Breaks(f, side)
  \/ Tick

\* Goroutines get to run, and time passes.  Nothing is assumed of the two sides:
\* they may never send, end or read.
Fairness ==
  /\ WF_vars(Tick)
  /\ \A f \in Flows : WF_vars(Handles(f)) /\ \A d \in Dirs : WF_vars(Copies(f, d))

Spec == Init /\ [][Next]_vars /\ Fairness

-----------------------------------------------------------------------------
(* Properties *)

\* A relay that ends without an aborted connection has moved all that both
\* sides sent, up to the end of each.
NothingTruncated ==
  \A f \in Flows :
    step[f] = "ended" /\ kind[f] = "tcp" /\ broken[f] = {} =>
      \A d \in Dirs :
        LET p == pipe[f][d]
        IN p.copier # "off" => p.waiting = 0 /\ p.hand = 0 /\ p.ended

\* In no span of time does a flow move more than one bucket and what its limit
\* adds in that time, however long it was quiet before; and what a copier has
\* read fits the bucket, or the wait for it would fail and end the flow.
FlowPaced ==
  \A f \in Flows, d \in Dirs :
    LET p == pipe[f][d]
        l == limit[f][d]
    IN l > 0 => p.paced <= Burst(l) + l * ticks /\ p.hand <= Burst(l)

\* A flow is over when it was refused, or when each side has ended or been
\* aborted; one of datagrams when one side has fallen silent.
Over(f) ==
  LET gone(d) == pipe[f][d].ended \/ From(d) \in broken[f] IN
  \/ step[f] = "ended"
  \/ IF kind[f] = "udp" THEN \E d \in Dirs : gone(d) ELSE \A d \in Dirs : gone(d)

\* The sink of a direction leaves what it was sent unread.
Unread(f, d) == Usable(f, To(d)) /\ pipe[f][d].full

\* A flow that is over gives its sockets back, unless a side that is still
\* connected stops reading: neither a direction that ends late or is paced, nor
\* an endpoint that cannot be made, nor a stack closed under it keeps one.
SocketsReturned == \A f \in Flows :
  (\A d \in Dirs : []<>~Unread(f, d)) => (open[f] # {} /\ Over(f) ~> open[f] = {})

\* The end of a request reaches a remote side that reads, which may wait for it
\* before it answers, however slowly the request is paced and whatever the client
\* does with the answer.
RequestEndPassed == \A f \in Flows :
  []<>~Unread(f, "up") =>
    (step[f] = "relay" /\ kind[f] = "tcp" /\ pipe[f]["up"].ended
       ~> pipe[f]["up"].told \/ broken[f] # {})

\* "DownloadLimit caps the peer's download": what the flows of one peer move
\* together stays within one bucket and what the limit adds.
PeerPaced ==
  \A f, g \in Flows, d \in Dirs :
    LET l == limit[f][d]
    IN f # g /\ Source[f] = Source[g] /\ l > 0 /\ limit[g][d] = l =>
         pipe[f][d].paced + pipe[g][d].paced <= Burst(l) + l * ticks

=============================================================================
