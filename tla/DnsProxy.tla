------------------------------ MODULE DnsProxy ------------------------------
(***************************************************************************)
(* The DNS forwarder of the daemon: two accept loops that start a          *)
(* goroutine per datagram and per connection, fail-over between upstream   *)
(* resolvers, the block list that a settings request replaces at any       *)
(* moment, and Close, which main calls on its way out.                     *)
(*                                                                         *)
(* A query is the name it asks for, given as its labels.  An exchange with *)
(* a resolver is one step: it is answered, or fails, or its deadline ends  *)
(* it (each has a socket of its own, so answers that come later are lost). *)
(***************************************************************************)
EXTENDS Integers, Sequences, FiniteSets

CONSTANTS
  UdpHandlers, TcpHandlers,   \* goroutines that can run at a time
  Upstreams,                  \* number of resolvers, len(s.Upstreams)
  CounterSize,                \* the round-robin counter wraps here (2^32)
  Queries,                    \* names asked for, as sequences of labels
  Malformed,                  \* a query without a readable name
  Lists,                      \* block lists the settings can hold
  None

Handlers == UdpHandlers \cup TcpHandlers

ASSUME ProxyAssumption ==
  /\ Upstreams \in Nat \ {0} /\ CounterSize \in Nat \ {0}
  /\ UdpHandlers \cap TcpHandlers = {} /\ {"udp", "tcp"} \cap Handlers = {}
  /\ IsFiniteSet(Handlers)
  /\ None \notin Queries

VARIABLES
  phase,        \* new, serving, closing (in Close), closed; failed: Start returned an error
  udp, tcp,     \* the loops: off, wait (in the read), got (before the go statement), done
  held,         \* the query the UDP loop has just read
  wg,           \* s.wg
  next,         \* s.next
  pc,           \* where each handler is
  query,        \* the query it serves, until the block list has let it pass
  turn,         \* exchangeUDP: i, the upstreams tried so far
  first,        \* exchangeUDP: start
  tried,        \* history: the upstreams the query has been sent to
  blacklist     \* the block list in force

vars == <<phase, udp, tcp, held, wg, next, pc, query, turn, first, tried, blacklist>>

server   == <<phase, udp, tcp, held>>
exchange == <<turn, first, tried>>

Resolvers == 0 .. Upstreams - 1

UdpSteps == {"idle", "blocked", "exchange"}
TcpSteps == {"idle", "read", "blocked", "dial", "exchange", "write"}

TypeOK ==
  /\ phase \in {"new", "serving", "closing", "closed", "failed"}
  /\ udp \in {"off", "wait", "got", "done"}
  /\ tcp \in {"off", "wait", "got", "done"}
  /\ held \in Queries \cup {None}
  /\ wg \in 0 .. 2 + Cardinality(Handlers)
  /\ next \in 0 .. CounterSize - 1
  /\ \A h \in UdpHandlers : pc[h] \in UdpSteps
  /\ \A h \in TcpHandlers : pc[h] \in TcpSteps
  /\ query \in [Handlers -> Queries \cup {None}]
  /\ turn \in [Handlers -> 0 .. Upstreams]
  /\ first \in [Handlers -> Resolvers]
  /\ tried \in [Handlers -> SUBSET Resolvers]
  /\ blacklist \in Lists

-----------------------------------------------------------------------------
(* The block list (package blacklist) *)

\* Entries are domains, wildcards or addresses; only the first two match names.
IsSuffix(s, q) == Len(s) < Len(q) /\ SubSeq(q, Len(q) - Len(s) + 1, Len(q)) = s

MatchEntry(e, q) ==
  \/ e.kind = "domain" /\ q = e.name
  \/ e.kind = "wildcard" /\ e.name # <<>> /\ IsSuffix(e.name, q)

MatchDomain(list, q) == \E e \in list : MatchEntry(e, q)

\* blocked: a query without a readable name is let through.
BlockedBy(list, q) == q # Malformed /\ MatchDomain(list, q)

-----------------------------------------------------------------------------
(* Start and the two loops *)

\* Both protocols have to bind; what is bound is closed again otherwise.
Start(udpBinds, tcpBinds) ==
  /\ phase = "new"
  /\ IF udpBinds /\ tcpBinds
     THEN /\ phase' = "serving"
          /\ udp' = "wait" /\ tcp' = "wait"
          /\ wg' = 2
     ELSE /\ phase' = "failed"
          /\ UNCHANGED <<udp, tcp, wg>>
  /\ UNCHANGED <<held, next, pc, query, exchange, blacklist>>

UdpReads(q) ==
  /\ udp = "wait" /\ phase = "serving"
  /\ udp' = "got" /\ held' = q
  /\ UNCHANGED <<phase, tcp, wg, next, pc, query, exchange, blacklist>>

\* (mutant) The goroutine is not registered.
UdpSpawnsUncounted(h) ==
  /\ udp = "got" /\ pc[h] = "idle"
  /\ udp' = "wait" /\ held' = None
  /\ pc' = [pc EXCEPT ![h] = "blocked"]
  /\ query' = [query EXCEPT ![h] = held]
  /\ UNCHANGED <<phase, tcp, wg, next, exchange, blacklist>>

\* The loop registers the handler before it starts it, and is itself registered.
UdpSpawns(h) ==
  /\ udp = "got" /\ pc[h] = "idle"
  /\ udp' = "wait" /\ held' = None
  /\ wg' = wg + 1
  /\ pc' = [pc EXCEPT ![h] = "blocked"]
  /\ query' = [query EXCEPT ![h] = held]
  /\ UNCHANGED <<phase, tcp, next, exchange, blacklist>>

TcpAccepts ==
  /\ tcp = "wait" /\ phase = "serving"
  /\ tcp' = "got"
  /\ UNCHANGED <<phase, udp, held, wg, next, pc, query, exchange, blacklist>>

TcpSpawns(h) ==
  /\ tcp = "got" /\ pc[h] = "idle"
  /\ tcp' = "wait"
  /\ wg' = wg + 1
  /\ pc' = [pc EXCEPT ![h] = "read"]
  /\ UNCHANGED <<phase, udp, held, next, query, exchange, blacklist>>

\* A closed listener ends its loop at the next read.
UdpLoopEnds ==
  /\ udp = "wait" /\ phase = "closing"
  /\ udp' = "done" /\ wg' = wg - 1
  /\ UNCHANGED <<phase, tcp, held, next, pc, query, exchange, blacklist>>

TcpLoopEnds ==
  /\ tcp = "wait" /\ phase = "closing"
  /\ tcp' = "done" /\ wg' = wg - 1
  /\ UNCHANGED <<phase, udp, held, next, pc, query, exchange, blacklist>>

\* Close closes the listeners, then waits for the group.
Close ==
  /\ phase = "serving" /\ phase' = "closing"
  /\ UNCHANGED <<udp, tcp, held, wg, next, pc, query, exchange, blacklist>>

CloseReturns ==
  /\ phase = "closing" /\ wg = 0
  /\ phase' = "closed"
  /\ UNCHANGED <<udp, tcp, held, wg, next, pc, query, exchange, blacklist>>

-----------------------------------------------------------------------------
(* Handlers *)

Goto(h, step) == pc' = [pc EXCEPT ![h] = step]

\* The goroutine returns: its sockets are closed and it leaves the group.
Ends(h) ==
  /\ Goto(h, "idle")
  /\ wg' = wg - 1
  /\ query' = [query EXCEPT ![h] = None]
  /\ turn'  = [turn  EXCEPT ![h] = 0]
  /\ first' = [first EXCEPT ![h] = 0]
  /\ tried' = [tried EXCEPT ![h] = {}]

\* A listed name is dropped without an answer, and a TCP client disconnected.
Drop(h) ==
  /\ pc[h] = "blocked" /\ BlockedBy(blacklist, query[h])
  /\ Ends(h)
  /\ UNCHANGED <<server, next, blacklist>>

\* (mutant) The counter itself is taken for an index.
RelayUnreduced(h) ==
  /\ pc[h] = "blocked" /\ ~BlockedBy(blacklist, query[h])
  /\ IF h \in UdpHandlers
     THEN Goto(h, "exchange") /\ first' = [first EXCEPT ![h] = next]
     ELSE Goto(h, "dial") /\ UNCHANGED first
  /\ query' = [query EXCEPT ![h] = None]
  /\ UNCHANGED <<server, wg, next, turn, tried, blacklist>>

\* exchangeUDP starts at the round-robin counter and does not move it.
Relay(h) ==
  /\ pc[h] = "blocked" /\ ~BlockedBy(blacklist, query[h])
  /\ IF h \in UdpHandlers
     THEN Goto(h, "exchange") /\ first' = [first EXCEPT ![h] = next % Upstreams]
     ELSE Goto(h, "dial") /\ UNCHANGED first
  /\ query' = [query EXCEPT ![h] = None]
  /\ UNCHANGED <<server, wg, next, turn, tried, blacklist>>

\* upstream(): the counter moves first, the resolver is the one it pointed at.
Dial(h) ==
  /\ pc[h] = "dial"
  /\ next' = (next + 1) % CounterSize
  /\ first' = [first EXCEPT ![h] = ((next' - 1) % CounterSize) % Upstreams]
  /\ Goto(h, "exchange")
  /\ UNCHANGED <<server, wg, query, turn, tried, blacklist>>

\* The upstream an exchange is with.
Asked(h) == (first[h] + turn[h]) % Upstreams

\* UDP writes the answer to its client and is done; the socket it writes to may
\* be closed by then.  TCP has to wait for its client.
Answered(h) ==
  /\ pc[h] = "exchange"
  /\ IF h \in UdpHandlers
     THEN Ends(h)
     ELSE Goto(h, "write") /\ UNCHANGED <<wg, query, exchange>>
  /\ UNCHANGED <<server, next, blacklist>>

\* (mutant) The last upstream is never asked.
LastTurnEarly(h) == turn[h] + 2 >= Upstreams

LastTurn(h) == turn[h] + 1 = Upstreams

\* (mutant) The exchange has no deadline.
GiveUpNever(h) == FALSE /\ UNCHANGED vars

\* An error, or the deadline of an exchange: UDP tries the next upstream, TCP
\* closes the connection of its client.
GiveUp(h) ==
  /\ pc[h] = "exchange"
  /\ IF h \in UdpHandlers /\ ~LastTurn(h)
     THEN /\ turn'  = [turn  EXCEPT ![h] = @ + 1]
          /\ tried' = [tried EXCEPT ![h] = @ \cup {Asked(h)}]
          /\ UNCHANGED <<wg, pc, query, first>>
     ELSE Ends(h)
  /\ UNCHANGED <<server, next, blacklist>>

\* relayTCP waits for its client without a deadline.
TcpRead(h, q) ==
  /\ pc[h] = "read"
  /\ Goto(h, "blocked")
  /\ query' = [query EXCEPT ![h] = q]
  /\ UNCHANGED <<server, wg, next, exchange, blacklist>>

\* The answer goes to the client, and the handler reads the next query.
TcpWrite(h) ==
  /\ pc[h] = "write"
  /\ Goto(h, "read")
  /\ first' = [first EXCEPT ![h] = 0]
  /\ UNCHANGED <<server, wg, next, query, turn, tried, blacklist>>

\* The client closes its connection.
TcpClientLeaves(h) ==
  /\ pc[h] \in {"read", "write"}
  /\ Ends(h)
  /\ UNCHANGED <<server, next, blacklist>>

-----------------------------------------------------------------------------
(* The rest of the daemon *)

\* Store.Set, called by UpdateSettings: one atomic exchange of the pointer.
SetBlacklist(list) ==
  /\ phase \in {"serving", "closing"} /\ list # blacklist
  /\ blacklist' = list
  /\ UNCHANGED <<server, wg, next, pc, query, exchange>>

-----------------------------------------------------------------------------

Init ==
  /\ phase = "new" /\ udp = "off" /\ tcp = "off"
  /\ held = None /\ wg = 0 /\ next = 0
  /\ pc = [h \in Handlers |-> "idle"]
  /\ query = [h \in Handlers |-> None]
  /\ turn = [h \in Handlers |-> 0] /\ first = [h \in Handlers |-> 0]
  /\ tried = [h \in Handlers |-> {}]
  /\ blacklist \in Lists

Loops ==
  \/ \E h \in UdpHandlers : UdpSpawns(h)
  \/ \E h \in TcpHandlers : TcpSpawns(h)
  \/ UdpLoopEnds \/ TcpLoopEnds

\* What a handler does without waiting for its client or an upstream.
Step(h) == Drop(h) \/ Relay(h) \/ Dial(h) \/ GiveUp(h)

Next ==
  \/ \E u, t \in BOOLEAN : Start(u, t)
  \/ \E q \in Queries : UdpReads(q) \/ \E h \in TcpHandlers : TcpRead(h, q)
  \/ TcpAccepts
  \/ Loops
  \/ \E h \in Handlers : Step(h) \/ Answered(h)
  \/ \E h \in TcpHandlers : TcpWrite(h) \/ TcpClientLeaves(h)
  \/ \E list \in Lists : SetBlacklist(list)
  \/ Close \/ CloseReturns

\* Goroutines get to run and an exchange has a deadline.  Nothing makes an
\* upstream answer, or a TCP client send, read or leave.
Fairness ==
  /\ WF_vars(Loops) /\ WF_vars(CloseReturns)
  /\ \A h \in Handlers : WF_vars(Step(h))

Spec == Init /\ [][Next]_vars /\ Fairness

-----------------------------------------------------------------------------
(* Properties *)

\* What runs: the two loops, by their names, and the handlers.
Running ==
  {l \in {"udp", "tcp"} : \/ l = "udp" /\ udp \in {"wait", "got"}
                          \/ l = "tcp" /\ tcp \in {"wait", "got"}}
  \cup {h \in Handlers : pc[h] # "idle"}

D == INSTANCE Drain WITH
  active <- Running,
  state  <- CASE phase = "serving" -> "open"
              [] phase = "failed"  -> "closed"
              [] OTHER             -> phase

\* The counter of the wait group makes the proxy a server that drains: when
\* Close returns no loop and no handler is left, also one that was started for a
\* datagram read just before its socket was closed, and none starts any more.
DrainsOnClose == D!Spec

\* A UDP query is given up only after every upstream was asked, wherever the
\* round-robin counter stood when it came and however it moves meanwhile.
GivesUpAfterAll ==
  [][\A h \in UdpHandlers :
       GiveUp(h) /\ pc'[h] = "idle" => tried[h] \cup {Asked(h)} = Resolvers]_vars

\* Close ends unless a TCP client keeps a handler waiting: exchanges that are
\* under way, lost answers and queries read late do not delay it for ever.
OnlyClientsDelayClose ==
  <>[](phase = "closing") => []<>(\E h \in TcpHandlers : pc[h] \in {"read", "write"})

=============================================================================
