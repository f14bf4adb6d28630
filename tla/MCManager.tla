----------------------------- MODULE MCManager -----------------------------
(***************************************************************************)
(* Instances of Manager for TLC: the configurations an earlier run of the  *)
(* daemon can have left on disk, and the requests an administrator sends.  *)
(***************************************************************************)
EXTENDS Manager, TLC

CONSTANTS
  FirstName,     \* the interface a stored configuration holds
  FirstPort      \* and its port

NoFaults    == {}
CrashFaults == {"crash"}
AllFaults   == {"persist", "driver", "crash"}

NoPeers == [s \in Slots |-> NoPeer]

\* A peer as a fresh or, without a token, as a legacy configuration holds it.
StoredPeer(k, a, token) ==
  [key |-> k, priv |-> k, addr |-> a, aips |-> {HostPrefix(a)},
   on |-> TRUE, lim |-> FALSE, tok |-> token]

Stored(peers) ==
  WithIface(EmptyConfig, FirstName,
            [port |-> FirstPort, addr |-> 1, up |-> TRUE, peers |-> peers])

Empty      == {EmptyConfig}
WithLegacy == {Stored([NoPeers EXCEPT ![s] = StoredPeer(k, 2, FALSE)]) : s \in Slots, k \in Keys}
WithPeers  == {Stored([NoPeers EXCEPT ![s] = StoredPeer(k, 2, TRUE)]) : s \in Slots, k \in Keys}
OldAndNew  == WithLegacy \cup WithPeers
TwoAlike   == {[c EXCEPT !.ifs = [n \in Names |-> c.ifs[FirstName]]] : c \in WithPeers}

\* Requests.
AnyPort ==
  {[port |-> port, addr |-> NoHost, up |-> up] : port \in Ports \cup {Unset}, up \in BOOLEAN}

PeerRequest(k, a, aips, on, lim) ==
  [key |-> k, generate |-> FALSE, addr |-> a, aips |-> aips, on |-> on, lim |-> lim]

None     == {}
Imported == {PeerRequest(k, a, {}, TRUE, FALSE) : k \in Keys, a \in {2, 3}}

\* Address 1 is the interface's: such a request is refused.
AddressTaken == {PeerRequest(k, a, {}, on, FALSE) : k \in Keys, a \in {NoHost, 1}, on \in BOOLEAN}

\* The prefix of the stored peer, enabled or not, or the default route.
SharedRoute ==
  {PeerRequest(k, NoHost, {HostPrefix(2)}, on, TRUE) : k \in Keys, on \in BOOLEAN}
    \cup {PeerRequest(k, NoHost, {Default}, TRUE, TRUE) : k \in Keys}

ForwardOnly == {[fwd |-> TRUE, bl |-> {}]}
AnyForward  == {[fwd |-> fwd, bl |-> {}] : fwd \in BOOLEAN}
AnySettings == Settings

PeerSymmetry  == Permutations(Slots) \cup Permutations(Keys)
IfaceSymmetry == Permutations(Names)
AllSymmetry   == PeerSymmetry \cup IfaceSymmetry
=============================================================================
