------------------------------- MODULE Store -------------------------------
(***************************************************************************)
(* The desired-state configuration of the skyfired daemon (store/model.go) *)
(* and the pure helpers manager.go computes from it.  Everything here is   *)
(* constant-level: Manager.tla keeps a Config in memory and one on disk.   *)
(*                                                                         *)
(* Abstractions.  A peer object is a slot (its pointer identity), a public *)
(* key an element of Keys, a tunnel address a number of one subnet, a      *)
(* prefix either the /32 of an address or the default route; one address   *)
(* family stands for both.  Names, descriptions, DNS lists, MTU, keepalive *)
(* and time stamps are left out.                                           *)
(***************************************************************************)
EXTENDS Integers, FiniteSets

CONSTANTS
  Names,      \* interface names
  Slots,      \* peer objects an interface can hold
  Keys,       \* WireGuard public keys (a private key is named by its public key)
  Ports,      \* UDP ports an administrator may ask for; 0 = let the system choose
  Hosts,      \* host addresses of the tunnel subnet, in address order
  Entries,    \* block-list entries
  NoIface, NoPeer, NoKey

ASSUME PortsAssumption == Ports \subseteq Nat /\ 0 \in Ports
ASSUME HostsAssumption == Hosts \subseteq Nat \ {0}

NoHost == 0                          \* the empty address string

HostPrefix(h) == <<"host", h>>       \* clientAddressCIDR: the /32 of an address
Default       == <<"default", 0>>    \* 0.0.0.0/0
Prefixes      == {HostPrefix(h) : h \in Hosts} \cup {Default}

Peer ==
  [ key  : Keys,
    priv : Keys \cup {NoKey},        \* stored client private key, if any
    addr : Hosts \cup {NoHost},
    aips : SUBSET Prefixes,
    on   : BOOLEAN,                  \* Enabled
    lim  : BOOLEAN,                  \* a download or an upload limit is set
    tok  : BOOLEAN ]                 \* a client token exists

Iface ==
  [ port  : Ports,
    addr  : Hosts \cup {NoHost},
    up    : BOOLEAN,
    peers : [Slots -> Peer \cup {NoPeer}] ]

Config ==
  [ fwd : BOOLEAN,                   \* Settings.ForwardingEnabled
    bl  : SUBSET Entries,            \* Settings.Blacklist
    ifs : [Names -> Iface \cup {NoIface}] ]

ASSUME SentinelAssumption == NoIface \notin Iface /\ NoPeer \notin Peer /\ NoKey \notin Keys

EmptyConfig == [fwd |-> TRUE, bl |-> {}, ifs |-> [n \in Names |-> NoIface]]

-----------------------------------------------------------------------------

IfaceNames(c) == {n \in Names : c.ifs[n] # NoIface}
PeersOf(f)    == {s \in Slots : f.peers[s] # NoPeer}
Enabled(f)    == {s \in PeersOf(f) : f.peers[s].on}

\* The configuration with interface n replaced by f (or removed: NoIface).
WithIface(c, n, f) == [c EXCEPT !.ifs = [c.ifs EXCEPT ![n] = f]]

\* The interface with peer object s replaced by p (or removed: NoPeer).
WithPeer(f, s, p) == [f EXCEPT !.peers = [f.peers EXCEPT ![s] = p]]

\* Union of the AllowedIPs of the enabled peers.
AllowedIPs(f) == UNION {f.peers[s].aips : s \in Enabled(f)}

\* Does a set of prefixes ask for a full tunnel?
WantsDefault(aips) == Default \in aips

\* The prefixes that get a plain route on the device.
RouteTargets(aips) == aips \ {Default}

\* (mutant) Disabled peers are handed to the driver too.
ToDriverConfigAll(f, fwd) ==
  [ port  |-> f.port,
    mark  |-> WantsDefault(AllowedIPs(f)),
    fwd   |-> fwd,
    peers |-> {[key |-> f.peers[s].key, aips |-> f.peers[s].aips] : s \in PeersOf(f)} ]

\* What Configure is given: the enabled peers only, and the fwmark when one
\* of them is a full tunnel.
ToDriverConfig(f, fwd) ==
  [ port  |-> f.port,
    mark  |-> WantsDefault(AllowedIPs(f)),
    fwd   |-> fwd,
    peers |-> {[key |-> f.peers[s].key, aips |-> f.peers[s].aips] : s \in Enabled(f)} ]

\* The prefix sets that must be rate limited: those of the enabled, limited
\* peers, falling back to the tunnel address when a peer has no AllowedIPs.
ShapedPrefixes(p) ==
  IF p.aips = {} /\ p.addr # NoHost THEN {HostPrefix(p.addr)} ELSE p.aips

\* (mutant) Disabled peers are limited too.
ShapingSpecsAll(f) ==
  {ShapedPrefixes(f.peers[s]) : s \in {t \in PeersOf(f) : f.peers[t].lim}}

ShapingSpecs(f) ==
  {ShapedPrefixes(f.peers[s]) : s \in {t \in Enabled(f) : f.peers[t].lim}}

\* Does address a collide with the interface or with a peer outside skip?
\* The empty address never does.
DuplicateAddress(f, a, skip) ==
  /\ a # NoHost
  /\ \/ f.addr = a
     \/ \E s \in PeersOf(f) \ skip : f.peers[s].addr = a

\* (mutant) Only the peer that should be skipped is compared.
DuplicateKeyOfSkipped(f, k, skip) == \E s \in PeersOf(f) \cap skip : f.peers[s].key = k

DuplicateKey(f, k, skip) == \E s \in PeersOf(f) \ skip : f.peers[s].key = k

\* The hosts nextFreeAddress walks through: above the interface's own address,
\* inside the subnet, not held by a peer.
FreeAddresses(f) ==
  IF f.addr = NoHost THEN {}
  ELSE {h \in Hosts : h > f.addr /\ \A s \in PeersOf(f) : f.peers[s].addr # h}

\* An AllowedIPs list left empty defaults to the peer's own address.
OrOwnAddress(aips, a) ==
  IF aips = {} /\ a # NoHost THEN {HostPrefix(a)} ELSE aips

\* The interface with a client token generated for every peer that lacks one.
WithTokens(f) ==
  [f EXCEPT !.peers =
     [s \in Slots |-> IF f.peers[s] = NoPeer THEN NoPeer
                      ELSE [f.peers[s] EXCEPT !.tok = TRUE]]]

=============================================================================
