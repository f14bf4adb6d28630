--------------------------- MODULE ManagerProofs ---------------------------
(***************************************************************************)
(* Proofs about Manager.tla, for every value of its constants.             *)
(***************************************************************************)
EXTENDS Manager, TLAPS

-----------------------------------------------------------------------------
(* The operators of Store *)

LEMMA EmptyConfigType == EmptyConfig \in Config
BY DEF EmptyConfig, Config

LEMMA WithIfaceType ==
  ASSUME NEW c \in Config, NEW n \in Names, NEW f \in Iface \cup {NoIface}
  PROVE  /\ WithIface(c, n, f) \in Config
         /\ WithIface(c, n, f).ifs[n] = f
         /\ \A m \in Names \ {n} : WithIface(c, n, f).ifs[m] = c.ifs[m]
BY DEF WithIface, Config

LEMMA WithPeerType ==
  ASSUME NEW f \in Iface, NEW s \in Slots, NEW p \in Peer \cup {NoPeer}
  PROVE  /\ WithPeer(f, s, p) \in Iface
         /\ WithPeer(f, s, p).peers[s] = p
         /\ \A t \in Slots \ {s} : WithPeer(f, s, p).peers[t] = f.peers[t]
BY DEF WithPeer, Iface

LEMMA WithTokensType ==
  ASSUME NEW f \in Iface
  PROVE  WithTokens(f) \in Iface
<1> DEFINE P == [s \in Slots |-> IF f.peers[s] = NoPeer THEN NoPeer
                                 ELSE [f.peers[s] EXCEPT !.tok = TRUE]]
<1>1. P \in [Slots -> Peer \cup {NoPeer}]
  <2> SUFFICES ASSUME NEW s \in Slots, f.peers[s] # NoPeer
               PROVE  [f.peers[s] EXCEPT !.tok = TRUE] \in Peer
    OBVIOUS
  <2>1. f.peers[s] \in Peer
    BY DEF Iface
  <2> QED
    BY <2>1 DEF Peer
<1>2. WithTokens(f) = [f EXCEPT !.peers = P]
  BY DEF WithTokens
<1> QED
  BY <1>1, <1>2 DEF Iface

LEMMA ConfigParts ==
  ASSUME NEW c \in Config, NEW n \in Names, c.ifs[n] # NoIface
  PROVE  /\ c.ifs[n] \in Iface
         /\ c.ifs[n].up \in BOOLEAN
         /\ c.ifs[n].port \in Ports
         /\ c.ifs[n].addr \in Hosts \cup {NoHost}
         /\ \A s \in Slots : c.ifs[n].peers[s] # NoPeer => c.ifs[n].peers[s] \in Peer
BY DEF Config, Iface

LEMMA AllowedIPsType ==
  ASSUME NEW f \in Iface
  PROVE  AllowedIPs(f) \in SUBSET Prefixes
<1>1. \A s \in Enabled(f) : f.peers[s].aips \subseteq Prefixes
  BY DEF Enabled, PeersOf, Iface, Peer
<1> QED
  BY <1>1 DEF AllowedIPs

LEMMA ToDriverConfigType ==
  ASSUME NEW f \in Iface, NEW fwd \in BOOLEAN
  PROVE  ToDriverConfig(f, fwd) \in
           [port : Ports, mark : BOOLEAN, fwd : BOOLEAN, peers : SUBSET PeerSpec]
<1>1. \A s \in Enabled(f) : f.peers[s].key \in Keys /\ f.peers[s].aips \in SUBSET Prefixes
  BY DEF Enabled, PeersOf, Iface, Peer
<1>2. f.port \in Ports /\ WantsDefault(AllowedIPs(f)) \in BOOLEAN
  BY DEF Iface, WantsDefault
<1> QED
  BY <1>1, <1>2 DEF ToDriverConfig, PeerSpec

LEMMA ShapingSpecsType ==
  ASSUME NEW f \in Iface
  PROVE  ShapingSpecs(f) \in SUBSET SUBSET Prefixes
<1>1. ASSUME NEW s \in Enabled(f)
      PROVE  ShapedPrefixes(f.peers[s]) \in SUBSET Prefixes
  <2>1. f.peers[s] \in Peer
    BY DEF Enabled, PeersOf, Iface
  <2> QED
    BY <2>1 DEF ShapedPrefixes, Peer, Prefixes
<1> QED
  BY <1>1 DEF ShapingSpecs

-----------------------------------------------------------------------------
(* The operators of Driver *)

\* v is a world that differs from w at the device of n at most.
Touches(w, v, n) == v \in World /\ \A m \in Names \ {n} : v.dev[m] = w.dev[m]

LEMMA TouchesTrans ==
  ASSUME NEW u, NEW v, NEW w, NEW n, Touches(u, v, n), Touches(v, w, n)
  PROVE  Touches(u, w, n)
BY DEF Touches

LEMMA WithDevType ==
  ASSUME NEW w \in World, NEW n \in Names, NEW d \in Device \cup {NoDev}
  PROVE  /\ WithDev(w, n, d) \in World
         /\ Touches(w, WithDev(w, n, d), n)
         /\ WithDev(w, n, d).dev[n] = d
BY DEF WithDev, World, Touches

LEMMA BlankDeviceType == BlankDevice \in Device
BY PortsAssumption DEF BlankDevice, Device

LEMMA InitWorldType == InitWorld \in World
BY DEF InitWorld, World

LEMMA CreateType ==
  ASSUME NEW w \in World, NEW n \in Names
  PROVE  Touches(w, Create(w, n), n) /\ Create(w, n).dev[n] \in Device
BY WithDevType, BlankDeviceType DEF Create, Exists, World, Touches

LEMMA ConfigureType ==
  ASSUME NEW w \in World, NEW n \in Names, w.dev[n] \in Device,
         NEW cfg \in [port : Ports, mark : BOOLEAN, fwd : BOOLEAN, peers : SUBSET PeerSpec]
  PROVE  Touches(w, Configure(w, n, cfg), n) /\ Configure(w, n, cfg).dev[n] \in Device
<1> DEFINE d == [w.dev[n] EXCEPT !.port  = IF cfg.port > 0 THEN cfg.port ELSE @,
                                 !.mark  = cfg.mark \/ @,
                                 !.fwd   = cfg.fwd,
                                 !.peers = cfg.peers]
<1>1. (cfg.mark \/ w.dev[n].mark) \in BOOLEAN
  OBVIOUS
<1>2. (IF cfg.port > 0 THEN cfg.port ELSE w.dev[n].port) \in Ports
  BY DEF Device
<1>3. d \in Device
  BY <1>1, <1>2 DEF Device
<1>4. Configure(w, n, cfg) = WithDev(w, n, d)
  BY DEF Configure
<1> QED
  BY <1>3, <1>4, WithDevType

LEMMA SetAddressesType ==
  ASSUME NEW w \in World, NEW n \in Names, w.dev[n] \in Device, NEW a \in Hosts
  PROVE  Touches(w, SetAddresses(w, n, a), n) /\ SetAddresses(w, n, a).dev[n] \in Device
<1> DEFINE A == IF OSStack THEN w.dev[n].addrs \cup {a}
                ELSE IF w.dev[n].built THEN w.dev[n].addrs ELSE {a}
<1>1. A \in SUBSET Hosts
  BY DEF Device
<1>2. [w.dev[n] EXCEPT !.addrs = A] \in Device
  BY <1>1 DEF Device
<1>3. SetAddresses(w, n, a) = WithDev(w, n, [w.dev[n] EXCEPT !.addrs = A])
  BY DEF SetAddresses
<1> QED
  BY <1>2, <1>3, WithDevType

LEMMA UpType ==
  ASSUME NEW w \in World, NEW n \in Names, w.dev[n] \in Device
  PROVE  Touches(w, Up(w, n), n) /\ Up(w, n).dev[n] \in Device
<1> DEFINE d == [w.dev[n] EXCEPT !.up = TRUE, !.built = ~OSStack]
<1>1. OSStack \in BOOLEAN
  BY DEF OSStack
<1>2. d \in Device
  BY <1>1 DEF Device
<1>3. Up(w, n) = WithDev(w, n, d)
  BY DEF Up
<1> QED
  BY <1>2, <1>3, WithDevType

LEMMA DropTableType ==
  ASSUME NEW w \in World, NEW n \in Names
  PROVE  DropTable(w, n) \in World /\ DropTable(w, n).dev = w.dev
BY DEF DropTable, World

LEMMA DownType ==
  ASSUME NEW w \in World, NEW n \in Names, w.dev[n] \in Device
  PROVE  Touches(w, Down(w, n), n) /\ Down(w, n).dev[n] \in Device
<1> DEFINE d == [w.dev[n] EXCEPT !.up = FALSE, !.routes = {}]
<1>1. d \in Device
  BY DEF Device
<1>2. QED
  <2>1. /\ WithDev(w, n, d) \in World
        /\ Touches(w, WithDev(w, n, d), n)
        /\ WithDev(w, n, d).dev[n] = d
    BY <1>1, WithDevType
  <2>2. /\ Down(w, n) \in World
        /\ Down(w, n).dev = WithDev(w, n, d).dev
    BY <2>1, DropTableType DEF Down
  <2> QED
    BY <1>1, <2>1, <2>2 DEF Touches

LEMMA RemoveType ==
  ASSUME NEW w \in World, NEW n \in Names
  PROVE  /\ Touches(w, Remove(w, n), n)
         /\ Remove(w, n).dev = WithDev(w, n, NoDev).dev
<1> DEFINE gone == DropTable(WithDev(w, n, NoDev), n)
<1>1. gone \in World /\ gone.dev = WithDev(w, n, NoDev).dev
  BY WithDevType, DropTableType
<1>2. [gone EXCEPT !.bl = [w.bl EXCEPT ![n] = {}]] \in World
  BY <1>1 DEF World
<1>3. [gone EXCEPT !.bl = [w.bl EXCEPT ![n] = {}]].dev = gone.dev
  BY <1>1 DEF World
<1> QED
  BY <1>1, <1>2, <1>3, WithDevType DEF Remove, Touches

LEMMA ApplyShapingType ==
  ASSUME NEW w \in World, NEW n \in Names, NEW specs \in SUBSET SUBSET Prefixes
  PROVE  /\ Touches(w, ApplyShaping(w, n, specs), n)
         /\ w.dev[n] \in Device => ApplyShaping(w, n, specs).dev[n] \in Device
<1>1. CASE ~Exists(w, n)
  BY <1>1 DEF ApplyShaping, Touches
<1>2. CASE Exists(w, n)
  <2>1. w.dev[n] \in Device
    BY <1>2 DEF Exists, World
  <2>2. [w.dev[n] EXCEPT !.shaped = specs] \in Device
    BY <2>1 DEF Device
  <2> QED
    BY <1>2, <2>2, WithDevType DEF ApplyShaping
<1> QED
  BY <1>1, <1>2

LEMMA ApplyBlacklistType ==
  ASSUME NEW w \in World, NEW n \in Names, NEW entries \in SUBSET Entries
  PROVE  /\ ApplyBlacklist(w, n, entries) \in World
         /\ ApplyBlacklist(w, n, entries).dev = w.dev
BY DEF ApplyBlacklist, World

LEMMA EnsureForwardingType ==
  ASSUME NEW w \in World
  PROVE  EnsureForwarding(w) \in World /\ EnsureForwarding(w).dev = w.dev
BY DEF EnsureForwarding, World

LEMMA AddRoutesType ==
  ASSUME NEW w \in World, NEW n \in Names, w.dev[n] \in Device,
         NEW aips \in SUBSET Prefixes
  PROVE  Touches(w, AddRoutes(w, n, aips), n) /\ AddRoutes(w, n, aips).dev[n] \in Device
<1>1. w.dev[n].routes \cup (RouteTargets(aips) \ RoutedElsewhere(w, n)) \in SUBSET Prefixes
  BY DEF Device, RouteTargets
<1>2. [w.dev[n] EXCEPT !.routes = @ \cup (RouteTargets(aips) \ RoutedElsewhere(w, n))] \in Device
  BY <1>1 DEF Device
<1> QED
  BY <1>2, WithDevType DEF AddRoutes

LEMMA RemoveRoutesType ==
  ASSUME NEW w \in World, NEW n \in Names, NEW aips \in SUBSET Prefixes
  PROVE  /\ Touches(w, RemoveRoutes(w, n, aips), n)
         /\ w.dev[n] \in Device => RemoveRoutes(w, n, aips).dev[n] \in Device
<1>1. CASE ~Exists(w, n)
  BY <1>1 DEF RemoveRoutes, Touches
<1>2. CASE Exists(w, n)
  <2>1. w.dev[n] \in Device
    BY <1>2 DEF Exists, World
  <2>2. w.dev[n].routes \ RouteTargets(aips) \in SUBSET Prefixes
    BY <2>1 DEF Device
  <2>3. [w.dev[n] EXCEPT !.routes = @ \ RouteTargets(aips)] \in Device
    BY <2>1, <2>2 DEF Device
  <2> QED
    BY <1>2, <2>3, WithDevType DEF RemoveRoutes
<1> QED
  BY <1>1, <1>2

LEMMA AddDefaultRoutesType ==
  ASSUME NEW w \in World, NEW n \in Names
  PROVE  AddDefaultRoutes(w, n) \in World /\ AddDefaultRoutes(w, n).dev = w.dev
BY DEF AddDefaultRoutes, World

LEMMA RemoveDefaultRoutesType ==
  ASSUME NEW w \in World, NEW n \in Names
  PROVE  RemoveDefaultRoutes(w, n) \in World /\ RemoveDefaultRoutes(w, n).dev = w.dev
<1>1. DropTable(w, n) \in World /\ DropTable(w, n).dev = w.dev
  BY DropTableType
<1> QED
  BY <1>1 DEF RemoveDefaultRoutes, World

LEMMA SurvivorsType ==
  ASSUME NEW w \in World
  PROVE  /\ Survivors(w) \in World
         /\ \A n \in Names : Survivors(w).dev[n] \in {w.dev[n], NoDev}
BY DEF Survivors, World

-----------------------------------------------------------------------------
(* Applying one interface *)

LEMMA PreparedType ==
  ASSUME NEW w \in World, NEW n \in Names, NEW f \in Iface, NEW fwd \in BOOLEAN, NEW fails
  PROVE  /\ Touches(w, Prepared(w, n, f, fwd, fails), n)
         /\ fails # "create" => Prepared(w, n, f, fwd, fails).dev[n] \in Device
<1> DEFINE w1 == Create(w, n)
           w2 == Configure(w1, n, ToDriverConfig(f, fwd))
           w3 == IF f.addr = NoHost THEN w2 ELSE SetAddresses(w2, n, f.addr)
<1>1. Touches(w, w, n)
  BY DEF Touches
<1>2. Touches(w, w1, n) /\ w1.dev[n] \in Device
  BY CreateType
<1> HIDE DEF w1
<1>3. Touches(w, w2, n) /\ w2.dev[n] \in Device
  <2>1. Touches(w1, w2, n) /\ w2.dev[n] \in Device
    BY <1>2, ToDriverConfigType, ConfigureType DEF Touches
  <2> QED
    BY <1>2, <2>1, TouchesTrans
<1> HIDE DEF w2
<1>4. Touches(w, w3, n) /\ w3.dev[n] \in Device
  <2>1. CASE f.addr = NoHost
    BY <1>3, <2>1
  <2>2. CASE f.addr # NoHost
    <3>1. f.addr \in Hosts
      BY <2>2 DEF Iface
    <3>2. Touches(w2, w3, n) /\ w3.dev[n] \in Device
      BY <1>3, <2>2, <3>1, SetAddressesType DEF Touches
    <3> QED
      BY <1>3, <3>2, TouchesTrans
  <2> QED
    BY <2>1, <2>2
<1>5. Prepared(w, n, f, fwd, fails) =
        CASE fails = "create"    -> w
          [] fails = "configure" -> w1
          [] fails = "addresses" -> w2
          [] OTHER               -> w3
  BY DEF Prepared, w1, w2
<1> HIDE DEF w3
<1> QED
  BY <1>1, <1>2, <1>3, <1>4, <1>5

LEMMA PlumbedType ==
  ASSUME NEW w \in World, NEW n \in Names, NEW f \in Iface, NEW fwd \in BOOLEAN, NEW skip,
         w.dev[n] \in Device
  PROVE  Touches(w, Plumbed(w, n, f, fwd, skip), n) /\ Plumbed(w, n, f, fwd, skip).dev[n] \in Device
<1> DEFINE w1 == IF fwd /\ "forwarding" \notin skip THEN EnsureForwarding(w) ELSE w
           w2 == IF "routes" \notin skip THEN AddRoutes(w1, n, AllowedIPs(f)) ELSE w1
           w3 == IF WantsDefault(AllowedIPs(f)) /\ fwd /\ "default" \notin skip
                 THEN AddDefaultRoutes(w2, n) ELSE w2
<1>1. Touches(w, w1, n) /\ w1.dev[n] \in Device
  BY EnsureForwardingType DEF Touches
<1> HIDE DEF w1
<1>2. Touches(w1, w2, n) /\ w2.dev[n] \in Device
  BY <1>1, AllowedIPsType, AddRoutesType DEF Touches
<1> HIDE DEF w2
<1>3. Touches(w2, w3, n) /\ w3.dev[n] \in Device
  BY <1>2, AddDefaultRoutesType DEF Touches
<1>4. Plumbed(w, n, f, fwd, skip) = w3
  BY DEF Plumbed, w1, w2
<1> HIDE DEF w3
<1> QED
  BY <1>1, <1>2, <1>3, <1>4, TouchesTrans

LEMMA UnplumbedType ==
  ASSUME NEW w \in World, NEW n \in Names, NEW aips \in SUBSET Prefixes
  PROVE  /\ Touches(w, Unplumbed(w, n, aips), n)
         /\ Exists(Unplumbed(w, n, aips), n) => Exists(w, n)
         /\ w.dev[n] \in Device => Unplumbed(w, n, aips).dev[n] \in Device
<1> DEFINE w1 == RemoveRoutes(w, n, aips)
           w2 == IF WantsDefault(aips) THEN RemoveDefaultRoutes(w1, n) ELSE w1
<1>1. /\ Touches(w, w1, n)
      /\ w.dev[n] \in Device => w1.dev[n] \in Device
      /\ Exists(w1, n) => Exists(w, n)
  BY RemoveRoutesType DEF RemoveRoutes
<1> HIDE DEF w1
<1>2. Touches(w1, w2, n) /\ w2.dev = w1.dev
  BY <1>1, RemoveDefaultRoutesType DEF Touches
<1>3. Unplumbed(w, n, aips) = w2
  BY DEF Unplumbed, w1
<1> HIDE DEF w2
<1> QED
  BY <1>1, <1>2, <1>3, TouchesTrans DEF Exists

LEMMA RaisedType ==
  ASSUME NEW w \in World, NEW n \in Names, NEW f \in Iface, NEW fwd \in BOOLEAN, NEW skip,
         NEW shaped \in SUBSET SUBSET Prefixes, NEW dropped \in SUBSET Entries,
         w.dev[n] \in Device
  PROVE  /\ Touches(w, Raised(w, n, f, fwd, skip, shaped, dropped), n)
         /\ Raised(w, n, f, fwd, skip, shaped, dropped).dev[n] \in Device
<1> DEFINE w1 == Up(w, n)
           w2 == IF OSStack THEN Plumbed(w1, n, f, fwd, skip) ELSE w1
           w3 == ApplyShaping(w2, n, shaped)
           w4 == ApplyBlacklist(w3, n, dropped)
<1>1. Touches(w, w1, n) /\ w1.dev[n] \in Device
  BY UpType
<1> HIDE DEF w1
<1>2. Touches(w, w2, n) /\ w2.dev[n] \in Device
  <2>1. Touches(w1, w2, n) /\ w2.dev[n] \in Device
    BY <1>1, PlumbedType DEF Touches
  <2> QED
    BY <1>1, <2>1, TouchesTrans
<1> HIDE DEF w2
<1>3. Touches(w, w3, n) /\ w3.dev[n] \in Device
  <2>1. Touches(w2, w3, n) /\ w3.dev[n] \in Device
    BY <1>2, ApplyShapingType DEF Touches
  <2> QED
    BY <1>2, <2>1, TouchesTrans
<1> HIDE DEF w3
<1>4. Touches(w, w4, n) /\ w4.dev[n] \in Device
  BY <1>3, ApplyBlacklistType DEF Touches
<1>5. Raised(w, n, f, fwd, skip, shaped, dropped) = w4
  BY DEF Raised, w1, w2, w3
<1> HIDE DEF w4
<1> QED
  BY <1>4, <1>5

LEMMA ClearedType ==
  ASSUME NEW w \in World, NEW n \in Names, NEW f \in Iface, w.dev[n] \in Device
  PROVE  Touches(w, Cleared(w, n, f), n) /\ Cleared(w, n, f).dev[n] \in Device
<1> DEFINE w1 == ApplyShaping(w, n, {})
           w2 == ApplyBlacklist(w1, n, {})
           w3 == IF OSStack THEN Unplumbed(w2, n, AllowedIPs(f)) ELSE w2
<1>1. Touches(w, w1, n) /\ w1.dev[n] \in Device
  BY ApplyShapingType
<1> HIDE DEF w1
<1>2. Touches(w, w2, n) /\ w2.dev[n] \in Device
  BY <1>1, ApplyBlacklistType DEF Touches
<1> HIDE DEF w2
<1>3. Touches(w, w3, n) /\ w3.dev[n] \in Device
  <2>1. Touches(w2, w3, n) /\ w3.dev[n] \in Device
    BY <1>2, AllowedIPsType, UnplumbedType DEF Touches
  <2> QED
    BY <1>2, <2>1, TouchesTrans
<1>4. Cleared(w, n, f) = w3
  BY DEF Cleared, w1, w2
<1> HIDE DEF w3
<1> QED
  BY <1>3, <1>4

\* A successful application leaves a device for n and touches no other.
LEMMA AppliedType ==
  ASSUME NEW c \in Config, NEW n \in Names, NEW f \in Iface, NEW w \in World, NEW v,
         NEW partial \in BOOLEAN, Applied(c, n, f, w, v, partial)
  PROVE  Touches(w, v, n) /\ v.dev[n] \in Device
<1> DEFINE ready == Prepared(w, n, f, c.fwd, "none")
<1>1. c.fwd \in BOOLEAN /\ c.bl \in SUBSET Entries
  BY DEF Config
<1>2. Touches(w, ready, n) /\ ready.dev[n] \in Device
  BY <1>1, PreparedType
<1> HIDE DEF ready
<1>3. CASE f.up
  <2>1. PICK skip \in SkipOutcomes(partial), shaped \in ShapedOutcomes(w, n, f, partial),
             dropped \in DroppedOutcomes(w, n, c.bl, partial) :
          v = Raised(ready, n, f, c.fwd, skip, shaped, dropped)
    BY <1>3 DEF Applied, ready
  <2>2. shaped \in SUBSET SUBSET Prefixes
    <3>1. Exists(w, n) => w.dev[n].shaped \in SUBSET SUBSET Prefixes
      BY DEF Exists, World, Device
    <3>2. ShapingSpecs(f) \in SUBSET SUBSET Prefixes
      BY ShapingSpecsType
    <3>3. \/ shaped \in SUBSET ShapingSpecs(f)
          \/ shaped = ShapingSpecs(f)
          \/ Exists(w, n) /\ shaped = w.dev[n].shaped
      BY DEF ShapedOutcomes
    <3> QED
      BY <3>1, <3>2, <3>3
  <2>3. dropped \in SUBSET Entries
    BY <1>1 DEF DroppedOutcomes, World
  <2>4. Touches(ready, v, n) /\ v.dev[n] \in Device
    <3>1. ready \in World
      BY <1>2 DEF Touches
    <3>2. /\ Touches(ready, Raised(ready, n, f, c.fwd, skip, shaped, dropped), n)
          /\ Raised(ready, n, f, c.fwd, skip, shaped, dropped).dev[n] \in Device
      BY <1>1, <1>2, <2>2, <2>3, <3>1, RaisedType
    <3> QED
      BY <2>1, <3>2
  <2> QED
    BY <1>2, <2>4, TouchesTrans
<1>4. CASE ~f.up
  <2> DEFINE u == Cleared(ready, n, f)
  <2>1. v = Down(u, n)
    BY <1>4 DEF Applied, ready
  <2>2. Touches(ready, u, n) /\ u.dev[n] \in Device
    BY <1>2, ClearedType DEF Touches
  <2> HIDE DEF u
  <2>3. Touches(u, v, n) /\ v.dev[n] \in Device
    BY <2>1, <2>2, DownType DEF Touches
  <2> QED
    BY <1>2, <2>2, <2>3, TouchesTrans
<1> QED
  BY <1>3, <1>4

LEMMA ApplyStoppedType ==
  ASSUME NEW c \in Config, NEW n \in Names, NEW f \in Iface, NEW w \in World, NEW v,
         ApplyStopped(c, n, f, w, v)
  PROVE  Touches(w, v, n)
<1>1. PICK call \in HardCalls :
        v = IF call = "link" /\ ~f.up THEN Cleared(Prepared(w, n, f, c.fwd, call), n, f)
            ELSE Prepared(w, n, f, c.fwd, call)
  BY DEF ApplyStopped
<1> DEFINE ready == Prepared(w, n, f, c.fwd, call)
<1>2. Touches(w, ready, n) /\ (call # "create" => ready.dev[n] \in Device)
  BY PreparedType DEF Config
<1>3. v = IF call = "link" /\ ~f.up THEN Cleared(ready, n, f) ELSE ready
  BY <1>1
<1> HIDE DEF ready
<1>4. CASE call = "link" /\ ~f.up
  <2>1. Touches(ready, v, n)
    BY <1>2, <1>3, <1>4, ClearedType DEF Touches
  <2> QED
    BY <1>2, <2>1, TouchesTrans
<1>5. CASE ~(call = "link" /\ ~f.up)
  BY <1>2, <1>3, <1>5
<1> QED
  BY <1>4, <1>5

LEMMA UnpluggedType ==
  ASSUME NEW w \in World, NEW n \in Names, NEW f \in Iface, NEW gone \in BOOLEAN
  PROVE  /\ Touches(w, Unplugged(w, n, f, gone), n)
         /\ gone => ~Exists(Unplugged(w, n, f, gone), n)
<1> DEFINE w1 == IF OSStack THEN Unplumbed(w, n, AllowedIPs(f)) ELSE w
           w2 == ApplyShaping(w1, n, {})
           w3 == ApplyBlacklist(w2, n, {})
           w4 == IF gone THEN Remove(w3, n) ELSE w3
<1>1. Touches(w, w1, n)
  BY AllowedIPsType, UnplumbedType DEF Touches
<1> HIDE DEF w1
<1>2. Touches(w, w2, n)
  <2>1. Touches(w1, w2, n)
    BY <1>1, ApplyShapingType DEF Touches
  <2> QED
    BY <1>1, <2>1, TouchesTrans
<1> HIDE DEF w2
<1>3. Touches(w, w3, n)
  BY <1>2, ApplyBlacklistType DEF Touches
<1> HIDE DEF w3
<1>4. Touches(w, w4, n) /\ (gone => w4.dev[n] = NoDev)
  <2>1. Touches(w3, Remove(w3, n), n) /\ Remove(w3, n).dev[n] = NoDev
    BY <1>3, RemoveType, WithDevType DEF Touches
  <2> QED
    BY <1>3, <2>1, TouchesTrans
<1>5. Unplugged(w, n, f, gone) = w4
  BY DEF Unplugged, w1, w2, w3
<1> HIDE DEF w4
<1> QED
  BY <1>4, <1>5 DEF Exists

-----------------------------------------------------------------------------
(* Type correctness *)

LEMMA NoJobType == NoJob \in Job
BY DEF NoJob, Job, Ops, ViewOps

LEMMA ExitType ==
  ASSUME TypeOK, Exit, world' \in World
  PROVE  TypeOK'
<1>1. result' \in Result
  BY DEF Exit, Answer, Result, Ops
<1> QED
  BY <1>1, NoJobType DEF Exit, TypeOK

LEMMA CommitType ==
  ASSUME TypeOK, phase = "idle", world' \in World,
         NEW c \in Config, NEW op \in Ops, NEW n \in Names \cup {NoName},
         NEW todo \in SUBSET IfaceNames(c), NEW old \in BOOLEAN,
         Commit(c, op, n, todo, old)
  PROVE  TypeOK'
<1>1. CASE /\ mem' = c
           /\ disk' = c
           /\ phase' = IF todo = {} THEN "idle" ELSE "apply"
           /\ job' = IF todo = {} THEN NoJob ELSE [op |-> op, todo |-> todo, old |-> old]
           /\ result' = Answer(op, n, IF todo = {} THEN "ok" ELSE "pending")
  <2>1. todo \in SUBSET Names
    BY DEF IfaceNames
  <2>2. job' \in Job
    BY <1>1, <2>1, NoJobType DEF Job
  <2>3. result' \in Result
    BY <1>1 DEF Answer, Result
  <2>4. phase' = "apply" => job'.todo # {} /\ job'.todo \subseteq IfaceNames(mem')
    BY <1>1
  <2>5. mem' \in Config /\ disk' \in Config /\ phase' \in {"off", "idle", "apply"}
    BY <1>1
  <2> QED
    BY <2>2, <2>3, <2>4, <2>5 DEF TypeOK, IfaceNames
<1>2. CASE /\ mem' = c
           /\ result' = Answer(op, n, "error")
           /\ UNCHANGED <<disk, phase, job>>
  <2>1. result' \in Result
    BY <1>2 DEF Answer, Result
  <2> QED
    BY <1>2, <2>1 DEF TypeOK
<1>3. CASE Exit
  BY <1>3, ExitType
<1> QED
  BY <1>1, <1>2, <1>3 DEF Commit

\* The interface n of the memory, while it exists.
LEMMA MemIface ==
  ASSUME TypeOK, NEW n \in Names, mem.ifs[n] # NoIface
  PROVE  mem.ifs[n] \in Iface /\ mem \in Config
BY DEF TypeOK, Config

LEMMA WithIfaceNames ==
  ASSUME NEW c \in Config, NEW n \in Names, NEW f \in Iface
  PROVE  IfaceNames(WithIface(c, n, f)) = IfaceNames(c) \cup {n}
BY WithIfaceType, SentinelAssumption DEF IfaceNames

LEMMA CreateInterfaceType ==
  ASSUME TypeOK, NEW n \in Names, NEW in \in Patches, CreateInterface(n, in)
  PROVE  TypeOK'
<1> DEFINE f == [port |-> in.port, addr |-> in.addr, up |-> in.up,
                 peers |-> [s \in Slots |-> NoPeer]]
<1>1. f \in Iface
  BY InputsAssumption DEF CreateInterface, InterfacePatch, Iface
<1> HIDE DEF f
<1>2. WithIface(mem, n, f) \in Config /\ {n} \in SUBSET IfaceNames(WithIface(mem, n, f))
  BY <1>1, WithIfaceType, WithIfaceNames DEF TypeOK
<1>3. Commit(WithIface(mem, n, f), "iface", n, {n}, FALSE) /\ phase = "idle" /\ world' \in World
  BY DEF CreateInterface, f, TypeOK
<1> QED
  BY <1>2, <1>3, CommitType DEF Ops, ViewOps

LEMMA UpdateInterfaceType ==
  ASSUME TypeOK, NEW n \in Names, NEW in \in Patches, UpdateInterface(n, in)
  PROVE  TypeOK'
<1> DEFINE f == [mem.ifs[n] EXCEPT !.port = IF in.port = Unset THEN @ ELSE in.port,
                                   !.addr = in.addr, !.up = in.up]
<1>1. f \in Iface
  <2>1. mem.ifs[n] \in Iface
    BY MemIface DEF UpdateInterface
  <2>2. (IF in.port = Unset THEN mem.ifs[n].port ELSE in.port) \in Ports
    BY <2>1, InputsAssumption DEF InterfacePatch, Iface
  <2>3. in.addr \in Hosts \cup {NoHost} /\ in.up \in BOOLEAN
    BY InputsAssumption DEF InterfacePatch
  <2> QED
    BY <2>1, <2>2, <2>3 DEF Iface
<1> HIDE DEF f
<1>2. WithIface(mem, n, f) \in Config /\ {n} \in SUBSET IfaceNames(WithIface(mem, n, f))
  BY <1>1, WithIfaceType, WithIfaceNames DEF TypeOK
<1>3. Commit(WithIface(mem, n, f), "iface", n, {n}, FALSE) /\ phase = "idle" /\ world' \in World
  BY DEF UpdateInterface, f, TypeOK
<1> QED
  BY <1>2, <1>3, CommitType DEF Ops, ViewOps

LEMMA DeleteInterfaceType ==
  ASSUME TypeOK, NEW n \in Names, DeleteInterface(n)
  PROVE  TypeOK'
<1>1. mem.ifs[n] \in Iface /\ mem \in Config
  BY MemIface DEF DeleteInterface
<1>2. world' \in World
  <2>1. PICK gone \in BOOLEAN : world' = Unplugged(world, n, mem.ifs[n], gone)
    BY DEF DeleteInterface
  <2> QED
    BY <1>1, <2>1, UnpluggedType DEF TypeOK, Touches
<1>3. WithIface(mem, n, NoIface) \in Config /\ {} \in SUBSET IfaceNames(WithIface(mem, n, NoIface))
  BY <1>1, WithIfaceType
<1>4. Commit(WithIface(mem, n, NoIface), "remove", n, {}, FALSE) /\ phase = "idle"
  BY DEF DeleteInterface
<1> QED
  BY <1>2, <1>3, <1>4, CommitType DEF Ops

LEMMA SetInterfaceUpType ==
  ASSUME TypeOK, NEW n \in Names, NEW up \in UpInputs, SetInterfaceUp(n, up)
  PROVE  TypeOK'
<1> DEFINE f == [mem.ifs[n] EXCEPT !.up = up]
<1>1. mem.ifs[n] \in Iface /\ up \in BOOLEAN
  BY MemIface, InputsAssumption DEF SetInterfaceUp
<1>2. f \in Iface /\ mem.ifs[n].up \in BOOLEAN
  BY <1>1 DEF Iface
<1> HIDE DEF f
<1>3. WithIface(mem, n, f) \in Config /\ {n} \in SUBSET IfaceNames(WithIface(mem, n, f))
  BY <1>2, WithIfaceType, WithIfaceNames DEF TypeOK
<1>4. /\ Commit(WithIface(mem, n, f), "toggle", n, {n}, mem.ifs[n].up)
      /\ phase = "idle" /\ world' \in World
  BY DEF SetInterfaceUp, f, TypeOK
<1> QED
  BY <1>2, <1>3, <1>4, CommitType DEF Ops, ViewOps

LEMMA AssignedAddressesType ==
  ASSUME NEW f \in Iface, NEW addr \in Hosts \cup {NoHost},
         NEW a \in AssignedAddresses(f, addr)
  PROVE  a \in Hosts
BY DEF AssignedAddresses, FreeAddresses

LEMMA CreatePeerType ==
  ASSUME TypeOK, NEW n \in Names, NEW s \in Slots, NEW in \in PeerInputs, CreatePeer(n, s, in)
  PROVE  TypeOK'
<1>1. mem.ifs[n] \in Iface /\ in \in PeerInput /\ phase = "idle" /\ world' \in World
  BY MemIface, InputsAssumption DEF CreatePeer, TypeOK
<1>2. PICK a \in AssignedAddresses(mem.ifs[n], in.addr) :
        Commit(WithIface(mem, n,
                 WithPeer(mem.ifs[n], s,
                   [key |-> in.key, priv |-> IF in.generate THEN in.key ELSE NoKey,
                    addr |-> a, aips |-> {HostPrefix(a)},
                    on |-> TRUE, lim |-> in.lim, tok |-> TRUE])),
               "peer", n, {n}, FALSE)
  BY DEF CreatePeer
<1> DEFINE p == [key |-> in.key, priv |-> IF in.generate THEN in.key ELSE NoKey,
                 addr |-> a, aips |-> {HostPrefix(a)},
                 on |-> TRUE, lim |-> in.lim, tok |-> TRUE]
           f == WithPeer(mem.ifs[n], s, p)
<1>3. p \in Peer
  <2>1. a \in Hosts
    BY <1>1, AssignedAddressesType DEF PeerInput
  <2>2. {HostPrefix(a)} \in SUBSET Prefixes
    BY <2>1 DEF Prefixes
  <2> QED
    BY <1>1, <2>1, <2>2 DEF Peer, PeerInput
<1> HIDE DEF p
<1>4. f \in Iface
  BY <1>1, <1>3, WithPeerType
<1>5. Commit(WithIface(mem, n, f), "peer", n, {n}, FALSE)
  BY <1>2 DEF p
<1> HIDE DEF f
<1>6. WithIface(mem, n, f) \in Config /\ {n} \in SUBSET IfaceNames(WithIface(mem, n, f))
  BY <1>4, WithIfaceType, WithIfaceNames DEF TypeOK
<1> QED
  BY <1>1, <1>5, <1>6, CommitType DEF Ops, ViewOps

LEMMA ReaddressedType ==
  ASSUME NEW p \in Peer, NEW in \in PeerInput
  PROVE  /\ Readdressed(p, in) \in Peer
         /\ Readdressed(p, in).key = in.key
BY DEF Readdressed, Peer, PeerInput

LEMMA OrOwnAddressType ==
  ASSUME NEW aips \in SUBSET Prefixes, NEW a \in Hosts \cup {NoHost}
  PROVE  OrOwnAddress(aips, a) \in SUBSET Prefixes
BY DEF OrOwnAddress, Prefixes

LEMMA UpdatePeerType ==
  ASSUME TypeOK, NEW n \in Names, NEW s \in Slots, NEW in \in PeerInputs, UpdatePeer(n, s, in)
  PROVE  TypeOK'
<1> DEFINE p == Readdressed(mem.ifs[n].peers[s], in)
           q == [p EXCEPT !.aips = OrOwnAddress(in.aips, in.addr), !.on = in.on, !.lim = in.lim]
           f == WithPeer(mem.ifs[n], s, p)
           g == WithPeer(mem.ifs[n], s, q)
<1>1. mem.ifs[n] \in Iface /\ in \in PeerInput /\ phase = "idle"
  BY MemIface, InputsAssumption DEF UpdatePeer
<1>2. mem.ifs[n].peers[s] \in Peer
  BY <1>1 DEF UpdatePeer, Iface
<1>3. p \in Peer
  BY <1>1, <1>2, ReaddressedType
<1>4. q \in Peer
  <2>1. OrOwnAddress(in.aips, in.addr) \in SUBSET Prefixes /\ in.on \in BOOLEAN /\ in.lim \in BOOLEAN
    BY <1>1, OrOwnAddressType DEF PeerInput
  <2> HIDE DEF p
  <2> QED
    BY <1>3, <2>1 DEF Peer
<1>5. \/ /\ mem' = WithIface(mem, n, f)
         /\ result' = Answer("peer", n, "error")
         /\ UNCHANGED <<disk, world, phase, job>>
      \/ /\ world' = IF OSStack /\ p.aips # in.aips THEN Unplumbed(world, n, p.aips) ELSE world
         /\ Commit(WithIface(mem, n, g), "peer", n, {n}, FALSE)
  BY DEF UpdatePeer
<1> HIDE DEF p, q
<1>6. f \in Iface /\ g \in Iface
  BY <1>1, <1>3, <1>4, WithPeerType
<1> HIDE DEF f, g
<1>7. CASE /\ mem' = WithIface(mem, n, f)
           /\ result' = Answer("peer", n, "error")
           /\ UNCHANGED <<disk, world, phase, job>>
  <2>1. WithIface(mem, n, f) \in Config
    BY <1>6, WithIfaceType DEF TypeOK
  <2>2. result' \in Result
    BY <1>7 DEF Answer, Result, Ops, ViewOps
  <2> QED
    BY <1>1, <1>7, <2>1, <2>2 DEF TypeOK
<1>8. CASE /\ world' = IF OSStack /\ p.aips # in.aips THEN Unplumbed(world, n, p.aips) ELSE world
           /\ Commit(WithIface(mem, n, g), "peer", n, {n}, FALSE)
  <2>1. world' \in World
    <3>1. p.aips \in SUBSET Prefixes
      BY <1>3 DEF Peer
    <3> QED
      BY <1>8, <3>1, UnplumbedType DEF TypeOK, Touches
  <2>2. WithIface(mem, n, g) \in Config /\ {n} \in SUBSET IfaceNames(WithIface(mem, n, g))
    BY <1>6, WithIfaceType, WithIfaceNames DEF TypeOK
  <2> QED
    BY <1>1, <1>8, <2>1, <2>2, CommitType DEF Ops, ViewOps
<1> QED
  BY <1>5, <1>7, <1>8

LEMMA DeletePeerType ==
  ASSUME TypeOK, NEW n \in Names, NEW s \in Slots, DeletePeer(n, s)
  PROVE  TypeOK'
<1> DEFINE f == WithPeer(mem.ifs[n], s, NoPeer)
<1>1. mem.ifs[n] \in Iface /\ phase = "idle"
  BY MemIface DEF DeletePeer
<1>2. mem.ifs[n].peers[s].aips \in SUBSET Prefixes
  BY <1>1 DEF DeletePeer, Iface, Peer
<1>3. world' \in World
  BY <1>2, UnplumbedType DEF DeletePeer, TypeOK, Touches
<1>4. Commit(WithIface(mem, n, f), "remove", n, {n}, FALSE)
  BY DEF DeletePeer
<1>5. f \in Iface
  BY <1>1, WithPeerType
<1> HIDE DEF f
<1>6. WithIface(mem, n, f) \in Config /\ {n} \in SUBSET IfaceNames(WithIface(mem, n, f))
  BY <1>5, WithIfaceType, WithIfaceNames DEF TypeOK
<1> QED
  BY <1>1, <1>3, <1>4, <1>6, CommitType DEF Ops

LEMMA UpdateSettingsType ==
  ASSUME TypeOK, NEW set \in SettingInputs, UpdateSettings(set)
  PROVE  TypeOK'
<1> DEFINE c == [mem EXCEPT !.fwd = set.fwd, !.bl = set.bl]
           todo == IF set = [fwd |-> mem.fwd, bl |-> mem.bl] THEN {}
                   ELSE {n \in IfaceNames(mem) : mem.ifs[n].up}
<1>1. c \in Config /\ c.ifs = mem.ifs
  BY InputsAssumption DEF Settings, TypeOK, Config
<1>2. todo \in SUBSET IfaceNames(c)
  BY <1>1 DEF IfaceNames
<1>3. Commit(c, "settings", NoName, todo, FALSE) /\ phase = "idle" /\ world' \in World
  BY DEF UpdateSettings, TypeOK
<1> HIDE DEF c, todo
<1> QED
  BY <1>1, <1>2, <1>3, CommitType DEF Ops

LEMMA GetType ==
  ASSUME TypeOK, NEW n \in Names, Get(n)
  PROVE  TypeOK'
<1> DEFINE c == WithIface(mem, n, WithTokens(mem.ifs[n]))
<1>1. phase = "idle" /\ world' \in World /\ mem.ifs[n] \in Iface
  BY MemIface DEF Get, TypeOK
<1>2. c \in Config
  BY <1>1, WithTokensType, WithIfaceType DEF TypeOK
<1>3. \/ /\ result' = Answer("read", n, "ok")
         /\ UNCHANGED <<mem, disk, phase, job>>
      \/ Commit(c, "read", n, {}, FALSE)
  BY DEF Get
<1> HIDE DEF c
<1>4. CASE /\ result' = Answer("read", n, "ok")
           /\ UNCHANGED <<mem, disk, phase, job>>
  <2>1. result' \in Result
    BY <1>4 DEF Answer, Result, Ops
  <2> QED
    BY <1>1, <1>4, <2>1 DEF TypeOK
<1>5. CASE Commit(c, "read", n, {}, FALSE)
  BY <1>1, <1>2, <1>5, CommitType DEF Ops
<1> QED
  BY <1>3, <1>4, <1>5

\* Dealing with one interface of the job keeps the job well-formed while the
\* memory keeps its interfaces.
LEMMA AdvanceType ==
  ASSUME TypeOK, phase = "apply", NEW n \in job.todo, Advance(n)
  PROVE  /\ phase' \in {"idle", "apply"}
         /\ job' \in Job
         /\ phase' = "apply" => job'.todo # {} /\ job'.todo \subseteq IfaceNames(mem)
<1>1. job \in Job /\ job.todo \subseteq IfaceNames(mem)
  BY DEF TypeOK
<1>2. [job EXCEPT !.todo = @ \ {n}] \in Job
  BY <1>1 DEF Job
<1>3. job.todo # {n} => job.todo \ {n} # {}
  OBVIOUS
<1>4. [job EXCEPT !.todo = @ \ {n}].todo = job.todo \ {n}
  BY <1>1 DEF Job
<1> QED
  BY <1>1, <1>2, <1>3, <1>4, NoJobType DEF Advance

\* What is known of the interface that is being applied.
LEMMA JobIface ==
  ASSUME TypeOK, phase = "apply", NEW n \in job.todo
  PROVE  n \in Names /\ mem.ifs[n] \in Iface /\ mem \in Config /\ world \in World
BY DEF TypeOK, Config, IfaceNames

LEMMA AnswerViewType ==
  ASSUME TypeOK, phase = "apply", NEW n \in job.todo, AnswerView(n)
  PROVE  /\ mem' \in Config /\ disk' \in Config
         /\ IfaceNames(mem') = IfaceNames(mem)
         /\ result' \in Result
<1> DEFINE c == WithIface(mem, n, WithTokens(mem.ifs[n]))
<1>1. c \in Config /\ IfaceNames(c) = IfaceNames(mem)
  <2>1. IfaceNames(c) = IfaceNames(mem) \cup {n}
    BY JobIface, WithTokensType, WithIfaceNames
  <2>2. n \in IfaceNames(mem)
    BY DEF TypeOK
  <2> QED
    BY <2>1, <2>2, JobIface, WithTokensType, WithIfaceType
<1>2. mem' = c /\ disk' \in {disk, c}
  BY DEF AnswerView
<1>3. result' \in Result
  BY DEF AnswerView, TypeOK, Result
<1> HIDE DEF c
<1> QED
  BY <1>1, <1>2, <1>3 DEF TypeOK

LEMMA ApplySucceedsType ==
  ASSUME TypeOK, NEW n \in Names, ApplySucceeds(n)
  PROVE  TypeOK'
<1>1. phase = "apply" /\ n \in job.todo /\ Advance(n)
  BY DEF ApplySucceeds
<1>2. mem.ifs[n] \in Iface /\ mem \in Config /\ world \in World
  BY <1>1, JobIface
<1>3. world' \in World
  <2>1. Applied(mem, n, mem.ifs[n], world, world', DriverFails) /\ DriverFails \in BOOLEAN
    BY DEF ApplySucceeds, DriverFails
  <2> QED
    BY <1>2, <2>1, AppliedType DEF Touches
<1>4. /\ mem' \in Config /\ disk' \in Config
      /\ IfaceNames(mem') = IfaceNames(mem)
      /\ result' \in Result
  <2>1. CASE job.op \in ViewOps
    BY <1>1, <2>1, AnswerViewType DEF ApplySucceeds
  <2>2. CASE job.op \notin ViewOps
    BY <2>2 DEF ApplySucceeds, TypeOK, Result
  <2> QED
    BY <2>1, <2>2
<1> QED
  BY <1>1, <1>3, <1>4, AdvanceType DEF TypeOK

LEMMA ApplyFailsType ==
  ASSUME TypeOK, NEW n \in Names, ApplyFails(n)
  PROVE  TypeOK'
<1>1. phase = "apply" /\ n \in job.todo /\ Advance(n)
  BY DEF ApplyFails
<1>2. mem.ifs[n] \in Iface /\ mem \in Config /\ world \in World
  BY <1>1, JobIface
<1>3. world' \in World
  BY <1>2, ApplyStoppedType DEF ApplyFails, Touches
<1>4. result' \in Result
  BY DEF ApplyFails, TypeOK, Result
<1>5. /\ mem' \in Config /\ disk' \in Config
      /\ IfaceNames(mem') = IfaceNames(mem)
  <2> DEFINE f == [mem.ifs[n] EXCEPT !.up = job.old]
  <2>1. f \in Iface
    BY <1>2 DEF TypeOK, Job, Iface
  <2>2. \/ UNCHANGED <<mem, disk>>
        \/ mem' = WithIface(mem, n, f) /\ (disk' = mem' \/ disk' = disk)
    BY DEF ApplyFails
  <2>3. n \in IfaceNames(mem)
    BY <1>1 DEF TypeOK
  <2> HIDE DEF f
  <2>4. WithIface(mem, n, f) \in Config /\ IfaceNames(WithIface(mem, n, f)) = IfaceNames(mem)
    <3>1. IfaceNames(WithIface(mem, n, f)) = IfaceNames(mem) \cup {n}
      BY <1>2, <2>1, WithIfaceNames
    <3> QED
      BY <1>2, <2>1, <2>3, <3>1, WithIfaceType
  <2>5. mem \in Config /\ disk \in Config
    BY DEF TypeOK
  <2> QED
    BY <2>2, <2>4, <2>5
<1> QED
  BY <1>1, <1>3, <1>4, <1>5, AdvanceType DEF TypeOK

LEMMA ReconcileRemovesType ==
  ASSUME TypeOK, NEW n \in Names, ReconcileRemoves(n)
  PROVE  TypeOK'
<1>1. phase = "apply" /\ n \in job.todo /\ Advance(n) /\ UNCHANGED <<mem, disk>>
  BY DEF ReconcileRemoves
<1>2. world' \in World
  <2>1. Remove(world, n) \in World
    BY RemoveType DEF TypeOK, Touches
  <2>2. Exists(world, n) => Down(world, n) \in World
    BY DownType DEF Exists, TypeOK, World, Touches
  <2> QED
    BY <2>1, <2>2 DEF ReconcileRemoves, TypeOK
<1>3. result' \in Result
  <2>1. /\ result \in Result
        /\ [result EXCEPT !.st = "error"] \in Result
        /\ [result EXCEPT !.st = "ok"] \in Result
    BY DEF TypeOK, Result
  <2> QED
    BY <2>1 DEF ReconcileRemoves
<1> QED
  BY <1>1, <1>2, <1>3, AdvanceType DEF TypeOK

LEMMA InterruptedType ==
  ASSUME TypeOK, phase = "apply", NEW n \in job.todo, NEW v, Interrupted(n, v)
  PROVE  Touches(world, v, n)
<1>1. n \in Names /\ mem.ifs[n] \in Iface /\ mem \in Config /\ world \in World
  BY JobIface
<1>2. CASE ApplyStopped(mem, n, mem.ifs[n], world, v)
  BY <1>1, <1>2, ApplyStoppedType
<1>3. CASE Applied(mem, n, mem.ifs[n], world, v, TRUE)
  BY <1>1, <1>3, AppliedType
<1>4. CASE Exists(world, n) /\ v = Down(world, n)
  BY <1>1, <1>4, DownType DEF Exists, World
<1> QED
  BY <1>2, <1>3, <1>4 DEF Interrupted

LEMMA CrashType ==
  ASSUME TypeOK, Crash
  PROVE  TypeOK'
<1>1. world' \in World
  <2>1. CASE UNCHANGED world
    BY <2>1 DEF TypeOK
  <2>2. CASE phase = "apply" /\ \E n \in job.todo : Interrupted(n, world')
    BY <2>2, InterruptedType DEF Touches
  <2> QED
    BY <2>1, <2>2 DEF Crash
<1> QED
  BY <1>1, ExitType DEF Crash

LEMMA BootType ==
  ASSUME TypeOK, Boot
  PROVE  TypeOK'
<1>1. world' \in World
  BY SurvivorsType DEF Boot, TypeOK
<1>2. mem' \in Config /\ disk' \in Config /\ phase' \in {"off", "idle", "apply"}
  BY DEF Boot, TypeOK
<1>3. /\ job' \in Job
      /\ phase' = "apply" => job'.todo # {} /\ job'.todo \subseteq IfaceNames(mem')
  <2>1. IfaceNames(disk) \in SUBSET Names
    BY DEF IfaceNames
  <2>2. /\ [NoJob EXCEPT !.todo = IfaceNames(disk)] \in Job
        /\ [NoJob EXCEPT !.todo = IfaceNames(disk)].todo = IfaceNames(disk)
    BY <2>1 DEF NoJob, Job, Ops
  <2> QED
    BY <2>2 DEF Boot
<1>4. result' \in Result
  BY DEF Boot, Answer, Result, Ops
<1> QED
  BY <1>1, <1>2, <1>3, <1>4 DEF TypeOK, IfaceNames

LEMMA InitType == Init => TypeOK
<1> SUFFICES ASSUME Init PROVE TypeOK
  OBVIOUS
<1>1. mem \in Config /\ disk \in Config /\ world \in World
  BY InputsAssumption, InitWorldType DEF Init
<1>2. job \in Job /\ result \in Result /\ phase = "off"
  BY NoJobType DEF Init, Answer, Result, Ops
<1> QED
  BY <1>1, <1>2 DEF TypeOK

LEMMA NextType == TypeOK /\ [Next]_vars => TypeOK'
<1> SUFFICES ASSUME TypeOK, [Next]_vars PROVE TypeOK'
  OBVIOUS
<1>1. ASSUME NEW n \in Names, InterfaceOps(n) PROVE TypeOK'
  BY <1>1, CreateInterfaceType, UpdateInterfaceType, DeleteInterfaceType,
     SetInterfaceUpType, GetType DEF InterfaceOps
<1>2. ASSUME NEW n \in Names, NEW s \in Slots, PeerOps(n, s) PROVE TypeOK'
  BY <1>2, CreatePeerType, UpdatePeerType, DeletePeerType DEF PeerOps
<1>3. ASSUME NEW set \in SettingInputs, UpdateSettings(set) PROVE TypeOK'
  BY <1>3, UpdateSettingsType
<1>4. ASSUME NEW n \in Names, ApplySucceeds(n) \/ ApplyFails(n) \/ ReconcileRemoves(n)
      PROVE  TypeOK'
  BY <1>4, ApplySucceedsType, ApplyFailsType, ReconcileRemovesType
<1>5. CASE Crash
  BY <1>5, CrashType
<1>6. CASE Boot
  BY <1>6, BootType
<1>7. CASE UNCHANGED vars
  BY <1>7 DEF vars, TypeOK
<1> QED
  BY <1>1, <1>2, <1>3, <1>4, <1>5, <1>6, <1>7 DEF Next

\* The state variables keep their types, and a running application is always
\* about interfaces the memory holds.
THEOREM TypeCorrect == Spec => []TypeOK
BY InitType, NextType, PTL DEF Spec

-----------------------------------------------------------------------------
(* Durability *)

\* Only a start and a change of the settings apply more than one interface:
\* the failure of the others ends the job, so memory may run ahead of the disk.
SingleTarget ==
  phase = "apply" /\ job.op \in ViewOps \cup {"remove"} => \E n \in Names : job.todo = {n}

\* What a job is applied from is on disk.
AppliedIsPersisted == phase = "apply" => mem = disk

DurabilityInv == TypeOK /\ SingleTarget /\ AppliedIsPersisted /\ AckedIsDurable

LEMMA CommitDurable ==
  ASSUME phase = "idle",
         NEW c, NEW op, NEW n, NEW todo, NEW old,
         op \in ViewOps \cup {"remove"} => todo = {} \/ \E m \in Names : todo = {m},
         Commit(c, op, n, todo, old)
  PROVE  (SingleTarget /\ AppliedIsPersisted /\ AckedIsDurable)'
<1>1. CASE /\ mem' = c
           /\ disk' = c
           /\ phase' = IF todo = {} THEN "idle" ELSE "apply"
           /\ job' = IF todo = {} THEN NoJob ELSE [op |-> op, todo |-> todo, old |-> old]
           /\ result' = Answer(op, n, IF todo = {} THEN "ok" ELSE "pending")
  BY <1>1 DEF SingleTarget, AppliedIsPersisted, AckedIsDurable
<1>2. CASE /\ mem' = c
           /\ result' = Answer(op, n, "error")
           /\ UNCHANGED <<disk, phase, job>>
  BY <1>2 DEF SingleTarget, AppliedIsPersisted, AckedIsDurable, Acked, Answer
<1>3. CASE Exit
  BY <1>3 DEF Exit, SingleTarget, AppliedIsPersisted, AckedIsDurable, Acked
<1> QED
  BY <1>1, <1>2, <1>3 DEF Commit

LEMMA RequestDurable ==
  ASSUME DurabilityInv,
         \/ \E n \in Names : InterfaceOps(n)
         \/ \E n \in Names, s \in Slots : PeerOps(n, s)
         \/ \E set \in SettingInputs : UpdateSettings(set)
  PROVE  (SingleTarget /\ AppliedIsPersisted /\ AckedIsDurable)'
<1> DEFINE Q == (SingleTarget /\ AppliedIsPersisted /\ AckedIsDurable)'
<1>1. ASSUME NEW n \in Names, NEW in \in Patches, CreateInterface(n, in) PROVE Q
  BY <1>1, CommitDurable DEF CreateInterface
<1>2. ASSUME NEW n \in Names, NEW in \in Patches, UpdateInterface(n, in) PROVE Q
  BY <1>2, CommitDurable DEF UpdateInterface
<1>3. ASSUME NEW n \in Names, DeleteInterface(n) PROVE Q
  BY <1>3, CommitDurable DEF DeleteInterface
<1>4. ASSUME NEW n \in Names, NEW up \in UpInputs, SetInterfaceUp(n, up) PROVE Q
  BY <1>4, CommitDurable DEF SetInterfaceUp
<1>5. ASSUME NEW n \in Names, Get(n) PROVE Q
  <2>1. CASE Commit(WithIface(mem, n, WithTokens(mem.ifs[n])), "read", n, {}, FALSE)
    BY <1>5, <2>1, CommitDurable DEF Get
  <2>2. CASE result' = Answer("read", n, "ok") /\ UNCHANGED <<mem, disk, phase, job>>
    BY <1>5, <2>2 DEF Get, SingleTarget, AppliedIsPersisted, AckedIsDurable, Acked, Answer
  <2> QED
    BY <1>5, <2>1, <2>2 DEF Get
<1>6. ASSUME NEW n \in Names, NEW s \in Slots, NEW in \in PeerInputs, CreatePeer(n, s, in)
      PROVE  Q
  BY <1>6, CommitDurable DEF CreatePeer
<1>7. ASSUME NEW n \in Names, NEW s \in Slots, NEW in \in PeerInputs, UpdatePeer(n, s, in)
      PROVE  Q
  <2>1. phase = "idle"
    BY <1>7 DEF UpdatePeer
  <2>2. \/ result' = Answer("peer", n, "error") /\ UNCHANGED <<disk, phase, job>>
        \/ \E c : Commit(c, "peer", n, {n}, FALSE)
    BY <1>7 DEF UpdatePeer
  <2>3. CASE result' = Answer("peer", n, "error") /\ UNCHANGED <<disk, phase, job>>
    BY <2>1, <2>3 DEF SingleTarget, AppliedIsPersisted, AckedIsDurable, Acked, Answer
  <2> QED
    BY <2>1, <2>2, <2>3, CommitDurable
<1>8. ASSUME NEW n \in Names, NEW s \in Slots, DeletePeer(n, s) PROVE Q
  BY <1>8, CommitDurable DEF DeletePeer
<1>9. ASSUME NEW set \in SettingInputs, UpdateSettings(set) PROVE Q
  BY <1>9, CommitDurable DEF UpdateSettings, ViewOps
<1> QED
  BY <1>1, <1>2, <1>3, <1>4, <1>5, <1>6, <1>7, <1>8, <1>9 DEF InterfaceOps, PeerOps

\* While an interface is applied, memory and disk stay equal; a job that lets
\* them differ answers an error and was the last interface.
LEMMA ApplyDurable ==
  ASSUME DurabilityInv, NEW n \in Names,
         ApplySucceeds(n) \/ ApplyFails(n) \/ ReconcileRemoves(n)
  PROVE  (SingleTarget /\ AppliedIsPersisted /\ AckedIsDurable)'
<1>1. phase = "apply" /\ n \in job.todo /\ Advance(n) /\ mem = disk
  BY DEF ApplySucceeds, ApplyFails, ReconcileRemoves, DurabilityInv, AppliedIsPersisted
<1>2. result \in Result /\ job \in Job
  BY DEF DurabilityInv, TypeOK
<1>3. job.op \in ViewOps \cup {"remove"} => phase' = "idle"
  BY <1>1 DEF DurabilityInv, SingleTarget, Advance
<1>4. SingleTarget'
  <2>1. phase' = "apply" => job'.op = job.op
    BY <1>1, <1>2 DEF Advance, Job
  <2> QED
    BY <1>3, <2>1 DEF SingleTarget
<1>5. \/ mem' = disk'
      \/ job.op \in ViewOps /\ result'.st = "error"
  <2>1. CASE ApplySucceeds(n)
    <3>1. CASE job.op \in ViewOps
      <4>1. [result EXCEPT !.st = "error"].st = "error"
        BY <1>2 DEF Result
      <4> QED
        BY <1>1, <2>1, <3>1, <4>1 DEF ApplySucceeds, AnswerView
    <3>2. CASE job.op \notin ViewOps
      BY <1>1, <2>1, <3>2 DEF ApplySucceeds
    <3> QED
      BY <3>1, <3>2
  <2>2. CASE ApplyFails(n)
    <3>1. CASE job.op = "toggle"
      <4>1. result' = [result EXCEPT !.st = "error"]
        BY <2>2, <3>1 DEF ApplyFails
      <4> QED
        BY <1>2, <3>1, <4>1 DEF Result, ViewOps
    <3>2. CASE job.op # "toggle"
      BY <1>1, <2>2, <3>2 DEF ApplyFails
    <3> QED
      BY <3>1, <3>2
  <2>3. CASE ReconcileRemoves(n)
    BY <1>1, <2>3 DEF ReconcileRemoves
  <2> QED
    BY <2>1, <2>2, <2>3
<1>6. AppliedIsPersisted'
  BY <1>3, <1>5 DEF AppliedIsPersisted
<1>7. AckedIsDurable'
  BY <1>5 DEF AckedIsDurable, Acked
<1> QED
  BY <1>4, <1>6, <1>7

LEMMA DurabilityStep == DurabilityInv /\ [Next]_vars => DurabilityInv'
<1> SUFFICES ASSUME DurabilityInv, [Next]_vars PROVE DurabilityInv'
  OBVIOUS
<1>1. TypeOK'
  BY NextType DEF DurabilityInv
<1>2. ASSUME \/ \E n \in Names : InterfaceOps(n)
             \/ \E n \in Names, s \in Slots : PeerOps(n, s)
             \/ \E set \in SettingInputs : UpdateSettings(set)
      PROVE  DurabilityInv'
  BY <1>1, <1>2, RequestDurable DEF DurabilityInv
<1>3. ASSUME NEW n \in Names, ApplySucceeds(n) \/ ApplyFails(n) \/ ReconcileRemoves(n)
      PROVE  DurabilityInv'
  BY <1>1, <1>3, ApplyDurable DEF DurabilityInv
<1>4. CASE Crash
  BY <1>1, <1>4 DEF Crash, Exit, DurabilityInv, SingleTarget, AppliedIsPersisted,
     AckedIsDurable, Acked
<1>5. CASE Boot
  <2>1. mem' = disk' /\ (phase' = "apply" => job'.op = "boot")
    BY <1>5 DEF Boot, NoJob
  <2> QED
    BY <1>1, <2>1 DEF DurabilityInv, SingleTarget, AppliedIsPersisted, AckedIsDurable, ViewOps
<1>6. CASE UNCHANGED vars
  BY <1>1, <1>6 DEF vars, DurabilityInv, SingleTarget, AppliedIsPersisted, AckedIsDurable, Acked
<1> QED
  BY <1>2, <1>3, <1>4, <1>5, <1>6 DEF Next

LEMMA DurabilityInit == Init => DurabilityInv
BY InitType DEF Init, DurabilityInv, SingleTarget, AppliedIsPersisted, AckedIsDurable, Acked

-----------------------------------------------------------------------------
(* What a device gains *)

\* v is w but for the device of n, which has nothing beyond it and g.
Gains(w, v, n, g) ==
  /\ \A m \in Names \ {n} : v.dev[m] = w.dev[m]
  /\ Exists(v, n) => Within(v.dev[n], Found(w, n), g)

LEMMA FoundType == ASSUME NEW w \in World, NEW n \in Names PROVE Found(w, n) \in Device
BY BlankDeviceType DEF Found, Exists, World

LEMMA GainsTrans ==
  ASSUME NEW u, NEW v, NEW w, NEW n \in Names, NEW g, Gains(u, v, n, g), Gains(v, w, n, g)
  PROVE  Gains(u, w, n, g)
<1>1. ASSUME Exists(w, n) PROVE Within(w.dev[n], Found(u, n), g)
  <2>1. CASE Exists(v, n)
    <3>1. Within(v.dev[n], Found(u, n), g) /\ Within(w.dev[n], v.dev[n], g)
      BY <1>1, <2>1 DEF Gains, Found
    <3> QED
      BY <3>1 DEF Within
  <2>2. CASE ~Exists(v, n)
    <3>1. Within(w.dev[n], BlankDevice, g)
      BY <1>1, <2>2 DEF Gains, Found
    <3>2. ~BlankDevice.up /\ BlankDevice.peers = {} /\ BlankDevice.routes = {}
      BY DEF BlankDevice
    <3> QED
      BY <3>1, <3>2 DEF Within
  <2> QED
    BY <2>1, <2>2
<1> QED
  BY <1>1 DEF Gains

LEMMA GainsNothing ==
  ASSUME NEW w, NEW v, NEW n \in Names, NEW g, v.dev = w.dev
  PROVE  Gains(w, v, n, g)
BY DEF Gains, Exists, Found, Within

LEMMA WithDevGains ==
  ASSUME NEW w \in World, NEW n \in Names, NEW d \in Device, NEW g, Within(d, Found(w, n), g)
  PROVE  Gains(w, WithDev(w, n, d), n, g)
BY WithDevType DEF Gains, Touches

LEMMA WithDevOverGains ==
  ASSUME NEW w \in World, NEW n \in Names, NEW d \in Device, NEW g,
         w.dev[n] \in Device, Within(d, w.dev[n], g)
  PROVE  Gains(w, WithDev(w, n, d), n, g)
BY WithDevGains, NoDevAssumption DEF Found, Exists

LEMMA CreateGains ==
  ASSUME NEW w \in World, NEW n \in Names, NEW g
  PROVE  Gains(w, Create(w, n), n, g)
<1>1. CASE Exists(w, n)
  BY <1>1, GainsNothing DEF Create
<1>2. CASE ~Exists(w, n)
  BY <1>2, BlankDeviceType, WithDevGains DEF Create, Found, Within
<1> QED
  BY <1>1, <1>2

LEMMA ConfigureGains ==
  ASSUME NEW w \in World, NEW n \in Names, w.dev[n] \in Device, NEW g,
         NEW cfg \in [port : Ports, mark : BOOLEAN, fwd : BOOLEAN, peers : SUBSET PeerSpec],
         cfg.peers \subseteq g.peers
  PROVE  Gains(w, Configure(w, n, cfg), n, g)
<1> DEFINE d == [w.dev[n] EXCEPT !.port  = IF cfg.port > 0 THEN cfg.port ELSE @,
                                 !.mark  = cfg.mark \/ @,
                                 !.fwd   = cfg.fwd,
                                 !.peers = cfg.peers]
<1>1. (cfg.mark \/ w.dev[n].mark) \in BOOLEAN
  OBVIOUS
<1>2. (IF cfg.port > 0 THEN cfg.port ELSE w.dev[n].port) \in Ports
  BY DEF Device
<1>3. d \in Device /\ d.up = w.dev[n].up /\ d.peers = cfg.peers /\ d.routes = w.dev[n].routes
  BY <1>1, <1>2 DEF Device
<1>4. Configure(w, n, cfg) = WithDev(w, n, d)
  BY DEF Configure
<1>5. Within(d, w.dev[n], g)
  BY <1>3 DEF Within
<1> HIDE DEF d
<1> QED
  BY <1>3, <1>4, <1>5, WithDevOverGains

LEMMA SetAddressesGains ==
  ASSUME NEW w \in World, NEW n \in Names, w.dev[n] \in Device, NEW a \in Hosts, NEW g
  PROVE  Gains(w, SetAddresses(w, n, a), n, g)
<1> DEFINE A == IF OSStack THEN w.dev[n].addrs \cup {a}
                ELSE IF w.dev[n].built THEN w.dev[n].addrs ELSE {a}
           d == [w.dev[n] EXCEPT !.addrs = A]
<1>1. A \in SUBSET Hosts
  BY DEF Device
<1>2. SetAddresses(w, n, a) = WithDev(w, n, d)
  BY DEF SetAddresses
<1> HIDE DEF A
<1>3. d \in Device /\ d.up = w.dev[n].up /\ d.peers = w.dev[n].peers
      /\ d.routes = w.dev[n].routes
  BY <1>1 DEF Device
<1> HIDE DEF d
<1> QED
  BY <1>2, <1>3, WithDevOverGains DEF Within

LEMMA UpGains ==
  ASSUME NEW w \in World, NEW n \in Names, w.dev[n] \in Device, NEW g, g.up
  PROVE  Gains(w, Up(w, n), n, g)
<1> DEFINE d == [w.dev[n] EXCEPT !.up = TRUE, !.built = ~OSStack]
<1>1. OSStack \in BOOLEAN
  BY DEF OSStack
<1>2. d \in Device /\ d.peers = w.dev[n].peers /\ d.routes = w.dev[n].routes
  BY <1>1 DEF Device
<1>3. Up(w, n) = WithDev(w, n, d)
  BY DEF Up
<1> HIDE DEF d
<1> QED
  BY <1>2, <1>3, WithDevOverGains DEF Within

LEMMA DownGains ==
  ASSUME NEW w \in World, NEW n \in Names, w.dev[n] \in Device, NEW g
  PROVE  Gains(w, Down(w, n), n, g)
<1> DEFINE d == [w.dev[n] EXCEPT !.up = FALSE, !.routes = {}]
<1>1. d \in Device /\ ~d.up /\ d.peers = w.dev[n].peers /\ d.routes = {}
  BY DEF Device
<1>2. Down(w, n).dev = WithDev(w, n, d).dev
  BY <1>1, WithDevType, DropTableType DEF Down
<1> HIDE DEF d
<1>3. Gains(w, WithDev(w, n, d), n, g)
  BY <1>1, WithDevOverGains DEF Within
<1> QED
  BY <1>2, <1>3 DEF Gains, Exists

LEMMA RemoveGains ==
  ASSUME NEW w \in World, NEW n \in Names, NEW g
  PROVE  Gains(w, Remove(w, n), n, g)
BY RemoveType, WithDevType DEF Gains, Touches, Exists

LEMMA ApplyShapingGains ==
  ASSUME NEW w \in World, NEW n \in Names, NEW specs \in SUBSET SUBSET Prefixes, NEW g
  PROVE  Gains(w, ApplyShaping(w, n, specs), n, g)
<1>1. CASE ~Exists(w, n)
  BY <1>1, GainsNothing DEF ApplyShaping
<1>2. CASE Exists(w, n)
  <2> DEFINE d == [w.dev[n] EXCEPT !.shaped = specs]
  <2>1. w.dev[n] \in Device
    BY <1>2 DEF Exists, World
  <2>2. d \in Device /\ d.up = w.dev[n].up /\ d.peers = w.dev[n].peers
        /\ d.routes = w.dev[n].routes
    BY <2>1 DEF Device
  <2>3. ApplyShaping(w, n, specs) = WithDev(w, n, d)
    BY <1>2 DEF ApplyShaping
  <2> HIDE DEF d
  <2> QED
    BY <2>1, <2>2, <2>3, WithDevOverGains DEF Within
<1> QED
  BY <1>1, <1>2

LEMMA AddRoutesGains ==
  ASSUME NEW w \in World, NEW n \in Names, w.dev[n] \in Device, NEW g,
         NEW aips \in SUBSET Prefixes, RouteTargets(aips) \subseteq g.routes
  PROVE  Gains(w, AddRoutes(w, n, aips), n, g)
<1> DEFINE R == w.dev[n].routes \cup (RouteTargets(aips) \ RoutedElsewhere(w, n))
           d == [w.dev[n] EXCEPT !.routes = R]
<1>1. R \in SUBSET Prefixes /\ R \subseteq w.dev[n].routes \cup g.routes
  BY DEF Device, RouteTargets
<1>2. AddRoutes(w, n, aips) = WithDev(w, n, d)
  BY DEF AddRoutes
<1> HIDE DEF R
<1>3. d \in Device /\ d.up = w.dev[n].up /\ d.peers = w.dev[n].peers /\ d.routes = R
  BY <1>1 DEF Device
<1> HIDE DEF d
<1> QED
  BY <1>1, <1>2, <1>3, WithDevOverGains DEF Within

LEMMA RemoveRoutesGains ==
  ASSUME NEW w \in World, NEW n \in Names, NEW aips \in SUBSET Prefixes, NEW g
  PROVE  Gains(w, RemoveRoutes(w, n, aips), n, g)
<1>1. CASE ~Exists(w, n)
  BY <1>1, GainsNothing DEF RemoveRoutes
<1>2. CASE Exists(w, n)
  <2> DEFINE R == w.dev[n].routes \ RouteTargets(aips)
             d == [w.dev[n] EXCEPT !.routes = R]
  <2>1. w.dev[n] \in Device
    BY <1>2 DEF Exists, World
  <2>2. R \in SUBSET Prefixes /\ R \subseteq w.dev[n].routes
    BY <2>1 DEF Device
  <2>3. RemoveRoutes(w, n, aips) = WithDev(w, n, d)
    BY <1>2 DEF RemoveRoutes
  <2> HIDE DEF R
  <2>4. d \in Device /\ d.up = w.dev[n].up /\ d.peers = w.dev[n].peers /\ d.routes = R
    BY <2>1, <2>2 DEF Device
  <2> HIDE DEF d
  <2> QED
    BY <2>1, <2>2, <2>3, <2>4, WithDevOverGains DEF Within
<1> QED
  BY <1>1, <1>2

LEMMA GrantsAre ==
  ASSUME NEW f \in Iface
  PROVE  /\ Grants(f).up = f.up
         /\ \A fwd : Grants(f).peers = ToDriverConfig(f, fwd).peers
         /\ Grants(f).routes = RouteTargets(AllowedIPs(f))
<1>1. Grants(f) = [BlankDevice EXCEPT !.up = f.up, !.peers = ToDriverConfig(f, FALSE).peers,
                                      !.routes = RouteTargets(AllowedIPs(f))]
  BY SentinelAssumption DEF Grants
<1>2. \A fwd : ToDriverConfig(f, fwd).peers = ToDriverConfig(f, FALSE).peers
  BY DEF ToDriverConfig
<1> QED
  BY <1>1, <1>2 DEF BlankDevice

LEMMA PreparedGains ==
  ASSUME NEW w \in World, NEW n \in Names, NEW f \in Iface, NEW fwd \in BOOLEAN, NEW fails
  PROVE  Gains(w, Prepared(w, n, f, fwd, fails), n, Grants(f))
<1> DEFINE g  == Grants(f)
           w1 == Create(w, n)
           w2 == Configure(w1, n, ToDriverConfig(f, fwd))
           w3 == IF f.addr = NoHost THEN w2 ELSE SetAddresses(w2, n, f.addr)
<1>1. Gains(w, w, n, g) /\ Gains(w, w1, n, g)
  BY GainsNothing, CreateGains
<1>2. w1 \in World /\ w1.dev[n] \in Device
  BY CreateType DEF Touches
<1> HIDE DEF w1
<1>3. Gains(w1, w2, n, g)
  BY <1>2, ToDriverConfigType, GrantsAre, ConfigureGains
<1>4. w2 \in World /\ w2.dev[n] \in Device
  BY <1>2, ToDriverConfigType, ConfigureType DEF Touches
<1> HIDE DEF w2
<1>5. Gains(w2, w3, n, g)
  BY <1>4, GainsNothing, SetAddressesGains DEF Iface
<1>6. Prepared(w, n, f, fwd, fails) =
        CASE fails = "create"    -> w
          [] fails = "configure" -> w1
          [] fails = "addresses" -> w2
          [] OTHER               -> w3
  BY DEF Prepared, w1, w2
<1> HIDE DEF w3, g
<1>7. Gains(w, w2, n, g)
  BY <1>1, <1>3, GainsTrans
<1>8. Gains(w, w3, n, g)
  BY <1>5, <1>7, GainsTrans
<1> QED
  BY <1>1, <1>6, <1>7, <1>8 DEF g

LEMMA PlumbedGains ==
  ASSUME NEW w \in World, NEW n \in Names, NEW f \in Iface, NEW fwd \in BOOLEAN, NEW skip,
         w.dev[n] \in Device
  PROVE  Gains(w, Plumbed(w, n, f, fwd, skip), n, Grants(f))
<1> DEFINE g  == Grants(f)
           w1 == IF fwd /\ "forwarding" \notin skip THEN EnsureForwarding(w) ELSE w
           w2 == IF "routes" \notin skip THEN AddRoutes(w1, n, AllowedIPs(f)) ELSE w1
           w3 == IF WantsDefault(AllowedIPs(f)) /\ fwd /\ "default" \notin skip
                 THEN AddDefaultRoutes(w2, n) ELSE w2
<1>1. w1 \in World /\ w1.dev = w.dev
  BY EnsureForwardingType
<1>2. Gains(w, w1, n, g)
  BY <1>1, GainsNothing
<1> HIDE DEF w1
<1>3. Gains(w1, w2, n, g)
  BY <1>1, AllowedIPsType, GrantsAre, GainsNothing, AddRoutesGains
<1>4. w2 \in World
  BY <1>1, AllowedIPsType, AddRoutesType DEF Touches
<1> HIDE DEF w2
<1>5. Gains(w2, w3, n, g)
  BY <1>4, AddDefaultRoutesType, GainsNothing
<1>6. Plumbed(w, n, f, fwd, skip) = w3
  BY DEF Plumbed, w1, w2
<1> HIDE DEF w3, g
<1>7. Gains(w, w2, n, g)
  BY <1>2, <1>3, GainsTrans
<1> QED
  BY <1>5, <1>6, <1>7, GainsTrans DEF g

LEMMA UnplumbedGains ==
  ASSUME NEW w \in World, NEW n \in Names, NEW aips \in SUBSET Prefixes, NEW g
  PROVE  Gains(w, Unplumbed(w, n, aips), n, g)
<1> DEFINE w1 == RemoveRoutes(w, n, aips)
           w2 == IF WantsDefault(aips) THEN RemoveDefaultRoutes(w1, n) ELSE w1
<1>1. Gains(w, w1, n, g) /\ w1 \in World
  BY RemoveRoutesGains, RemoveRoutesType DEF Touches
<1> HIDE DEF w1
<1>2. Gains(w1, w2, n, g)
  BY <1>1, RemoveDefaultRoutesType, GainsNothing
<1>3. Unplumbed(w, n, aips) = w2
  BY DEF Unplumbed, w1
<1> HIDE DEF w2
<1> QED
  BY <1>1, <1>2, <1>3, GainsTrans

LEMMA RaisedGains ==
  ASSUME NEW w \in World, NEW n \in Names, NEW f \in Iface, NEW fwd \in BOOLEAN, NEW skip,
         NEW shaped \in SUBSET SUBSET Prefixes, NEW dropped \in SUBSET Entries,
         w.dev[n] \in Device, f.up
  PROVE  Gains(w, Raised(w, n, f, fwd, skip, shaped, dropped), n, Grants(f))
<1> DEFINE g  == Grants(f)
           w1 == Up(w, n)
           w2 == IF OSStack THEN Plumbed(w1, n, f, fwd, skip) ELSE w1
           w3 == ApplyShaping(w2, n, shaped)
           w4 == ApplyBlacklist(w3, n, dropped)
<1>1. Gains(w, w1, n, g) /\ w1 \in World /\ w1.dev[n] \in Device
  BY UpGains, UpType, GrantsAre DEF Touches
<1> HIDE DEF w1
<1>2. Gains(w1, w2, n, g) /\ w2 \in World
  BY <1>1, PlumbedGains, PlumbedType, GainsNothing DEF Touches
<1> HIDE DEF w2
<1>3. Gains(w2, w3, n, g) /\ w3 \in World
  BY <1>2, ApplyShapingGains, ApplyShapingType DEF Touches
<1> HIDE DEF w3
<1>4. Gains(w3, w4, n, g)
  BY <1>3, ApplyBlacklistType, GainsNothing
<1>5. Raised(w, n, f, fwd, skip, shaped, dropped) = w4
  BY DEF Raised, w1, w2, w3
<1> HIDE DEF w4, g
<1>6. Gains(w, w2, n, g)
  BY <1>1, <1>2, GainsTrans
<1>7. Gains(w, w3, n, g)
  BY <1>3, <1>6, GainsTrans
<1> QED
  BY <1>4, <1>5, <1>7, GainsTrans DEF g

LEMMA ClearedGains ==
  ASSUME NEW w \in World, NEW n \in Names, NEW f \in Iface, NEW g
  PROVE  Gains(w, Cleared(w, n, f), n, g)
<1> DEFINE w1 == ApplyShaping(w, n, {})
           w2 == ApplyBlacklist(w1, n, {})
           w3 == IF OSStack THEN Unplumbed(w2, n, AllowedIPs(f)) ELSE w2
<1>1. Gains(w, w1, n, g) /\ w1 \in World
  BY ApplyShapingGains, ApplyShapingType DEF Touches
<1> HIDE DEF w1
<1>2. Gains(w1, w2, n, g) /\ w2 \in World
  BY <1>1, ApplyBlacklistType, GainsNothing
<1> HIDE DEF w2
<1>3. Gains(w2, w3, n, g)
  BY <1>2, AllowedIPsType, UnplumbedGains, GainsNothing
<1>4. Cleared(w, n, f) = w3
  BY DEF Cleared, w1, w2
<1> HIDE DEF w3
<1>5. Gains(w, w2, n, g)
  BY <1>1, <1>2, GainsTrans
<1> QED
  BY <1>3, <1>4, <1>5, GainsTrans

LEMMA AppliedGains ==
  ASSUME NEW c \in Config, NEW n \in Names, NEW f \in Iface, NEW w \in World, NEW v,
         NEW partial \in BOOLEAN, Applied(c, n, f, w, v, partial)
  PROVE  Gains(w, v, n, Grants(f))
<1> DEFINE ready == Prepared(w, n, f, c.fwd, "none")
<1>1. c.fwd \in BOOLEAN /\ c.bl \in SUBSET Entries
  BY DEF Config
<1>2. Gains(w, ready, n, Grants(f)) /\ ready \in World /\ ready.dev[n] \in Device
  BY <1>1, PreparedGains, PreparedType DEF Touches
<1> HIDE DEF ready
<1>3. CASE f.up
  <2>1. PICK skip \in SkipOutcomes(partial), shaped \in ShapedOutcomes(w, n, f, partial),
             dropped \in DroppedOutcomes(w, n, c.bl, partial) :
          v = Raised(ready, n, f, c.fwd, skip, shaped, dropped)
    BY <1>3 DEF Applied, ready
  <2>2. shaped \in SUBSET SUBSET Prefixes
    <3>1. Exists(w, n) => w.dev[n].shaped \in SUBSET SUBSET Prefixes
      BY DEF Exists, World, Device
    <3>2. ShapingSpecs(f) \in SUBSET SUBSET Prefixes
      BY ShapingSpecsType
    <3>3. \/ shaped \in SUBSET ShapingSpecs(f)
          \/ shaped = ShapingSpecs(f)
          \/ Exists(w, n) /\ shaped = w.dev[n].shaped
      BY DEF ShapedOutcomes
    <3> QED
      BY <3>1, <3>2, <3>3
  <2>3. dropped \in SUBSET Entries
    BY <1>1 DEF DroppedOutcomes, World
  <2>4. Gains(ready, v, n, Grants(f))
    BY <1>1, <1>2, <1>3, <2>1, <2>2, <2>3, RaisedGains
  <2> QED
    BY <1>2, <2>4, GainsTrans
<1>4. CASE ~f.up
  <2> DEFINE u == Cleared(ready, n, f)
  <2>1. v = Down(u, n)
    BY <1>4 DEF Applied, ready
  <2>2. u \in World /\ u.dev[n] \in Device /\ Gains(ready, u, n, Grants(f))
    BY <1>2, ClearedType, ClearedGains DEF Touches
  <2> HIDE DEF u
  <2>3. Gains(u, v, n, Grants(f))
    BY <2>1, <2>2, DownGains
  <2>4. Gains(w, u, n, Grants(f))
    BY <1>2, <2>2, GainsTrans
  <2> QED
    BY <2>3, <2>4, GainsTrans
<1> QED
  BY <1>3, <1>4

LEMMA ApplyStoppedGains ==
  ASSUME NEW c \in Config, NEW n \in Names, NEW f \in Iface, NEW w \in World, NEW v,
         ApplyStopped(c, n, f, w, v)
  PROVE  Gains(w, v, n, Grants(f))
<1>1. PICK call \in HardCalls :
        v = IF call = "link" /\ ~f.up THEN Cleared(Prepared(w, n, f, c.fwd, call), n, f)
            ELSE Prepared(w, n, f, c.fwd, call)
  BY DEF ApplyStopped
<1> DEFINE ready == Prepared(w, n, f, c.fwd, call)
<1>2. Gains(w, ready, n, Grants(f)) /\ ready \in World
  BY PreparedGains, PreparedType DEF Touches, Config
<1>3. v = IF call = "link" /\ ~f.up THEN Cleared(ready, n, f) ELSE ready
  BY <1>1
<1> HIDE DEF ready
<1>4. Gains(ready, v, n, Grants(f))
  BY <1>2, <1>3, ClearedGains, GainsNothing
<1> QED
  BY <1>2, <1>4, GainsTrans

LEMMA UnpluggedGains ==
  ASSUME NEW w \in World, NEW n \in Names, NEW f \in Iface, NEW gone \in BOOLEAN, NEW g
  PROVE  Gains(w, Unplugged(w, n, f, gone), n, g)
<1> DEFINE w1 == IF OSStack THEN Unplumbed(w, n, AllowedIPs(f)) ELSE w
           w2 == ApplyShaping(w1, n, {})
           w3 == ApplyBlacklist(w2, n, {})
           w4 == IF gone THEN Remove(w3, n) ELSE w3
<1>1. Gains(w, w1, n, g) /\ w1 \in World
  BY AllowedIPsType, UnplumbedGains, UnplumbedType, GainsNothing DEF Touches
<1> HIDE DEF w1
<1>2. Gains(w1, w2, n, g) /\ w2 \in World
  BY <1>1, ApplyShapingGains, ApplyShapingType DEF Touches
<1> HIDE DEF w2
<1>3. Gains(w2, w3, n, g) /\ w3 \in World
  BY <1>2, ApplyBlacklistType, GainsNothing
<1> HIDE DEF w3
<1>4. Gains(w3, w4, n, g)
  BY <1>3, RemoveGains, GainsNothing
<1>5. Unplugged(w, n, f, gone) = w4
  BY DEF Unplugged, w1, w2, w3
<1> HIDE DEF w4
<1>6. Gains(w, w2, n, g)
  BY <1>1, <1>2, GainsTrans
<1>7. Gains(w, w3, n, g)
  BY <1>3, <1>6, GainsTrans
<1> QED
  BY <1>4, <1>5, <1>7, GainsTrans

\* Taking a device's side away does not make it.
LEMMA UnpluggedExists ==
  ASSUME NEW w \in World, NEW n \in Names, NEW f \in Iface, NEW gone \in BOOLEAN,
         Exists(Unplugged(w, n, f, gone), n)
  PROVE  Exists(w, n)
<1> DEFINE w1 == IF OSStack THEN Unplumbed(w, n, AllowedIPs(f)) ELSE w
           w2 == ApplyShaping(w1, n, {})
           w3 == ApplyBlacklist(w2, n, {})
<1>1. w1 \in World /\ (Exists(w1, n) => Exists(w, n))
  BY AllowedIPsType, UnplumbedType DEF Touches
<1> HIDE DEF w1
<1>2. w2 \in World /\ (Exists(w2, n) => Exists(w1, n))
  BY <1>1, ApplyShapingType DEF Touches, ApplyShaping
<1> HIDE DEF w2
<1>3. Exists(w3, n) => Exists(w2, n)
  BY <1>2, ApplyBlacklistType DEF Exists
<1>4. ~gone
  BY UnpluggedType
<1>5. Unplugged(w, n, f, gone) = w3
  BY <1>4 DEF Unplugged, w1, w2
<1> HIDE DEF w3
<1> QED
  BY <1>1, <1>2, <1>3, <1>5

\* From one device to all: the step is about the device of n and gives it no more
\* than its interface on disk.
LEMMA GainsAllSaved ==
  ASSUME NEW n \in Names, Gains(world, world', n, Grants(disk.ifs[n])),
         Exists(world', n) => Exists(world, n) \/ disk.ifs[n] # NoIface
  PROVE  \A m \in Names : GainIsSaved(m)
<1>1. GainIsSaved(n)
  BY DEF Gains, GainIsSaved
<1>2. ASSUME NEW m \in Names \ {n} PROVE GainIsSaved(m)
  BY <1>2 DEF Gains, GainIsSaved, Exists, Found, Within
<1> QED
  BY <1>1, <1>2

\* Requests take away, jobs give what mem, which is disk then, holds.
LEMMA RequestGains ==
  ASSUME TypeOK,
         \/ \E n \in Names : InterfaceOps(n)
         \/ \E n \in Names, s \in Slots : PeerOps(n, s)
         \/ \E set \in SettingInputs : UpdateSettings(set)
  PROVE  \A m \in Names : GainIsSaved(m)
<1>1. CASE UNCHANGED world
  BY <1>1 DEF GainIsSaved, Exists, Found, Within
<1>2. ASSUME NEW n \in Names, DeleteInterface(n) PROVE \A m \in Names : GainIsSaved(m)
  <2>1. mem.ifs[n] \in Iface /\ world \in World
    BY <1>2, MemIface DEF DeleteInterface, TypeOK
  <2>2. PICK gone \in BOOLEAN : world' = Unplugged(world, n, mem.ifs[n], gone)
    BY <1>2 DEF DeleteInterface
  <2>3. Gains(world, world', n, Grants(disk.ifs[n]))
    BY <2>1, <2>2, UnpluggedGains
  <2>4. Exists(world', n) => Exists(world, n)
    BY <2>1, <2>2, UnpluggedExists
  <2> QED
    BY <2>3, <2>4, GainsAllSaved
<1>3. ASSUME NEW n \in Names, NEW aips \in SUBSET Prefixes, world' = Unplumbed(world, n, aips)
      PROVE  \A m \in Names : GainIsSaved(m)
  <2>1. Gains(world, world', n, Grants(disk.ifs[n]))
    BY <1>3, UnplumbedGains DEF TypeOK
  <2>2. Exists(world', n) => Exists(world, n)
    BY <1>3, UnplumbedType DEF TypeOK
  <2> QED
    BY <2>1, <2>2, GainsAllSaved
<1>4. ASSUME NEW n \in Names, NEW s \in Slots, NEW in \in PeerInputs, UpdatePeer(n, s, in)
      PROVE  \/ UNCHANGED world
             \/ \E aips \in SUBSET Prefixes : world' = Unplumbed(world, n, aips)
  <2>1. mem.ifs[n] \in Iface /\ mem.ifs[n].peers[s] \in Peer
    BY <1>4, MemIface DEF UpdatePeer, Iface
  <2>2. LET p == Readdressed(mem.ifs[n].peers[s], in)
        IN  UNCHANGED world \/ world' = Unplumbed(world, n, p.aips)
    BY <1>4 DEF UpdatePeer
  <2>3. Readdressed(mem.ifs[n].peers[s], in).aips \in SUBSET Prefixes
    BY <2>1 DEF Readdressed, Peer
  <2> QED
    BY <2>2, <2>3
<1>5. ASSUME NEW n \in Names, NEW s \in Slots, DeletePeer(n, s)
      PROVE  \/ UNCHANGED world
             \/ \E aips \in SUBSET Prefixes : world' = Unplumbed(world, n, aips)
  <2>1. mem.ifs[n] \in Iface /\ mem.ifs[n].peers[s] \in Peer
    BY <1>5, MemIface DEF DeletePeer, Iface
  <2> QED
    BY <1>5, <2>1 DEF DeletePeer, Peer
<1>6. ASSUME NEW n \in Names, InterfaceOps(n) PROVE UNCHANGED world \/ DeleteInterface(n)
  BY <1>6 DEF InterfaceOps, CreateInterface, UpdateInterface, SetInterfaceUp, Get
<1>7. ASSUME NEW n \in Names, NEW s \in Slots, PeerOps(n, s)
      PROVE  \/ UNCHANGED world
             \/ \E aips \in SUBSET Prefixes : world' = Unplumbed(world, n, aips)
  BY <1>4, <1>5, <1>7 DEF PeerOps, CreatePeer
<1>8. ASSUME NEW set \in SettingInputs, UpdateSettings(set) PROVE UNCHANGED world
  BY <1>8 DEF UpdateSettings
<1> QED
  BY <1>1, <1>2, <1>3, <1>6, <1>7, <1>8

LEMMA ApplyGains ==
  ASSUME DurabilityInv, phase = "apply", NEW n \in job.todo,
         \/ Interrupted(n, world')
         \/ ApplySucceeds(n) \/ ApplyFails(n) \/ ReconcileRemoves(n)
  PROVE  \A m \in Names : GainIsSaved(m)
<1>1. n \in Names /\ mem.ifs[n] \in Iface /\ mem \in Config /\ world \in World
  BY JobIface DEF DurabilityInv
<1>2. mem = disk /\ disk.ifs[n] # NoIface
  BY <1>1, SentinelAssumption DEF DurabilityInv, AppliedIsPersisted
<1>3. \/ \E partial \in BOOLEAN : Applied(mem, n, mem.ifs[n], world, world', partial)
      \/ ApplyStopped(mem, n, mem.ifs[n], world, world')
      \/ world' = Remove(world, n)
      \/ Exists(world, n) /\ world' \in {world, Down(world, n)}
  <2>1. CASE Interrupted(n, world')
    BY <2>1 DEF Interrupted
  <2>2. CASE ApplySucceeds(n)
    <3> DEFINE partial == DriverFails
    <3>1. Applied(mem, n, mem.ifs[n], world, world', partial)
      BY <2>2 DEF ApplySucceeds
    <3>2. partial \in BOOLEAN
      BY DEF DriverFails
    <3> HIDE DEF partial
    <3> QED
      BY <3>1, <3>2
  <2>3. CASE ApplyFails(n)
    <3>1. ApplyStopped(mem, n, mem.ifs[n], world, world')
      BY <2>3 DEF ApplyFails
    <3> QED
      BY <3>1
  <2>4. CASE ReconcileRemoves(n)
    <3>1. \/ world' = Remove(world, n)
          \/ Exists(world, n) /\ world' \in {world, Down(world, n)}
      BY <2>4 DEF ReconcileRemoves
    <3> QED
      BY <3>1
  <2> QED
    BY <2>1, <2>2, <2>3, <2>4
<1>4. CASE \E partial \in BOOLEAN : Applied(mem, n, mem.ifs[n], world, world', partial)
  BY <1>1, <1>2, <1>4, AppliedGains, GainsAllSaved
<1>5. CASE ApplyStopped(mem, n, mem.ifs[n], world, world')
  BY <1>1, <1>2, <1>5, ApplyStoppedGains, GainsAllSaved
<1>6. CASE world' = Remove(world, n)
  BY <1>1, <1>2, <1>6, RemoveGains, GainsAllSaved
<1>7. CASE Exists(world, n) /\ world' \in {world, Down(world, n)}
  <2>1. world.dev[n] \in Device
    BY <1>1, <1>7 DEF Exists, World
  <2>2. Gains(world, world', n, Grants(disk.ifs[n]))
    BY <1>1, <1>7, <2>1, DownGains, GainsNothing
  <2> QED
    BY <1>1, <1>2, <2>2, GainsAllSaved
<1> QED
  BY <1>3, <1>4, <1>5, <1>6, <1>7

LEMMA GainStep == DurabilityInv /\ Next => \A m \in Names : GainIsSaved(m)
<1> SUFFICES ASSUME DurabilityInv, Next PROVE \A m \in Names : GainIsSaved(m)
  OBVIOUS
<1>1. CASE \/ \E n \in Names : InterfaceOps(n)
           \/ \E n \in Names, s \in Slots : PeerOps(n, s)
           \/ \E set \in SettingInputs : UpdateSettings(set)
  BY <1>1, RequestGains DEF DurabilityInv
<1>2. CASE \E n \in Names : ApplySucceeds(n) \/ ApplyFails(n) \/ ReconcileRemoves(n)
  BY <1>2, ApplyGains DEF ApplySucceeds, ApplyFails, ReconcileRemoves
<1>3. CASE UNCHANGED world
  BY <1>3 DEF GainIsSaved, Exists, Found, Within
<1>4. CASE Crash
  BY <1>3, <1>4, ApplyGains DEF Crash
<1>5. CASE Boot
  <2>1. \A n \in Names : world'.dev[n] \in {world.dev[n], NoDev}
    BY <1>5, SurvivorsType DEF Boot, DurabilityInv, TypeOK
  <2> QED
    BY <2>1 DEF GainIsSaved, Exists, Found, Within
<1> QED
  BY <1>1, <1>2, <1>4, <1>5 DEF Next

\* Whatever fails and wherever the daemon ends: a device gains only what was on
\* disk before, and an acknowledged change of the configuration is on disk.
THEOREM Durable == Spec => []AckedIsDurable /\ GainsAreSaved
<1>1. DurabilityInv => AckedIsDurable
  BY DEF DurabilityInv
<1>2. DurabilityInv /\ [Next]_vars => [\A n \in Names : GainIsSaved(n)]_vars
  BY GainStep
<1> QED
  BY <1>1, <1>2, DurabilityInit, DurabilityStep, PTL DEF Spec, GainsAreSaved

-----------------------------------------------------------------------------
(* The refinement of Keeper *)

\* The value of "answer" in the refinement mapping.
Answered ==
  IF result.st = "pending" \/ (result.op = "read" /\ result.st = "ok") THEN "none" ELSE result.st

\* A daemon that is off has nothing in memory: mem stands for the file.
OffIsSaved == phase = "off" => mem = disk

KeeperInv == DurabilityInv /\ OffIsSaved

\* The steps of Keeper, in the terms of Manager.
LEMMA KeepStep ==
  ASSUME TypeOK', phase # "off", phase' # "off", mem' = disk'
  PROVE  K!Next
<1>1. Answered' \in {"none", "ok", "error"}
  BY DEF TypeOK, Result, Answered
<1> QED
  BY <1>1 DEF K!Next, K!Keep, Answered

LEMMA StrayStep ==
  ASSUME phase # "off", phase' # "off", disk' = disk, result'.st = "error"
  PROVE  K!Next
BY DEF K!Next, K!Stray

LEMMA ReadStep ==
  ASSUME phase # "off", phase' # "off", UNCHANGED <<mem, disk>>, NEW n,
         result' = Answer("read", n, "ok")
  PROVE  K!Next
BY DEF K!Next, K!Report, Answer

LEMMA StopStep ==
  ASSUME phase # "off", Exit
  PROVE  K!Next
BY DEF Exit, Answer, K!Next, K!Stop

LEMMA CommitKeeps ==
  ASSUME TypeOK', phase = "idle", NEW c, NEW op, NEW n, NEW todo, NEW old,
         Commit(c, op, n, todo, old)
  PROVE  K!Next
<1>1. CASE /\ mem' = c
           /\ disk' = c
           /\ phase' = IF todo = {} THEN "idle" ELSE "apply"
  BY <1>1, KeepStep
<1>2. CASE /\ result' = Answer(op, n, "error")
           /\ UNCHANGED <<disk, phase, job>>
  BY <1>2, StrayStep DEF Answer
<1>3. CASE Exit
  BY <1>3, StopStep
<1> QED
  BY <1>1, <1>2, <1>3 DEF Commit

LEMMA RequestKeeps ==
  ASSUME TypeOK',
         \/ \E n \in Names : InterfaceOps(n)
         \/ \E n \in Names, s \in Slots : PeerOps(n, s)
         \/ \E set \in SettingInputs : UpdateSettings(set)
  PROVE  K!Next
<1>1. ASSUME NEW n \in Names, InterfaceOps(n) PROVE K!Next
  <2>1. ASSUME Get(n) PROVE K!Next
    <3>1. CASE Commit(WithIface(mem, n, WithTokens(mem.ifs[n])), "read", n, {}, FALSE)
      BY <2>1, <3>1, CommitKeeps DEF Get
    <3>2. CASE result' = Answer("read", n, "ok") /\ UNCHANGED <<mem, disk, phase, job>>
      BY <2>1, <3>2, ReadStep DEF Get
    <3> QED
      BY <2>1, <3>1, <3>2 DEF Get
  <2>2. ASSUME NEW in \in Patches, CreateInterface(n, in) PROVE K!Next
    BY <2>2, CommitKeeps DEF CreateInterface
  <2>3. ASSUME NEW in \in Patches, UpdateInterface(n, in) PROVE K!Next
    BY <2>3, CommitKeeps DEF UpdateInterface
  <2>4. ASSUME DeleteInterface(n) PROVE K!Next
    BY <2>4, CommitKeeps DEF DeleteInterface
  <2>5. ASSUME NEW up \in UpInputs, SetInterfaceUp(n, up) PROVE K!Next
    BY <2>5, CommitKeeps DEF SetInterfaceUp
  <2> QED
    BY <1>1, <2>1, <2>2, <2>3, <2>4, <2>5 DEF InterfaceOps
<1>2. ASSUME NEW n \in Names, NEW s \in Slots, PeerOps(n, s) PROVE K!Next
  <2>1. ASSUME NEW in \in PeerInputs, CreatePeer(n, s, in) PROVE K!Next
    BY <2>1, CommitKeeps DEF CreatePeer
  <2>2. ASSUME NEW in \in PeerInputs, UpdatePeer(n, s, in) PROVE K!Next
    <3>1. /\ phase = "idle"
          /\ \/ result' = Answer("peer", n, "error") /\ UNCHANGED <<disk, phase, job>>
             \/ \E c : Commit(c, "peer", n, {n}, FALSE)
      BY <2>2 DEF UpdatePeer
    <3>2. CASE result' = Answer("peer", n, "error") /\ UNCHANGED <<disk, phase, job>>
      BY <3>1, <3>2, StrayStep DEF Answer
    <3>3. ASSUME NEW c, Commit(c, "peer", n, {n}, FALSE) PROVE K!Next
      BY <3>1, <3>3, CommitKeeps
    <3> QED
      BY <3>1, <3>2, <3>3
  <2>3. ASSUME DeletePeer(n, s) PROVE K!Next
    BY <2>3, CommitKeeps DEF DeletePeer
  <2> QED
    BY <1>2, <2>1, <2>2, <2>3 DEF PeerOps
<1>3. ASSUME NEW set \in SettingInputs, UpdateSettings(set) PROVE K!Next
  BY <1>3, CommitKeeps DEF UpdateSettings
<1> QED
  BY <1>1, <1>2, <1>3

\* An interface is applied to what is saved; what comes of it is saved as well,
\* or the answer is an error.
LEMMA ApplyKeeps ==
  ASSUME DurabilityInv, TypeOK', NEW n \in Names,
         ApplySucceeds(n) \/ ApplyFails(n) \/ ReconcileRemoves(n)
  PROVE  K!Next
<1>1. phase = "apply" /\ phase' # "off" /\ mem = disk
  BY DEF ApplySucceeds, ApplyFails, ReconcileRemoves, Advance, DurabilityInv, AppliedIsPersisted
<1>2. [result EXCEPT !.st = "error"].st = "error"
  BY DEF DurabilityInv, TypeOK, Result
<1>3. mem' = disk' \/ (disk' = disk /\ result'.st = "error")
  <2>1. CASE ApplySucceeds(n)
    BY <1>1, <1>2, <2>1 DEF ApplySucceeds, AnswerView
  <2>2. CASE ApplyFails(n)
    BY <1>1, <1>2, <2>2 DEF ApplyFails
  <2>3. CASE ReconcileRemoves(n)
    BY <1>1, <2>3 DEF ReconcileRemoves
  <2> QED
    BY <2>1, <2>2, <2>3
<1> QED
  BY <1>1, <1>3, KeepStep, StrayStep

LEMMA KeeperStep == KeeperInv /\ [Next]_vars => [K!Next]_(K!vars) /\ OffIsSaved'
<1> SUFFICES ASSUME KeeperInv, [Next]_vars PROVE [K!Next]_(K!vars) /\ OffIsSaved'
  OBVIOUS
<1>1. TypeOK'
  BY NextType DEF KeeperInv, DurabilityInv
<1>2. [K!Next]_(K!vars)
  <2>1. CASE \/ \E n \in Names : InterfaceOps(n)
             \/ \E n \in Names, s \in Slots : PeerOps(n, s)
             \/ \E set \in SettingInputs : UpdateSettings(set)
    BY <1>1, <2>1, RequestKeeps
  <2>2. ASSUME NEW n \in Names, ApplySucceeds(n) \/ ApplyFails(n) \/ ReconcileRemoves(n)
        PROVE  K!Next
    BY <1>1, <2>2, ApplyKeeps DEF KeeperInv
  <2>3. CASE Crash
    BY <2>3, StopStep DEF Crash
  <2>4. CASE Boot
    <3>1. /\ phase = "off" /\ phase' # "off" /\ UNCHANGED <<mem, disk>>
          /\ result'.op = "boot" /\ result'.st \in {"ok", "pending"}
      BY <2>4 DEF Boot, Answer, KeeperInv, OffIsSaved
    <3> QED
      BY <3>1 DEF K!Next, K!Start
  <2>5. CASE UNCHANGED vars
    BY <2>5 DEF vars, K!vars
  <2> QED
    BY <2>1, <2>2, <2>3, <2>4, <2>5 DEF Next
<1>3. OffIsSaved'
  BY <1>2 DEF KeeperInv, OffIsSaved, K!Next, K!Keep, K!Stray, K!Report, K!Stop, K!Start, K!vars
<1> QED
  BY <1>2, <1>3

\* The daemon implements Keeper: each of its steps is one of Keeper or leaves
\* view, saved copy and answer as they are.
THEOREM RefinesKeeper == Spec => ImplementsKeeper
<1>1. Init => K!Init /\ OffIsSaved
  BY DEF Init, K!Init, OffIsSaved, Answer
<1>2. KeeperInv /\ [Next]_vars => KeeperInv'
  BY DurabilityStep, KeeperStep DEF KeeperInv
<1>3. Init => KeeperInv
  BY <1>1, DurabilityInit DEF KeeperInv
<1> QED
  BY <1>1, <1>2, <1>3, KeeperStep, PTL DEF Spec, ImplementsKeeper, K!Spec

-----------------------------------------------------------------------------
(* No orphan device *)

\* A device may only exist for an interface both the memory and the disk hold:
\* the next save writes the memory.
Devices(w) == Present(w) \subseteq IfaceNames(mem) \cap IfaceNames(disk)

OrphanInv == DurabilityInv /\ Devices(world)

LEMMA CommitDevices ==
  ASSUME TypeOK,
         NEW c \in Config, NEW op, NEW n, NEW todo, NEW old, Commit(c, op, n, todo, old),
         Present(world') \subseteq IfaceNames(c) \cap IfaceNames(disk)
  PROVE  Devices(world)'
BY DEF Commit, Exit, Devices, IfaceNames

LEMMA TouchesPresent ==
  ASSUME NEW w, NEW v, NEW n, Touches(w, v, n)
  PROVE  Present(v) \subseteq Present(w) \cup {n}
BY DEF Touches, Present, Exists

LEMMA InterfaceOpsDevices ==
  ASSUME OrphanInv, ~DriverFails, NEW n \in Names, InterfaceOps(n)
  PROVE  Devices(world)'
<1> USE DEF OrphanInv, DurabilityInv
<1>1. ASSUME NEW in \in Patches, CreateInterface(n, in) PROVE Devices(world)'
  <2> DEFINE f == [port |-> in.port, addr |-> in.addr, up |-> in.up,
                   peers |-> [s \in Slots |-> NoPeer]]
  <2>1. f \in Iface
    BY <1>1, InputsAssumption DEF CreateInterface, InterfacePatch, Iface
  <2>2. Commit(WithIface(mem, n, f), "iface", n, {n}, FALSE) /\ world' = world
    BY <1>1 DEF CreateInterface
  <2> HIDE DEF f
  <2>3. WithIface(mem, n, f) \in Config
        /\ IfaceNames(WithIface(mem, n, f)) = IfaceNames(mem) \cup {n}
    BY <2>1, WithIfaceType, WithIfaceNames DEF TypeOK
  <2> QED
    BY <2>2, <2>3, CommitDevices DEF Devices
<1>2. ASSUME NEW f \in Iface, NEW op, NEW todo, NEW old,
             Commit(WithIface(mem, n, f), op, n, todo, old), world' = world
      PROVE  Devices(world)'
  <2>1. WithIface(mem, n, f) \in Config
        /\ IfaceNames(WithIface(mem, n, f)) = IfaceNames(mem) \cup {n}
    BY WithIfaceType, WithIfaceNames DEF TypeOK
  <2> QED
    BY <1>2, <2>1, CommitDevices DEF Devices
<1>3. ASSUME NEW in \in Patches, UpdateInterface(n, in) PROVE Devices(world)'
  <2> DEFINE f == [mem.ifs[n] EXCEPT !.port = IF in.port = Unset THEN @ ELSE in.port,
                                     !.addr = in.addr, !.up = in.up]
  <2>1. Commit(WithIface(mem, n, f), "iface", n, {n}, FALSE) /\ world' = world
    BY <1>3 DEF UpdateInterface
  <2>2. f \in Iface
    <3>1. mem.ifs[n] \in Iface
      BY <1>3, MemIface DEF UpdateInterface
    <3>2. (IF in.port = Unset THEN mem.ifs[n].port ELSE in.port) \in Ports
      BY <3>1, InputsAssumption DEF InterfacePatch, Iface
    <3>3. in.addr \in Hosts \cup {NoHost} /\ in.up \in BOOLEAN
      BY InputsAssumption DEF InterfacePatch
    <3> QED
      BY <3>1, <3>2, <3>3 DEF Iface
  <2> HIDE DEF f
  <2> QED
    BY <1>2, <2>1, <2>2
<1>4. ASSUME DeleteInterface(n) PROVE Devices(world)'
  <2>1. mem.ifs[n] \in Iface /\ mem \in Config
    BY <1>4, MemIface DEF DeleteInterface
  <2>2. world' = Unplugged(world, n, mem.ifs[n], TRUE)
    BY <1>4 DEF DeleteInterface
  <2>3. Touches(world, world', n) /\ ~Exists(world', n)
    BY <2>1, <2>2, UnpluggedType DEF TypeOK
  <2>4. Present(world') \subseteq Present(world) \ {n}
    BY <2>3, TouchesPresent DEF Present
  <2>5. WithIface(mem, n, NoIface) \in Config
        /\ IfaceNames(mem) \ {n} \subseteq IfaceNames(WithIface(mem, n, NoIface))
    BY <2>1, WithIfaceType DEF IfaceNames
  <2>6. Commit(WithIface(mem, n, NoIface), "remove", n, {}, FALSE)
    BY <1>4 DEF DeleteInterface
  <2> QED
    BY <2>4, <2>5, <2>6, CommitDevices DEF Devices
<1>5. ASSUME NEW up \in UpInputs, SetInterfaceUp(n, up) PROVE Devices(world)'
  <2> DEFINE f == [mem.ifs[n] EXCEPT !.up = up]
  <2>1. Commit(WithIface(mem, n, f), "toggle", n, {n}, mem.ifs[n].up) /\ world' = world
    BY <1>5 DEF SetInterfaceUp
  <2>2. f \in Iface
    BY <1>5, MemIface, InputsAssumption DEF SetInterfaceUp, Iface
  <2> HIDE DEF f
  <2> QED
    BY <1>2, <2>1, <2>2
<1>6. ASSUME Get(n) PROVE Devices(world)'
  <2>1. WithTokens(mem.ifs[n]) \in Iface
    BY <1>6, MemIface, WithTokensType DEF Get
  <2>2. CASE UNCHANGED <<mem, disk>>
    BY <1>6, <2>2 DEF Get, Devices
  <2>3. CASE Commit(WithIface(mem, n, WithTokens(mem.ifs[n])), "read", n, {}, FALSE)
    BY <1>6, <1>2, <2>1, <2>3 DEF Get
  <2> QED
    BY <1>6, <2>2, <2>3 DEF Get
<1> QED
  BY <1>1, <1>3, <1>4, <1>5, <1>6 DEF InterfaceOps

\* Taking routes away leaves the devices as they are.
LEMMA UnplumbedPresent ==
  ASSUME NEW w \in World, NEW n \in Names, NEW aips \in SUBSET Prefixes
  PROVE  Present(Unplumbed(w, n, aips)) \subseteq Present(w)
BY UnplumbedType, TouchesPresent DEF Present

LEMMA PeerOpsDevices ==
  ASSUME OrphanInv, NEW n \in Names, NEW s \in Slots, PeerOps(n, s)
  PROVE  Devices(world)'
<1> USE DEF OrphanInv, DurabilityInv
<1>1. mem.ifs[n] \in Iface /\ mem \in Config /\ n \in IfaceNames(mem)
  BY MemIface DEF PeerOps, CreatePeer, UpdatePeer, DeletePeer, IfaceNames
<1>2. ASSUME NEW p \in Peer \cup {NoPeer},
             Commit(WithIface(mem, n, WithPeer(mem.ifs[n], s, p)), "peer", n, {n}, FALSE)
             \/ Commit(WithIface(mem, n, WithPeer(mem.ifs[n], s, p)), "remove", n, {n}, FALSE),
             Present(world') \subseteq Present(world)
      PROVE  Devices(world)'
  <2> DEFINE c == WithIface(mem, n, WithPeer(mem.ifs[n], s, p))
  <2>1. c \in Config /\ IfaceNames(c) = IfaceNames(mem) \cup {n}
    BY <1>1, WithPeerType, WithIfaceType, WithIfaceNames
  <2> HIDE DEF c
  <2>2. Present(world') \subseteq IfaceNames(c) \cap IfaceNames(disk)
    BY <1>2, <2>1 DEF Devices
  <2> QED
    BY <1>2, <2>1, <2>2, CommitDevices DEF c
<1>3. ASSUME NEW in \in PeerInputs, CreatePeer(n, s, in) PROVE Devices(world)'
  <2>1. PICK a \in AssignedAddresses(mem.ifs[n], in.addr) :
          Commit(WithIface(mem, n,
                   WithPeer(mem.ifs[n], s,
                     [key |-> in.key, priv |-> IF in.generate THEN in.key ELSE NoKey,
                      addr |-> a, aips |-> {HostPrefix(a)},
                      on |-> TRUE, lim |-> in.lim, tok |-> TRUE])),
                 "peer", n, {n}, FALSE)
    BY <1>3 DEF CreatePeer
  <2>2. a \in Hosts
    BY <1>1, InputsAssumption, AssignedAddressesType DEF PeerInput
  <2>3. {HostPrefix(a)} \in SUBSET Prefixes
    BY <2>2 DEF Prefixes
  <2>4. [key |-> in.key, priv |-> IF in.generate THEN in.key ELSE NoKey,
         addr |-> a, aips |-> {HostPrefix(a)},
         on |-> TRUE, lim |-> in.lim, tok |-> TRUE] \in Peer
    BY <2>2, <2>3, InputsAssumption DEF Peer, PeerInput
  <2> QED
    BY <1>2, <1>3, <2>1, <2>4 DEF CreatePeer
<1>4. ASSUME NEW in \in PeerInputs, UpdatePeer(n, s, in) PROVE Devices(world)'
  <2> DEFINE p == Readdressed(mem.ifs[n].peers[s], in)
             q == [p EXCEPT !.aips = OrOwnAddress(in.aips, in.addr), !.on = in.on, !.lim = in.lim]
  <2>1. in \in PeerInput /\ mem.ifs[n].peers[s] \in Peer
    BY <1>1, <1>4, InputsAssumption DEF UpdatePeer, Iface
  <2>2. p \in Peer
    BY <2>1, ReaddressedType
  <2>3. q \in Peer
    <3>1. OrOwnAddress(in.aips, in.addr) \in SUBSET Prefixes /\ in.on \in BOOLEAN /\ in.lim \in BOOLEAN
      BY <2>1, OrOwnAddressType DEF PeerInput
    <3> HIDE DEF p
    <3> QED
      BY <2>2, <3>1 DEF Peer
  <2>4. \/ /\ mem' = WithIface(mem, n, WithPeer(mem.ifs[n], s, p))
           /\ UNCHANGED <<disk, world>>
        \/ /\ world' = IF OSStack /\ p.aips # in.aips THEN Unplumbed(world, n, p.aips) ELSE world
           /\ Commit(WithIface(mem, n, WithPeer(mem.ifs[n], s, q)), "peer", n, {n}, FALSE)
    BY <1>4 DEF UpdatePeer
  <2> HIDE DEF p, q
  <2>5. CASE /\ mem' = WithIface(mem, n, WithPeer(mem.ifs[n], s, p))
             /\ UNCHANGED <<disk, world>>
    <3>1. WithPeer(mem.ifs[n], s, p) \in Iface
      BY <1>1, <2>2, WithPeerType
    <3>2. IfaceNames(WithIface(mem, n, WithPeer(mem.ifs[n], s, p))) = IfaceNames(mem) \cup {n}
      BY <1>1, <3>1, WithIfaceNames
    <3>3. mem' = WithIface(mem, n, WithPeer(mem.ifs[n], s, p)) /\ world' = world
      BY <2>5
    <3>4. IfaceNames(mem') = IfaceNames(mem)
      BY <1>1, <3>2, <3>3 DEF IfaceNames
    <3> QED
      BY <2>5, <3>4 DEF Devices
  <2>6. CASE /\ world' = IF OSStack /\ p.aips # in.aips THEN Unplumbed(world, n, p.aips) ELSE world
             /\ Commit(WithIface(mem, n, WithPeer(mem.ifs[n], s, q)), "peer", n, {n}, FALSE)
    <3>1. p.aips \in SUBSET Prefixes /\ world \in World
      BY <2>2 DEF Peer, TypeOK
    <3>2. Present(world') \subseteq Present(world)
      BY <2>6, <3>1, UnplumbedPresent
    <3> QED
      BY <1>2, <2>3, <2>6, <3>2
  <2> QED
    BY <2>4, <2>5, <2>6
<1>5. ASSUME DeletePeer(n, s) PROVE Devices(world)'
  <2>1. mem.ifs[n].peers[s].aips \in SUBSET Prefixes /\ world \in World
    BY <1>1, <1>5 DEF DeletePeer, Iface, Peer, TypeOK
  <2>2. Present(world') \subseteq Present(world)
    BY <1>5, <2>1, UnplumbedPresent DEF DeletePeer
  <2>3. Commit(WithIface(mem, n, WithPeer(mem.ifs[n], s, NoPeer)), "remove", n, {n}, FALSE)
    BY <1>5 DEF DeletePeer
  <2> QED
    BY <1>2, <2>2, <2>3
<1> QED
  BY <1>3, <1>4, <1>5 DEF PeerOps

LEMMA ApplyDevices ==
  ASSUME OrphanInv, ~DriverFails, NEW n \in Names, ApplySucceeds(n) \/ ReconcileRemoves(n)
  PROVE  Devices(world)'
<1> USE DEF OrphanInv, DurabilityInv
<1>1. /\ phase = "apply" /\ n \in job.todo /\ mem = disk
      /\ mem.ifs[n] \in Iface /\ mem \in Config /\ world \in World
      /\ n \in IfaceNames(mem)
  <2>1. phase = "apply" /\ n \in job.todo
    BY DEF ApplySucceeds, ReconcileRemoves
  <2> QED
    BY <2>1, JobIface DEF AppliedIsPersisted, TypeOK
<1>2. CASE ApplySucceeds(n)
  <2>1. Touches(world, world', n)
    <3>1. Applied(mem, n, mem.ifs[n], world, world', DriverFails) /\ DriverFails \in BOOLEAN
      BY <1>2 DEF ApplySucceeds, DriverFails
    <3> QED
      BY <1>1, <3>1, AppliedType
  <2>2. IfaceNames(mem') = IfaceNames(mem) /\ (disk' = disk \/ disk' = mem')
    BY <1>1, <1>2, AnswerViewType DEF ApplySucceeds, AnswerView
  <2> QED
    BY <1>1, <2>1, <2>2, TouchesPresent DEF Devices
<1>3. CASE ReconcileRemoves(n)
  <2>1. world' = Remove(world, n) /\ UNCHANGED <<mem, disk>>
    BY <1>3 DEF ReconcileRemoves
  <2>2. Touches(world, world', n)
    BY <1>1, <2>1, RemoveType
  <2> QED
    BY <1>1, <2>1, <2>2, TouchesPresent DEF Devices
<1> QED
  BY <1>2, <1>3

LEMMA OrphanStep == ~DriverFails /\ OrphanInv /\ [Next]_vars => OrphanInv'
<1> SUFFICES ASSUME ~DriverFails, OrphanInv, [Next]_vars PROVE Devices(world)'
  BY DurabilityStep DEF OrphanInv
<1>1. ASSUME NEW n \in Names, InterfaceOps(n) PROVE Devices(world)'
  BY <1>1, InterfaceOpsDevices
<1>2. ASSUME NEW n \in Names, NEW s \in Slots, PeerOps(n, s) PROVE Devices(world)'
  BY <1>2, PeerOpsDevices
<1>3. ASSUME NEW set \in SettingInputs, UpdateSettings(set) PROVE Devices(world)'
  <2> DEFINE c == [mem EXCEPT !.fwd = set.fwd, !.bl = set.bl]
  <2>1. c \in Config /\ c.ifs = mem.ifs
    BY InputsAssumption DEF OrphanInv, DurabilityInv, TypeOK, Settings, Config
  <2>2. \E todo : Commit(c, "settings", NoName, todo, FALSE)
    BY <1>3 DEF UpdateSettings
  <2>3. world' = world /\ IfaceNames(c) = IfaceNames(mem)
    BY <1>3, <2>1 DEF UpdateSettings, IfaceNames
  <2> HIDE DEF c
  <2> QED
    BY <2>1, <2>2, <2>3, CommitDevices DEF OrphanInv, DurabilityInv, Devices
<1>4. ASSUME NEW n \in Names, ApplySucceeds(n) \/ ApplyFails(n) \/ ReconcileRemoves(n)
      PROVE  Devices(world)'
  BY <1>4, ApplyDevices DEF ApplyFails
<1>5. CASE Crash
  <2>1. mem' = disk /\ disk' = disk
    BY <1>5 DEF Crash, Exit
  <2>2. CASE UNCHANGED world
    BY <2>1, <2>2 DEF OrphanInv, Devices
  <2>3. ASSUME phase = "apply", NEW n \in job.todo, Interrupted(n, world')
        PROVE  Devices(world)'
    <3>1. Touches(world, world', n) /\ n \in IfaceNames(mem) /\ mem = disk
      BY <2>3, InterruptedType DEF OrphanInv, DurabilityInv, AppliedIsPersisted, TypeOK
    <3> QED
      BY <2>1, <3>1, TouchesPresent DEF OrphanInv, Devices
  <2> QED
    BY <1>5, <2>2, <2>3 DEF Crash
<1>6. CASE Boot
  <2>1. world' = Survivors(world) /\ mem' = disk /\ disk' = disk
    BY <1>6 DEF Boot
  <2>2. Present(world') \subseteq Present(world)
    BY <2>1, SurvivorsType DEF OrphanInv, DurabilityInv, TypeOK, Present, Exists
  <2> QED
    BY <2>1, <2>2 DEF OrphanInv, Devices
<1>7. CASE UNCHANGED vars
  BY <1>7 DEF vars, OrphanInv, Devices
<1> QED
  BY <1>1, <1>2, <1>3, <1>4, <1>5, <1>6, <1>7 DEF Next

\* While removing a device works, the daemon may end anywhere and any save may
\* fail: no device is left that the file does not know.
THEOREM NoOrphans == ~DriverFails => (Spec => []NoOrphanDevice)
<1> SUFFICES ASSUME ~DriverFails PROVE Spec => []NoOrphanDevice
  OBVIOUS
<1>1. Init => OrphanInv
  BY DurabilityInit DEF OrphanInv, Devices, Init, InitWorld, Present, Exists
<1>2. OrphanInv /\ [Next]_vars => OrphanInv'
  BY OrphanStep
<1>3. OrphanInv => NoOrphanDevice
  BY DEF OrphanInv, Devices, NoOrphanDevice
<1> QED
  BY <1>1, <1>2, <1>3, PTL DEF Spec

-----------------------------------------------------------------------------
(* Unique keys and ports *)

UniqueKeys(f) ==
  \A s, t \in PeersOf(f) : f.peers[s].key = f.peers[t].key => s = t

UniquePorts(c) ==
  \A m, n \in IfaceNames(c) : c.ifs[m].port = c.ifs[n].port /\ c.ifs[n].port > 0 => m = n

Unique(c) == UniquePorts(c) /\ \A n \in IfaceNames(c) : UniqueKeys(c.ifs[n])

UniqueInv == TypeOK /\ Unique(mem) /\ Unique(disk)

LEMMA CommitUnique ==
  ASSUME UniqueInv, NEW c, Unique(c), NEW op, NEW n, NEW todo, NEW old,
         Commit(c, op, n, todo, old)
  PROVE  Unique(mem)' /\ Unique(disk)'
<1>1. (mem' = c \/ mem' = disk) /\ (disk' = c \/ disk' = disk)
  BY DEF Commit, Exit
<1> QED
  BY <1>1 DEF UniqueInv, Unique, UniquePorts, UniqueKeys, IfaceNames, PeersOf

\* An interface whose port is not taken and whose keys are unique can be written.
LEMMA WithIfaceUnique ==
  ASSUME NEW c \in Config, Unique(c), NEW n \in Names, NEW f \in Iface, UniqueKeys(f),
         f.port > 0 => \A m \in IfaceNames(c) \ {n} : c.ifs[m].port # f.port
  PROVE  Unique(WithIface(c, n, f))
<1> DEFINE d == WithIface(c, n, f)
<1>1. /\ d.ifs[n] = f
      /\ \A m \in Names \ {n} : d.ifs[m] = c.ifs[m]
      /\ IfaceNames(d) = IfaceNames(c) \cup {n}
  BY WithIfaceType, WithIfaceNames
<1> HIDE DEF d
<1>2. \A m \in IfaceNames(d) : UniqueKeys(d.ifs[m])
  BY <1>1 DEF Unique, IfaceNames
<1>3. UniquePorts(d)
  BY <1>1 DEF Unique, UniquePorts, IfaceNames
<1> QED
  BY <1>2, <1>3 DEF Unique, d

LEMMA WithPeerUnique ==
  ASSUME NEW f \in Iface, UniqueKeys(f), NEW s \in Slots, NEW p \in Peer \cup {NoPeer},
         p # NoPeer => ~DuplicateKey(f, p.key, {s})
  PROVE  /\ UniqueKeys(WithPeer(f, s, p))
         /\ WithPeer(f, s, p).port = f.port
<1> DEFINE g == WithPeer(f, s, p)
<1>1. /\ g.peers[s] = p
      /\ \A t \in Slots \ {s} : g.peers[t] = f.peers[t]
      /\ g.port = f.port
  BY WithPeerType DEF WithPeer, Iface
<1> HIDE DEF g
<1>2. ASSUME NEW t \in PeersOf(g), NEW u \in PeersOf(g), g.peers[t].key = g.peers[u].key
      PROVE  t = u
  <2>1. CASE t # s /\ u # s
    BY <1>1, <1>2, <2>1 DEF UniqueKeys, PeersOf
  <2>2. CASE t = s \/ u = s
    BY <1>1, <1>2, <2>2 DEF DuplicateKey, PeersOf
  <2> QED
    BY <2>1, <2>2
<1> QED
  BY <1>1, <1>2 DEF UniqueKeys, g

\* Generating tokens changes no key, setting the link state neither.
LEMMA WithTokensUnique ==
  ASSUME NEW f \in Iface, UniqueKeys(f)
  PROVE  UniqueKeys(WithTokens(f)) /\ WithTokens(f).port = f.port
<1> DEFINE g == WithTokens(f)
<1>1. g.peers = [s \in Slots |-> IF f.peers[s] = NoPeer THEN NoPeer
                                 ELSE [f.peers[s] EXCEPT !.tok = TRUE]]
      /\ g.port = f.port
  BY DEF WithTokens, Iface
<1> HIDE DEF g
<1>2. \A s \in PeersOf(g) : s \in PeersOf(f) /\ g.peers[s].key = f.peers[s].key
  <2> SUFFICES ASSUME NEW s \in PeersOf(g)
               PROVE  s \in PeersOf(f) /\ g.peers[s].key = f.peers[s].key
    OBVIOUS
  <2>1. s \in Slots /\ f.peers[s] # NoPeer
    BY <1>1 DEF PeersOf
  <2>2. f.peers[s] \in Peer /\ g.peers[s] = [f.peers[s] EXCEPT !.tok = TRUE]
    BY <1>1, <2>1 DEF Iface
  <2> QED
    BY <2>1, <2>2 DEF PeersOf, Peer
<1> QED
  BY <1>1, <1>2 DEF UniqueKeys, g

\* The interface of a configuration with unique ports keeps its port.
LEMMA SamePortFree ==
  ASSUME NEW c \in Config, Unique(c), NEW n \in IfaceNames(c)
  PROVE  c.ifs[n].port > 0 => \A m \in IfaceNames(c) \ {n} : c.ifs[m].port # c.ifs[n].port
BY DEF Unique, UniquePorts

LEMMA InterfaceOpsUnique ==
  ASSUME UniqueInv, NEW n \in Names, InterfaceOps(n)
  PROVE  Unique(mem)' /\ Unique(disk)'
<1> DEFINE Q == Unique(mem)' /\ Unique(disk)'
<1> USE DEF UniqueInv
<1>0. mem \in Config
  BY DEF TypeOK
<1>1. ASSUME NEW in \in Patches, CreateInterface(n, in) PROVE Q
  <2> DEFINE f == [port |-> in.port, addr |-> in.addr, up |-> in.up,
                   peers |-> [s \in Slots |-> NoPeer]]
  <2>1. f \in Iface
    BY <1>1, InputsAssumption DEF CreateInterface, InterfacePatch, Iface
  <2>2. UniqueKeys(f)
    BY DEF UniqueKeys, PeersOf
  <2>3. f.port > 0 => \A m \in IfaceNames(mem) \ {n} : mem.ifs[m].port # f.port
    BY <1>1 DEF CreateInterface, PortTaken
  <2>4. Commit(WithIface(mem, n, f), "iface", n, {n}, FALSE)
    BY <1>1 DEF CreateInterface
  <2> HIDE DEF f
  <2> QED
    BY <1>0, <2>1, <2>2, <2>3, <2>4, WithIfaceUnique, CommitUnique
<1>2. ASSUME NEW in \in Patches, UpdateInterface(n, in) PROVE Q
  <2> DEFINE f == [mem.ifs[n] EXCEPT !.port = IF in.port = Unset THEN @ ELSE in.port,
                                     !.addr = in.addr, !.up = in.up]
  <2>1. mem.ifs[n] \in Iface /\ n \in IfaceNames(mem)
    BY <1>2, MemIface DEF UpdateInterface, IfaceNames
  <2>2. /\ f \in Iface /\ f.peers = mem.ifs[n].peers
        /\ f.port = IF in.port = Unset THEN mem.ifs[n].port ELSE in.port
    <3>1. (IF in.port = Unset THEN mem.ifs[n].port ELSE in.port) \in Ports
      BY <2>1, InputsAssumption DEF InterfacePatch, Iface
    <3>2. in.addr \in Hosts \cup {NoHost} /\ in.up \in BOOLEAN
      BY InputsAssumption DEF InterfacePatch
    <3> QED
      BY <2>1, <3>1, <3>2 DEF Iface
  <2>3. Commit(WithIface(mem, n, f), "iface", n, {n}, FALSE)
    BY <1>2 DEF UpdateInterface
  <2> HIDE DEF f
  <2>4. UniqueKeys(f)
    BY <2>1, <2>2 DEF Unique, UniqueKeys, PeersOf
  <2>5. f.port > 0 => \A m \in IfaceNames(mem) \ {n} : mem.ifs[m].port # f.port
    BY <1>0, <1>2, <2>1, <2>2, SamePortFree DEF UpdateInterface, PortTaken
  <2> QED
    BY <1>0, <2>2, <2>3, <2>4, <2>5, WithIfaceUnique, CommitUnique
<1>3. ASSUME DeleteInterface(n) PROVE Q
  <2>1. Unique(WithIface(mem, n, NoIface))
    <3> DEFINE d == WithIface(mem, n, NoIface)
    <3>1. d.ifs[n] = NoIface /\ \A m \in Names \ {n} : d.ifs[m] = mem.ifs[m]
      BY <1>0, WithIfaceType
    <3> HIDE DEF d
    <3>2. Unique(d)
      BY <3>1 DEF Unique, UniquePorts, IfaceNames
    <3> QED
      BY <3>2 DEF d
  <2> QED
    BY <1>3, <2>1, CommitUnique DEF DeleteInterface
<1>4. ASSUME NEW up \in UpInputs, SetInterfaceUp(n, up) PROVE Q
  <2> DEFINE f == [mem.ifs[n] EXCEPT !.up = up]
  <2>1. mem.ifs[n] \in Iface /\ n \in IfaceNames(mem) /\ up \in BOOLEAN
    BY <1>4, MemIface, InputsAssumption DEF SetInterfaceUp, IfaceNames
  <2>2. f \in Iface /\ f.peers = mem.ifs[n].peers /\ f.port = mem.ifs[n].port
    BY <2>1 DEF Iface
  <2>3. Commit(WithIface(mem, n, f), "toggle", n, {n}, mem.ifs[n].up)
    BY <1>4 DEF SetInterfaceUp
  <2> HIDE DEF f
  <2>4. UniqueKeys(f)
    BY <2>1, <2>2 DEF Unique, UniqueKeys, PeersOf
  <2> QED
    BY <1>0, <2>1, <2>2, <2>3, <2>4, SamePortFree, WithIfaceUnique, CommitUnique
<1>5. ASSUME Get(n) PROVE Q
  <2>1. mem.ifs[n] \in Iface /\ n \in IfaceNames(mem)
    BY <1>5, MemIface DEF Get, IfaceNames
  <2>2. Unique(WithIface(mem, n, WithTokens(mem.ifs[n])))
    BY <1>0, <2>1, WithTokensType, WithTokensUnique, SamePortFree, WithIfaceUnique DEF Unique
  <2>3. CASE UNCHANGED <<mem, disk>>
    BY <2>3 DEF Unique, UniquePorts, UniqueKeys, IfaceNames, PeersOf
  <2>4. CASE Commit(WithIface(mem, n, WithTokens(mem.ifs[n])), "read", n, {}, FALSE)
    BY <2>2, <2>4, CommitUnique
  <2> QED
    BY <1>5, <2>3, <2>4 DEF Get
<1> QED
  BY <1>1, <1>2, <1>3, <1>4, <1>5 DEF InterfaceOps

LEMMA PeerOpsUnique ==
  ASSUME UniqueInv, NEW n \in Names, NEW s \in Slots, PeerOps(n, s)
  PROVE  Unique(mem)' /\ Unique(disk)'
<1> DEFINE Q == Unique(mem)' /\ Unique(disk)'
<1> USE DEF UniqueInv
<1>1. mem.ifs[n] \in Iface /\ mem \in Config /\ n \in IfaceNames(mem)
  BY MemIface DEF PeerOps, CreatePeer, UpdatePeer, DeletePeer, IfaceNames
<1>2. ASSUME NEW p \in Peer \cup {NoPeer}, p # NoPeer => ~DuplicateKey(mem.ifs[n], p.key, {s})
      PROVE  Unique(WithIface(mem, n, WithPeer(mem.ifs[n], s, p)))
  <2> DEFINE f == WithPeer(mem.ifs[n], s, p)
  <2>1. f \in Iface /\ UniqueKeys(f) /\ f.port = mem.ifs[n].port
    BY <1>1, <1>2, WithPeerType, WithPeerUnique DEF Unique
  <2> HIDE DEF f
  <2>2. Unique(WithIface(mem, n, f))
    BY <1>1, <2>1, SamePortFree, WithIfaceUnique
  <2> QED
    BY <2>2 DEF f
<1>3. ASSUME NEW in \in PeerInputs, CreatePeer(n, s, in) PROVE Q
  <2>1. PICK a \in AssignedAddresses(mem.ifs[n], in.addr) :
          Commit(WithIface(mem, n,
                   WithPeer(mem.ifs[n], s,
                     [key |-> in.key, priv |-> IF in.generate THEN in.key ELSE NoKey,
                      addr |-> a, aips |-> {HostPrefix(a)},
                      on |-> TRUE, lim |-> in.lim, tok |-> TRUE])),
                 "peer", n, {n}, FALSE)
    BY <1>3 DEF CreatePeer
  <2> DEFINE p == [key |-> in.key, priv |-> IF in.generate THEN in.key ELSE NoKey,
                   addr |-> a, aips |-> {HostPrefix(a)},
                   on |-> TRUE, lim |-> in.lim, tok |-> TRUE]
  <2>2. a \in Hosts
    BY <1>1, InputsAssumption, AssignedAddressesType DEF PeerInput
  <2>3. {HostPrefix(a)} \in SUBSET Prefixes
    BY <2>2 DEF Prefixes
  <2>4. p \in Peer /\ p.key = in.key
    BY <2>2, <2>3, InputsAssumption DEF Peer, PeerInput
  <2>5. Commit(WithIface(mem, n, WithPeer(mem.ifs[n], s, p)), "peer", n, {n}, FALSE)
    BY <2>1
  <2> HIDE DEF p
  <2>6. ~DuplicateKey(mem.ifs[n], p.key, {s})
    BY <1>3, <2>4 DEF CreatePeer, DuplicateKey
  <2> QED
    BY <1>2, <2>4, <2>5, <2>6, CommitUnique
<1>4. ASSUME NEW in \in PeerInputs, UpdatePeer(n, s, in) PROVE Q
  <2> DEFINE p == Readdressed(mem.ifs[n].peers[s], in)
             q == [p EXCEPT !.aips = OrOwnAddress(in.aips, in.addr), !.on = in.on, !.lim = in.lim]
  <2>1. in \in PeerInput /\ mem.ifs[n].peers[s] \in Peer
    BY <1>1, <1>4, InputsAssumption DEF UpdatePeer, Iface
  <2>2. p \in Peer /\ p.key = in.key
    BY <2>1, ReaddressedType
  <2>3. q \in Peer /\ q.key = in.key
    <3>1. OrOwnAddress(in.aips, in.addr) \in SUBSET Prefixes /\ in.on \in BOOLEAN /\ in.lim \in BOOLEAN
      BY <2>1, OrOwnAddressType DEF PeerInput
    <3> HIDE DEF p
    <3> QED
      BY <2>2, <3>1 DEF Peer
  <2>4. \/ mem' = WithIface(mem, n, WithPeer(mem.ifs[n], s, p)) /\ UNCHANGED disk
        \/ Commit(WithIface(mem, n, WithPeer(mem.ifs[n], s, q)), "peer", n, {n}, FALSE)
    BY <1>4 DEF UpdatePeer
  <2>5. ~DuplicateKey(mem.ifs[n], in.key, {s})
    BY <1>4 DEF UpdatePeer
  <2> HIDE DEF p, q
  <2>6. CASE mem' = WithIface(mem, n, WithPeer(mem.ifs[n], s, p)) /\ UNCHANGED disk
    BY <1>2, <2>2, <2>5, <2>6 DEF Unique, UniquePorts, UniqueKeys, IfaceNames, PeersOf
  <2>7. CASE Commit(WithIface(mem, n, WithPeer(mem.ifs[n], s, q)), "peer", n, {n}, FALSE)
    BY <1>2, <2>3, <2>5, <2>7, CommitUnique
  <2> QED
    BY <2>4, <2>6, <2>7
<1>5. ASSUME DeletePeer(n, s) PROVE Q
  BY <1>2, <1>5, CommitUnique DEF DeletePeer
<1> QED
  BY <1>3, <1>4, <1>5 DEF PeerOps

LEMMA ApplyUnique ==
  ASSUME UniqueInv, NEW n \in Names, ApplySucceeds(n) \/ ApplyFails(n) \/ ReconcileRemoves(n)
  PROVE  Unique(mem)' /\ Unique(disk)'
<1> USE DEF UniqueInv
<1>1. /\ phase = "apply" /\ n \in job.todo /\ n \in IfaceNames(mem)
      /\ mem.ifs[n] \in Iface /\ mem \in Config
  BY JobIface DEF ApplySucceeds, ApplyFails, ReconcileRemoves, TypeOK
<1>2. ASSUME NEW f \in Iface, UniqueKeys(f), f.port = mem.ifs[n].port,
             mem' = WithIface(mem, n, f), disk' = mem' \/ disk' = disk
      PROVE  Unique(mem)' /\ Unique(disk)'
  <2>1. Unique(WithIface(mem, n, f))
    BY <1>1, <1>2, SamePortFree, WithIfaceUnique
  <2> QED
    BY <1>2, <2>1 DEF Unique, UniquePorts, UniqueKeys, IfaceNames, PeersOf
<1>3. CASE UNCHANGED <<mem, disk>>
  BY <1>3 DEF Unique, UniquePorts, UniqueKeys, IfaceNames, PeersOf
<1>4. CASE ApplySucceeds(n) /\ AnswerView(n)
  <2>1. /\ WithTokens(mem.ifs[n]) \in Iface /\ UniqueKeys(WithTokens(mem.ifs[n]))
        /\ WithTokens(mem.ifs[n]).port = mem.ifs[n].port
    BY <1>1, WithTokensType, WithTokensUnique DEF Unique
  <2>2. /\ mem' = WithIface(mem, n, WithTokens(mem.ifs[n]))
        /\ disk' = mem' \/ disk' = disk
    BY <1>4 DEF AnswerView
  <2> QED
    BY <1>2, <2>1, <2>2
<1>5. CASE ApplyFails(n) /\ job.op = "toggle"
  <2> DEFINE f == [mem.ifs[n] EXCEPT !.up = job.old]
  <2>1. f \in Iface /\ f.peers = mem.ifs[n].peers /\ f.port = mem.ifs[n].port
    BY <1>1 DEF TypeOK, Job, Iface
  <2>2. mem' = WithIface(mem, n, f) /\ (disk' = mem' \/ disk' = disk)
    BY <1>5 DEF ApplyFails
  <2> HIDE DEF f
  <2>3. UniqueKeys(f)
    BY <1>1, <2>1 DEF Unique, UniqueKeys, PeersOf
  <2> QED
    BY <1>2, <2>1, <2>2, <2>3
<1> QED
  BY <1>3, <1>4, <1>5 DEF ApplySucceeds, ApplyFails, ReconcileRemoves

LEMMA UniqueStep == UniqueInv /\ [Next]_vars => UniqueInv'
<1> SUFFICES ASSUME UniqueInv, [Next]_vars PROVE Unique(mem)' /\ Unique(disk)'
  BY NextType DEF UniqueInv
<1>1. ASSUME NEW set \in SettingInputs, UpdateSettings(set)
      PROVE  Unique(mem)' /\ Unique(disk)'
  <2> DEFINE c == [mem EXCEPT !.fwd = set.fwd, !.bl = set.bl]
  <2>1. c.ifs = mem.ifs
    BY DEF UniqueInv, TypeOK, Config
  <2>2. \E todo : Commit(c, "settings", NoName, todo, FALSE)
    BY <1>1 DEF UpdateSettings
  <2> HIDE DEF c
  <2>3. Unique(c)
    BY <2>1 DEF UniqueInv, Unique, UniquePorts, IfaceNames
  <2> QED
    BY <2>2, <2>3, CommitUnique
<1>2. ASSUME mem' = mem \/ mem' = disk, disk' = disk
      PROVE  Unique(mem)' /\ Unique(disk)'
  BY <1>2 DEF UniqueInv, Unique, UniquePorts, UniqueKeys, IfaceNames, PeersOf
<1>3. Crash \/ Boot \/ UNCHANGED vars => (mem' = mem \/ mem' = disk) /\ disk' = disk
  BY DEF Crash, Exit, Boot, vars
<1> QED
  BY <1>1, <1>2, <1>3, InterfaceOpsUnique, PeerOpsUnique, ApplyUnique DEF Next

LEMMA UniqueInit == (\A c \in StartConfigs : Unique(c)) => (Init => UniqueInv)
BY InitType DEF Init, UniqueInv

\* If the file the first daemon finds has unique keys and ports, no sequence of
\* operations, failures and restarts makes two peers share a key, in memory or
\* on disk.
THEOREM KeysStayUnique ==
  (\A c \in StartConfigs : Unique(c)) => (Spec => []KeysUnique)
<1>1. UniqueInv => KeysUnique
  BY DEF UniqueInv, Unique, UniqueKeys, KeysUnique
<1> QED
  BY <1>1, UniqueInit, UniqueStep, PTL DEF Spec

\* And none makes two interfaces share a port, although the creation of an
\* interface takes port 0 as none and an update compares it like any other.
THEOREM PortsStayUnique ==
  (\A c \in StartConfigs : Unique(c)) => (Spec => []PortsUnique)
<1>1. UniqueInv => PortsUnique
  BY DEF UniqueInv, Unique, UniquePorts, PortsUnique
<1> QED
  BY <1>1, UniqueInit, UniqueStep, PTL DEF Spec

=============================================================================
