------------------------- MODULE ManagerLiveProofs -------------------------
(***************************************************************************)
(* Proofs about Manager.tla, continued: what the devices look like when an *)
(* operation answers, for every value of the constants.  The first part    *)
(* says what a successful application of one interface leaves behind, call *)
(* by call; the theorems follow from it, because nothing but such an       *)
(* application brings an operation on an interface to success.             *)
(***************************************************************************)
EXTENDS ManagerProofs

-----------------------------------------------------------------------------
(* What one driver call leaves alone *)

\* Device e has the peers, the port and the forwarding mode of d.
SameTunnel(d, e) == e.peers = d.peers /\ e.port = d.port /\ e.fwd = d.fwd

\* v differs from w at most in the device and the block list of n, and in the
\* routing state of the host, where forwarding is never switched off.
HostKept(w, v, n) ==
  /\ Touches(w, v, n)
  /\ \A m \in Names \ {n} : v.bl[m] = w.bl[m]
  /\ w.ipfwd => v.ipfwd

LEMMA SameTunnelTrans ==
  ASSUME NEW c, NEW d, NEW e, SameTunnel(c, d), SameTunnel(d, e)
  PROVE  SameTunnel(c, e)
BY DEF SameTunnel

LEMMA HostKeptTrans ==
  ASSUME NEW u, NEW v, NEW w, NEW n, HostKept(u, v, n), HostKept(v, w, n)
  PROVE  HostKept(u, w, n)
BY DEF HostKept, Touches

LEMMA HostKeptSelf ==
  ASSUME NEW w \in World, NEW n
  PROVE  HostKept(w, w, n)
BY DEF HostKept, Touches

LEMMA WithDevKept ==
  ASSUME NEW w \in World, NEW n \in Names, NEW d \in Device \cup {NoDev}
  PROVE  /\ HostKept(w, WithDev(w, n, d), n)
         /\ WithDev(w, n, d).dev[n] = d
         /\ WithDev(w, n, d).bl = w.bl
         /\ WithDev(w, n, d).table = w.table
         /\ WithDev(w, n, d).rules = w.rules
         /\ WithDev(w, n, d).ipfwd = w.ipfwd
<1>1. /\ WithDev(w, n, d).bl = w.bl
      /\ WithDev(w, n, d).table = w.table
      /\ WithDev(w, n, d).rules = w.rules
      /\ WithDev(w, n, d).ipfwd = w.ipfwd
  BY DEF WithDev, World
<1> QED
  BY <1>1, WithDevType DEF HostKept

LEMMA CreateKept ==
  ASSUME NEW w \in World, NEW n \in Names
  PROVE  /\ HostKept(w, Create(w, n), n)
         /\ Create(w, n).dev[n] \in Device
         /\ Create(w, n).bl = w.bl
<1>1. CASE Exists(w, n)
  BY <1>1, CreateType, HostKeptSelf DEF Create
<1>2. CASE ~Exists(w, n)
  BY <1>2, CreateType, BlankDeviceType, WithDevKept DEF Create
<1> QED
  BY <1>1, <1>2

LEMMA ConfigureKept ==
  ASSUME NEW w \in World, NEW n \in Names, w.dev[n] \in Device,
         NEW cfg \in [port : Ports, mark : BOOLEAN, fwd : BOOLEAN, peers : SUBSET PeerSpec]
  PROVE  LET v == Configure(w, n, cfg)
         IN  /\ HostKept(w, v, n)
             /\ v.dev[n] \in Device
             /\ v.dev[n].peers = cfg.peers
             /\ v.dev[n].fwd = cfg.fwd
             /\ cfg.port > 0 => v.dev[n].port = cfg.port
<1> DEFINE d == [w.dev[n] EXCEPT !.port  = IF cfg.port > 0 THEN cfg.port ELSE @,
                                 !.mark  = cfg.mark \/ @,
                                 !.fwd   = cfg.fwd,
                                 !.peers = cfg.peers]
<1>1. (cfg.mark \/ w.dev[n].mark) \in BOOLEAN
  OBVIOUS
<1>2. (IF cfg.port > 0 THEN cfg.port ELSE w.dev[n].port) \in Ports
  BY DEF Device
<1>3. d \in Device
  BY <1>1, <1>2 DEF Device
<1>4. d.peers = cfg.peers /\ d.fwd = cfg.fwd /\ (cfg.port > 0 => d.port = cfg.port)
  BY DEF Device
<1>5. Configure(w, n, cfg) = WithDev(w, n, d)
  BY DEF Configure
<1> HIDE DEF d
<1> QED
  BY <1>3, <1>4, <1>5, WithDevKept

LEMMA SetAddressesKept ==
  ASSUME NEW w \in World, NEW n \in Names, w.dev[n] \in Device, NEW a \in Hosts
  PROVE  LET v == SetAddresses(w, n, a)
         IN  /\ HostKept(w, v, n)
             /\ v.dev[n] \in Device
             /\ SameTunnel(w.dev[n], v.dev[n])
<1> DEFINE A == IF OSStack THEN w.dev[n].addrs \cup {a}
                ELSE IF w.dev[n].built THEN w.dev[n].addrs ELSE {a}
           d == [w.dev[n] EXCEPT !.addrs = A]
<1>1. A \in SUBSET Hosts
  BY DEF Device
<1>2. SetAddresses(w, n, a) = WithDev(w, n, d)
  BY DEF SetAddresses
<1> HIDE DEF A
<1>3. d \in Device /\ SameTunnel(w.dev[n], d)
  BY <1>1 DEF Device, SameTunnel
<1> HIDE DEF d
<1> QED
  BY <1>2, <1>3, WithDevKept

LEMMA UpKept ==
  ASSUME NEW w \in World, NEW n \in Names, w.dev[n] \in Device
  PROVE  LET v == Up(w, n)
         IN  /\ HostKept(w, v, n)
             /\ v.dev[n] \in Device
             /\ v.dev[n].up
             /\ SameTunnel(w.dev[n], v.dev[n])
<1> DEFINE d == [w.dev[n] EXCEPT !.up = TRUE, !.built = ~OSStack]
<1>1. d \in Device /\ d.up /\ SameTunnel(w.dev[n], d)
  BY DEF Device, SameTunnel, OSStack
<1>2. Up(w, n) = WithDev(w, n, d)
  BY DEF Up
<1> HIDE DEF d
<1> QED
  BY <1>1, <1>2, WithDevKept

LEMMA DropTableKept ==
  ASSUME NEW w \in World, NEW n \in Names
  PROVE  LET v == DropTable(w, n)
         IN  v \in World /\ v.dev = w.dev /\ v.bl = w.bl /\ v.ipfwd = w.ipfwd
BY DEF DropTable, World

LEMMA DownKept ==
  ASSUME NEW w \in World, NEW n \in Names, w.dev[n] \in Device
  PROVE  LET v == Down(w, n)
         IN  /\ HostKept(w, v, n)
             /\ v.dev[n] \in Device
             /\ ~v.dev[n].up
             /\ SameTunnel(w.dev[n], v.dev[n])
<1> DEFINE d == [w.dev[n] EXCEPT !.up = FALSE, !.routes = {}]
           u == WithDev(w, n, d)
<1>1. d \in Device /\ ~d.up /\ SameTunnel(w.dev[n], d)
  BY DEF Device, SameTunnel
<1>2. Down(w, n) = DropTable(u, n)
  BY DEF Down
<1> HIDE DEF d
<1>3. HostKept(w, u, n) /\ u.dev[n] = d
  BY <1>1, WithDevKept
<1> HIDE DEF u
<1>4. /\ Down(w, n) \in World /\ Down(w, n).dev = u.dev /\ Down(w, n).bl = u.bl
      /\ Down(w, n).ipfwd = u.ipfwd
  BY <1>2, <1>3, DropTableKept DEF HostKept, Touches
<1> QED
  BY <1>1, <1>3, <1>4 DEF HostKept, Touches

LEMMA RemoveKept ==
  ASSUME NEW w \in World, NEW n \in Names
  PROVE  HostKept(w, Remove(w, n), n) /\ ~Exists(Remove(w, n), n)
<1> DEFINE u == WithDev(w, n, NoDev)
           gone == DropTable(u, n)
<1>1. HostKept(w, u, n) /\ u.dev[n] = NoDev /\ u.bl = w.bl /\ u.ipfwd = w.ipfwd
  BY WithDevKept
<1>2. Remove(w, n) = IF OSStack THEN gone ELSE [gone EXCEPT !.bl = [w.bl EXCEPT ![n] = {}]]
  BY DEF Remove
<1> HIDE DEF u
<1>3. gone \in World /\ gone.dev = u.dev /\ gone.bl = u.bl /\ gone.ipfwd = u.ipfwd
  BY <1>1, DropTableKept DEF HostKept, Touches
<1> HIDE DEF gone
<1>4. CASE OSStack
  BY <1>1, <1>2, <1>3, <1>4 DEF HostKept, Touches, Exists
<1>5. CASE ~OSStack
  <2>1. /\ Remove(w, n) \in World /\ Remove(w, n).dev = gone.dev
        /\ Remove(w, n).ipfwd = gone.ipfwd
        /\ Remove(w, n).bl = [w.bl EXCEPT ![n] = {}]
    BY <1>2, <1>3, <1>5 DEF World
  <2>2. \A m \in Names \ {n} : Remove(w, n).bl[m] = w.bl[m]
    BY <2>1 DEF World
  <2> QED
    BY <1>1, <1>3, <2>1, <2>2 DEF HostKept, Touches, Exists
<1> QED
  BY <1>4, <1>5

LEMMA ApplyShapingKept ==
  ASSUME NEW w \in World, NEW n \in Names, NEW specs \in SUBSET SUBSET Prefixes,
         w.dev[n] \in Device
  PROVE  LET v == ApplyShaping(w, n, specs)
         IN  /\ HostKept(w, v, n)
             /\ v.dev[n] \in Device
             /\ v.dev[n].shaped = specs
             /\ v.dev[n].up = w.dev[n].up
             /\ v.dev[n].routes = w.dev[n].routes
             /\ SameTunnel(w.dev[n], v.dev[n])
             /\ v.table = w.table /\ v.rules = w.rules /\ v.ipfwd = w.ipfwd
<1> DEFINE d == [w.dev[n] EXCEPT !.shaped = specs]
<1>1. /\ d \in Device /\ d.shaped = specs /\ SameTunnel(w.dev[n], d)
      /\ d.up = w.dev[n].up /\ d.routes = w.dev[n].routes
  BY DEF Device, SameTunnel
<1>2. ApplyShaping(w, n, specs) = WithDev(w, n, d)
  BY NoDevAssumption DEF ApplyShaping, Exists
<1> HIDE DEF d
<1> QED
  BY <1>1, <1>2, WithDevKept

LEMMA ApplyBlacklistKept ==
  ASSUME NEW w \in World, NEW n \in Names, NEW entries \in SUBSET Entries,
         w.dev[n] \in Device
  PROVE  LET v == ApplyBlacklist(w, n, entries)
         IN  /\ HostKept(w, v, n)
             /\ v.dev = w.dev
             /\ v.bl[n] = entries
             /\ v.table = w.table /\ v.rules = w.rules /\ v.ipfwd = w.ipfwd
<1>1. ApplyBlacklist(w, n, entries) = [w EXCEPT !.bl = [w.bl EXCEPT ![n] = entries]]
  BY NoDevAssumption DEF ApplyBlacklist, Exists
<1> DEFINE v == ApplyBlacklist(w, n, entries)
<1>2. /\ v \in World /\ v.dev = w.dev /\ v.bl = [w.bl EXCEPT ![n] = entries]
      /\ v.table = w.table /\ v.rules = w.rules /\ v.ipfwd = w.ipfwd
  BY <1>1 DEF World
<1>3. v.bl[n] = entries /\ \A m \in Names \ {n} : v.bl[m] = w.bl[m]
  BY <1>2 DEF World
<1> HIDE DEF v
<1> QED
  BY <1>2, <1>3 DEF HostKept, Touches, v

LEMMA EnsureForwardingKept ==
  ASSUME NEW w \in World, NEW n
  PROVE  LET v == EnsureForwarding(w)
         IN  HostKept(w, v, n) /\ v.dev = w.dev /\ v.ipfwd
<1>1. LET v == EnsureForwarding(w)
      IN  v \in World /\ v.dev = w.dev /\ v.bl = w.bl /\ v.ipfwd
  BY DEF EnsureForwarding, World
<1> QED
  BY <1>1 DEF HostKept, Touches

\* What the other devices hold of the routing table is theirs to change.
LEMMA ElsewhereKept ==
  ASSUME NEW w, NEW v, NEW n, Touches(w, v, n)
  PROVE  RoutedElsewhere(v, n) = RoutedElsewhere(w, n)
<1>1. Present(v) \ {n} = Present(w) \ {n}
  BY DEF Touches, Present, Exists
<1>2. \A m \in Present(w) \ {n} : v.dev[m].routes = w.dev[m].routes
  BY DEF Touches, Present
<1> QED
  BY <1>1, <1>2 DEF RoutedElsewhere

LEMMA AddRoutesKept ==
  ASSUME NEW w \in World, NEW n \in Names, w.dev[n] \in Device, NEW aips \in SUBSET Prefixes
  PROVE  LET v == AddRoutes(w, n, aips)
         IN  /\ HostKept(w, v, n)
             /\ v.dev[n] \in Device
             /\ v.dev[n].up = w.dev[n].up
             /\ RouteTargets(aips) \subseteq v.dev[n].routes \cup RoutedElsewhere(v, n)
             /\ SameTunnel(w.dev[n], v.dev[n])
             /\ v.ipfwd = w.ipfwd
<1> DEFINE R == w.dev[n].routes \cup (RouteTargets(aips) \ RoutedElsewhere(w, n))
           d == [w.dev[n] EXCEPT !.routes = R]
<1>1. R \in SUBSET Prefixes /\ RouteTargets(aips) \subseteq R \cup RoutedElsewhere(w, n)
  BY DEF Device, RouteTargets
<1>2. AddRoutes(w, n, aips) = WithDev(w, n, d)
  BY DEF AddRoutes
<1> HIDE DEF R
<1>3. /\ d \in Device /\ d.up = w.dev[n].up /\ d.routes = R
      /\ SameTunnel(w.dev[n], d)
  BY <1>1 DEF Device, SameTunnel
<1> HIDE DEF d
<1>4. HostKept(w, WithDev(w, n, d), n) /\ WithDev(w, n, d).dev[n] = d
      /\ WithDev(w, n, d).ipfwd = w.ipfwd
  BY <1>3, WithDevKept
<1>5. RoutedElsewhere(WithDev(w, n, d), n) = RoutedElsewhere(w, n)
  BY <1>4, ElsewhereKept DEF HostKept
<1> QED
  BY <1>1, <1>2, <1>3, <1>4, <1>5

LEMMA RemoveRoutesKept ==
  ASSUME NEW w \in World, NEW n \in Names, NEW aips \in SUBSET Prefixes
  PROVE  LET v == RemoveRoutes(w, n, aips)
         IN  /\ HostKept(w, v, n)
             /\ w.dev[n] \in Device =>
                  /\ v.dev[n] \in Device
                  /\ SameTunnel(w.dev[n], v.dev[n])
<1>1. CASE ~Exists(w, n)
  BY <1>1, HostKeptSelf, NoDevAssumption DEF RemoveRoutes, Exists
<1>2. CASE Exists(w, n)
  <2> DEFINE R == w.dev[n].routes \ RouteTargets(aips)
             d == [w.dev[n] EXCEPT !.routes = R]
  <2>1. w.dev[n] \in Device
    BY <1>2 DEF Exists, World
  <2>2. R \in SUBSET Prefixes
    BY <2>1 DEF Device
  <2>3. RemoveRoutes(w, n, aips) = WithDev(w, n, d)
    BY <1>2 DEF RemoveRoutes
  <2> HIDE DEF R
  <2>4. d \in Device /\ SameTunnel(w.dev[n], d)
    BY <2>1, <2>2 DEF Device, SameTunnel
  <2> HIDE DEF d
  <2> QED
    BY <2>3, <2>4, WithDevKept
<1> QED
  BY <1>1, <1>2

LEMMA AddDefaultRoutesKept ==
  ASSUME NEW w \in World, NEW n \in Names
  PROVE  LET v == AddDefaultRoutes(w, n)
         IN  /\ HostKept(w, v, n)
             /\ v.dev = w.dev /\ v.ipfwd = w.ipfwd
             /\ v.rules /\ v.table # NoName
<1>1. LET v == AddDefaultRoutes(w, n)
      IN  /\ v \in World /\ v.dev = w.dev /\ v.bl = w.bl /\ v.ipfwd = w.ipfwd
          /\ v.rules /\ v.table # NoName
  BY DriverAssumption DEF AddDefaultRoutes, World
<1> QED
  BY <1>1 DEF HostKept, Touches

LEMMA RemoveDefaultRoutesKept ==
  ASSUME NEW w \in World, NEW n \in Names
  PROVE  LET v == RemoveDefaultRoutes(w, n)
         IN  HostKept(w, v, n) /\ v.dev = w.dev
<1>1. LET v == DropTable(w, n)
      IN  v \in World /\ v.dev = w.dev /\ v.bl = w.bl /\ v.ipfwd = w.ipfwd
  BY DropTableKept
<1>2. LET v == RemoveDefaultRoutes(w, n)
      IN  v \in World /\ v.dev = w.dev /\ v.bl = w.bl /\ v.ipfwd = w.ipfwd
  BY <1>1 DEF RemoveDefaultRoutes, World
<1> QED
  BY <1>2 DEF HostKept, Touches

-----------------------------------------------------------------------------
(* What applying one interface leaves behind *)

\* Device d carries what Configure was given for interface f.
Configured(d, f, fwd) ==
  /\ d.peers = ToDriverConfig(f, fwd).peers
  /\ d.fwd = fwd
  /\ f.port > 0 => d.port = f.port

\* World v has all the host plumbing that interface f asks for.
RoutedFor(v, n, f, fwd) ==
  /\ fwd => v.ipfwd
  /\ RouteTargets(AllowedIPs(f)) \subseteq v.dev[n].routes \cup RoutedElsewhere(v, n)
  /\ WantsDefault(AllowedIPs(f)) /\ fwd => v.rules /\ v.table # NoName

\* ... and the limits and the block list of configuration c.
Complete(v, n, f, c) ==
  /\ v.dev[n].shaped = ShapingSpecs(f)
  /\ v.bl[n] = c.bl
  /\ OSStack => RoutedFor(v, n, f, c.fwd)

LEMMA SameConfigured ==
  ASSUME NEW d, NEW e, NEW f, NEW fwd, SameTunnel(d, e), Configured(d, f, fwd)
  PROVE  Configured(e, f, fwd)
BY DEF SameTunnel, Configured

LEMMA PreparedKept ==
  ASSUME NEW w \in World, NEW n \in Names, NEW f \in Iface, NEW fwd \in BOOLEAN
  PROVE  LET v == Prepared(w, n, f, fwd, "none")
         IN  HostKept(w, v, n) /\ v.dev[n] \in Device /\ Configured(v.dev[n], f, fwd)
<1> DEFINE w1 == Create(w, n)
           w2 == Configure(w1, n, ToDriverConfig(f, fwd))
           w3 == IF f.addr = NoHost THEN w2 ELSE SetAddresses(w2, n, f.addr)
<1>1. HostKept(w, w1, n) /\ w1 \in World /\ w1.dev[n] \in Device
  BY CreateKept DEF HostKept, Touches
<1>2. Prepared(w, n, f, fwd, "none") = w3
  BY DEF Prepared
<1> HIDE DEF w1
<1>3. HostKept(w, w2, n) /\ w2 \in World /\ w2.dev[n] \in Device /\ Configured(w2.dev[n], f, fwd)
  <2>1. HostKept(w1, w2, n) /\ w2.dev[n] \in Device
    BY <1>1, ToDriverConfigType, ConfigureKept
  <2>2. /\ w2.dev[n].peers = ToDriverConfig(f, fwd).peers
        /\ w2.dev[n].fwd = ToDriverConfig(f, fwd).fwd
        /\ ToDriverConfig(f, fwd).port > 0 => w2.dev[n].port = ToDriverConfig(f, fwd).port
    BY <1>1, ToDriverConfigType, ConfigureKept
  <2>3. ToDriverConfig(f, fwd).fwd = fwd /\ ToDriverConfig(f, fwd).port = f.port
    BY DEF ToDriverConfig
  <2> HIDE DEF w2
  <2>4. HostKept(w, w2, n) /\ w2 \in World
    BY <1>1, <2>1, HostKeptTrans DEF HostKept, Touches
  <2> QED
    BY <2>1, <2>2, <2>3, <2>4 DEF Configured
<1> HIDE DEF w2
<1>4. CASE f.addr = NoHost
  BY <1>2, <1>3, <1>4
<1>5. CASE f.addr # NoHost
  <2>1. f.addr \in Hosts /\ w3 = SetAddresses(w2, n, f.addr)
    BY <1>5 DEF Iface
  <2> HIDE DEF w3
  <2>2. HostKept(w2, w3, n) /\ w3.dev[n] \in Device /\ SameTunnel(w2.dev[n], w3.dev[n])
    BY <1>3, <2>1, SetAddressesKept
  <2> QED
    BY <1>2, <1>3, <2>2, HostKeptTrans, SameConfigured
<1> QED
  BY <1>4, <1>5

\* The plumbing keeps the tunnel; the calls that were not skipped worked.
LEMMA PlumbedKept ==
  ASSUME NEW w \in World, NEW n \in Names, NEW f \in Iface, NEW fwd \in BOOLEAN, NEW skip,
         w.dev[n] \in Device
  PROVE  LET v == Plumbed(w, n, f, fwd, skip)
         IN  /\ HostKept(w, v, n)
             /\ v.dev[n] \in Device
             /\ v.dev[n].up = w.dev[n].up
             /\ SameTunnel(w.dev[n], v.dev[n])
             /\ skip = {} => RoutedFor(v, n, f, fwd)
<1> DEFINE w1 == IF fwd /\ "forwarding" \notin skip THEN EnsureForwarding(w) ELSE w
           w2 == IF "routes" \notin skip THEN AddRoutes(w1, n, AllowedIPs(f)) ELSE w1
           w3 == IF WantsDefault(AllowedIPs(f)) /\ fwd /\ "default" \notin skip
                 THEN AddDefaultRoutes(w2, n) ELSE w2
<1>1. Plumbed(w, n, f, fwd, skip) = w3
  BY DEF Plumbed
<1>2. HostKept(w, w1, n) /\ w1.dev = w.dev /\ (skip = {} /\ fwd => w1.ipfwd)
  BY EnsureForwardingKept, HostKeptSelf
<1> HIDE DEF w1
<1>3. w1 \in World /\ AllowedIPs(f) \in SUBSET Prefixes
  BY <1>2, AllowedIPsType DEF HostKept, Touches
<1>4. /\ HostKept(w1, w2, n) /\ w2.dev[n] \in Device
      /\ w2.dev[n].up = w1.dev[n].up /\ SameTunnel(w1.dev[n], w2.dev[n])
      /\ skip = {} => RouteTargets(AllowedIPs(f)) \subseteq w2.dev[n].routes \cup RoutedElsewhere(w2, n)
      /\ w2.ipfwd = w1.ipfwd
  BY <1>2, <1>3, AddRoutesKept, HostKeptSelf DEF SameTunnel
<1> HIDE DEF w2
<1>5. w2 \in World
  BY <1>4 DEF HostKept, Touches
<1>6. /\ HostKept(w2, w3, n) /\ w3.dev = w2.dev /\ w3.ipfwd = w2.ipfwd
      /\ skip = {} /\ WantsDefault(AllowedIPs(f)) /\ fwd => w3.rules /\ w3.table # NoName
  BY <1>5, AddDefaultRoutesKept, HostKeptSelf
<1> HIDE DEF w3
<1>7. HostKept(w, w3, n) /\ RoutedElsewhere(w3, n) = RoutedElsewhere(w2, n)
  BY <1>2, <1>4, <1>6, HostKeptTrans, ElsewhereKept DEF HostKept
<1> QED
  BY <1>1, <1>2, <1>4, <1>6, <1>7 DEF SameTunnel, RoutedFor

LEMMA UnplumbedKept ==
  ASSUME NEW w \in World, NEW n \in Names, NEW aips \in SUBSET Prefixes
  PROVE  LET v == Unplumbed(w, n, aips)
         IN  /\ HostKept(w, v, n)
             /\ w.dev[n] \in Device =>
                  /\ v.dev[n] \in Device
                  /\ SameTunnel(w.dev[n], v.dev[n])
<1> DEFINE w1 == RemoveRoutes(w, n, aips)
           w2 == IF WantsDefault(aips) THEN RemoveDefaultRoutes(w1, n) ELSE w1
<1>1. Unplumbed(w, n, aips) = w2
  BY DEF Unplumbed
<1>2. /\ HostKept(w, w1, n)
      /\ w.dev[n] \in Device => w1.dev[n] \in Device /\ SameTunnel(w.dev[n], w1.dev[n])
  BY RemoveRoutesKept
<1> HIDE DEF w1
<1>3. w1 \in World
  BY <1>2 DEF HostKept, Touches
<1>4. HostKept(w1, w2, n) /\ w2.dev = w1.dev
  BY <1>3, RemoveDefaultRoutesKept, HostKeptSelf
<1> HIDE DEF w2
<1> QED
  BY <1>1, <1>2, <1>4, HostKeptTrans

\* What the device of an interface that is up has when its application worked,
\* whatever the calls that only log their failure left undone ...
LEMMA RaisedKept ==
  ASSUME NEW w \in World, NEW n \in Names, NEW f \in Iface, NEW fwd \in BOOLEAN, NEW skip,
         NEW shaped \in SUBSET SUBSET Prefixes, NEW dropped \in SUBSET Entries,
         w.dev[n] \in Device
  PROVE  LET v == Raised(w, n, f, fwd, skip, shaped, dropped)
         IN  /\ HostKept(w, v, n)
             /\ v.dev[n] \in Device
             /\ v.dev[n].up
             /\ SameTunnel(w.dev[n], v.dev[n])
             /\ v.dev[n].shaped = shaped
             /\ v.bl[n] = dropped
             /\ OSStack /\ skip = {} => RoutedFor(v, n, f, fwd)
<1> DEFINE w1 == Up(w, n)
           w2 == IF OSStack THEN Plumbed(w1, n, f, fwd, skip) ELSE w1
           w3 == ApplyShaping(w2, n, shaped)
           w4 == ApplyBlacklist(w3, n, dropped)
<1>1. Raised(w, n, f, fwd, skip, shaped, dropped) = w4
  BY DEF Raised
<1>2. /\ HostKept(w, w1, n) /\ w1.dev[n] \in Device /\ w1.dev[n].up
      /\ SameTunnel(w.dev[n], w1.dev[n])
  BY UpKept
<1> HIDE DEF w1
<1>3. w1 \in World
  BY <1>2 DEF HostKept, Touches
<1>4. /\ HostKept(w1, w2, n) /\ w2.dev[n] \in Device /\ w2.dev[n].up = w1.dev[n].up
      /\ SameTunnel(w1.dev[n], w2.dev[n])
      /\ OSStack /\ skip = {} => RoutedFor(w2, n, f, fwd)
  <2>1. CASE OSStack
    <3>1. w2 = Plumbed(w1, n, f, fwd, skip)
      BY <2>1
    <3> HIDE DEF w2
    <3> QED
      BY <1>2, <1>3, <2>1, <3>1, PlumbedKept
  <2>2. CASE ~OSStack
    BY <1>2, <1>3, <2>2, HostKeptSelf DEF SameTunnel
  <2> QED
    BY <2>1, <2>2
<1> HIDE DEF w2
<1>5. w2 \in World
  BY <1>4 DEF HostKept, Touches
<1>6. /\ HostKept(w2, w3, n) /\ w3.dev[n] \in Device /\ w3.dev[n].up = w2.dev[n].up
      /\ SameTunnel(w2.dev[n], w3.dev[n])
      /\ w3.dev[n].shaped = shaped /\ w3.dev[n].routes = w2.dev[n].routes
      /\ w3.table = w2.table /\ w3.rules = w2.rules /\ w3.ipfwd = w2.ipfwd
  BY <1>4, <1>5, ApplyShapingKept
<1> HIDE DEF w3
<1>7. w3 \in World
  BY <1>6 DEF HostKept, Touches
<1>8. /\ HostKept(w3, w4, n) /\ w4.dev = w3.dev /\ w4.bl[n] = dropped
      /\ w4.table = w3.table /\ w4.rules = w3.rules /\ w4.ipfwd = w3.ipfwd
  BY <1>6, <1>7, ApplyBlacklistKept
<1> HIDE DEF w4
<1>9. HostKept(w, w4, n)
  BY <1>2, <1>4, <1>6, <1>8, HostKeptTrans
<1>10. SameTunnel(w.dev[n], w4.dev[n])
  BY <1>2, <1>4, <1>6, <1>8 DEF SameTunnel
<1>11. OSStack /\ skip = {} => RoutedFor(w4, n, f, fwd)
  <2>1. RoutedElsewhere(w4, n) = RoutedElsewhere(w2, n)
    BY <1>6, <1>8, ElsewhereKept DEF HostKept
  <2> QED
    BY <1>4, <1>6, <1>8, <2>1 DEF RoutedFor
<1>12. w4.dev[n] \in Device /\ w4.dev[n].up /\ w4.dev[n].shaped = shaped /\ w4.bl[n] = dropped
  BY <1>2, <1>4, <1>6, <1>8
<1> QED
  BY <1>1, <1>9, <1>10, <1>11, <1>12

LEMMA ClearedKept ==
  ASSUME NEW w \in World, NEW n \in Names, NEW f \in Iface, w.dev[n] \in Device
  PROVE  LET v == Cleared(w, n, f)
         IN  /\ HostKept(w, v, n)
             /\ v.dev[n] \in Device
             /\ SameTunnel(w.dev[n], v.dev[n])
<1> DEFINE w1 == ApplyShaping(w, n, {})
           w2 == ApplyBlacklist(w1, n, {})
           w3 == IF OSStack THEN Unplumbed(w2, n, AllowedIPs(f)) ELSE w2
<1>1. Cleared(w, n, f) = w3
  BY DEF Cleared
<1>2. HostKept(w, w1, n) /\ w1.dev[n] \in Device /\ SameTunnel(w.dev[n], w1.dev[n])
  BY ApplyShapingKept
<1> HIDE DEF w1
<1>3. HostKept(w1, w2, n) /\ w2.dev = w1.dev
  BY <1>2, ApplyBlacklistKept DEF HostKept, Touches
<1> HIDE DEF w2
<1>4. w2 \in World /\ AllowedIPs(f) \in SUBSET Prefixes
  BY <1>3, AllowedIPsType DEF HostKept, Touches
<1>5. HostKept(w2, w3, n) /\ w3.dev[n] \in Device /\ SameTunnel(w2.dev[n], w3.dev[n])
  BY <1>2, <1>3, <1>4, UnplumbedKept, HostKeptSelf DEF SameTunnel
<1> HIDE DEF w3
<1>6. HostKept(w, w3, n)
  BY <1>2, <1>3, <1>5, HostKeptTrans
<1> QED
  BY <1>1, <1>2, <1>3, <1>5, <1>6 DEF SameTunnel

\* A successful application leaves the image of f on the device of n, and the
\* rest of the host as it is.
LEMMA AppliedImage ==
  ASSUME NEW c \in Config, NEW n \in Names, NEW f \in Iface, NEW w \in World, NEW v,
         NEW partial \in BOOLEAN, Applied(c, n, f, w, v, partial)
  PROVE  /\ HostKept(w, v, n)
         /\ v.dev[n] \in Device
         /\ v.dev[n].up = f.up
         /\ Configured(v.dev[n], f, c.fwd)
<1> DEFINE ready == Prepared(w, n, f, c.fwd, "none")
<1>1. c.fwd \in BOOLEAN /\ c.bl \in SUBSET Entries /\ f.up \in BOOLEAN
  BY DEF Config, Iface
<1>2. /\ HostKept(w, ready, n) /\ ready.dev[n] \in Device
      /\ Configured(ready.dev[n], f, c.fwd)
  BY <1>1, PreparedKept
<1>3. \/ /\ f.up
         /\ \E skip \in SkipOutcomes(partial), shaped \in ShapedOutcomes(w, n, f, partial),
               dropped \in DroppedOutcomes(w, n, c.bl, partial) :
              v = Raised(ready, n, f, c.fwd, skip, shaped, dropped)
      \/ ~f.up /\ v = Down(Cleared(ready, n, f), n)
  BY DEF Applied
<1> HIDE DEF ready
<1>4. ready \in World
  BY <1>2 DEF HostKept, Touches
<1>5. CASE f.up
  <2>1. PICK skip \in SkipOutcomes(partial), shaped \in ShapedOutcomes(w, n, f, partial),
             dropped \in DroppedOutcomes(w, n, c.bl, partial) :
          v = Raised(ready, n, f, c.fwd, skip, shaped, dropped)
    BY <1>3, <1>5
  <2>2. shaped \in SUBSET SUBSET Prefixes
    <3>1. Exists(w, n) => w.dev[n].shaped \in SUBSET SUBSET Prefixes
      BY DEF Exists, World, Device
    <3>2. \/ shaped \in SUBSET ShapingSpecs(f)
          \/ shaped = ShapingSpecs(f)
          \/ Exists(w, n) /\ shaped = w.dev[n].shaped
      BY DEF ShapedOutcomes
    <3> QED
      BY <3>1, <3>2, ShapingSpecsType
  <2>3. dropped \in SUBSET Entries
    BY <1>1 DEF DroppedOutcomes, World
  <2>4. HostKept(ready, v, n) /\ v.dev[n] \in Device /\ v.dev[n].up
        /\ SameTunnel(ready.dev[n], v.dev[n])
    BY <1>1, <1>2, <1>4, <2>1, <2>2, <2>3, RaisedKept
  <2>5. v.dev[n].up = f.up
    BY <1>1, <1>5, <2>4 DEF Device
  <2> QED
    BY <1>2, <2>4, <2>5, HostKeptTrans, SameConfigured
<1>6. CASE ~f.up
  <2> DEFINE u == Cleared(ready, n, f)
  <2>1. v = Down(u, n)
    BY <1>3, <1>6
  <2>2. HostKept(ready, u, n) /\ u.dev[n] \in Device /\ SameTunnel(ready.dev[n], u.dev[n])
    BY <1>2, <1>4, ClearedKept
  <2> HIDE DEF u
  <2>3. HostKept(u, v, n) /\ v.dev[n] \in Device /\ ~v.dev[n].up /\ SameTunnel(u.dev[n], v.dev[n])
    BY <2>1, <2>2, DownKept DEF HostKept, Touches
  <2>4. v.dev[n].up = f.up
    BY <1>1, <1>6, <2>3 DEF Device
  <2> QED
    BY <1>2, <2>2, <2>3, <2>4, HostKeptTrans, SameConfigured
<1> QED
  BY <1>5, <1>6

\* ... and, when none of its calls fails, all of routes, limits and block list.
LEMMA AppliedFully ==
  ASSUME NEW c \in Config, NEW n \in Names, NEW f \in Iface, NEW w \in World, NEW v,
         Applied(c, n, f, w, v, FALSE), f.up
  PROVE  Complete(v, n, f, c)
<1> DEFINE ready == Prepared(w, n, f, c.fwd, "none")
<1>1. c.fwd \in BOOLEAN /\ c.bl \in SUBSET Entries /\ ShapingSpecs(f) \in SUBSET SUBSET Prefixes
  BY ShapingSpecsType DEF Config
<1>2. HostKept(w, ready, n) /\ ready.dev[n] \in Device
  BY <1>1, PreparedKept
<1>3. v = Raised(ready, n, f, c.fwd, {}, ShapingSpecs(f), c.bl)
  BY DEF Applied, SkipOutcomes, ShapedOutcomes, DroppedOutcomes
<1> HIDE DEF ready
<1>4. ready \in World
  BY <1>2 DEF HostKept, Touches
<1> QED
  BY <1>1, <1>2, <1>3, <1>4, RaisedKept DEF Complete

-----------------------------------------------------------------------------
(* Tokens are nothing to the driver *)

\* g is f but for tokens.
TokensApart(f, g) ==
  /\ g.port = f.port /\ g.up = f.up
  /\ PeersOf(g) = PeersOf(f)
  /\ \A s \in PeersOf(f) :
       /\ g.peers[s].key = f.peers[s].key
       /\ g.peers[s].addr = f.peers[s].addr
       /\ g.peers[s].aips = f.peers[s].aips
       /\ g.peers[s].on = f.peers[s].on
       /\ g.peers[s].lim = f.peers[s].lim

LEMMA WithTokensApart ==
  ASSUME NEW f \in Iface
  PROVE  TokensApart(f, f) /\ TokensApart(f, WithTokens(f))
<1> DEFINE P == [s \in Slots |-> IF f.peers[s] = NoPeer THEN NoPeer
                                 ELSE [f.peers[s] EXCEPT !.tok = TRUE]]
           g == WithTokens(f)
<1>1. g.peers = P /\ g.port = f.port /\ g.up = f.up
  BY DEF WithTokens, Iface
<1>2. ASSUME NEW s \in Slots, f.peers[s] # NoPeer
      PROVE  /\ g.peers[s] # NoPeer
             /\ g.peers[s].key = f.peers[s].key
             /\ g.peers[s].addr = f.peers[s].addr
             /\ g.peers[s].aips = f.peers[s].aips
             /\ g.peers[s].on = f.peers[s].on
             /\ g.peers[s].lim = f.peers[s].lim
  <2>1. f.peers[s] \in Peer
    BY <1>2 DEF Iface
  <2>2. g.peers[s] = [f.peers[s] EXCEPT !.tok = TRUE]
    BY <1>1, <1>2
  <2>3. [f.peers[s] EXCEPT !.tok = TRUE] \in Peer
    BY <2>1 DEF Peer
  <2>4. g.peers[s] # NoPeer
    BY <2>2, <2>3, SentinelAssumption
  <2> HIDE DEF g
  <2> QED
    BY <2>1, <2>2, <2>4 DEF Peer
<1>3. \A s \in Slots : f.peers[s] = NoPeer => g.peers[s] = NoPeer
  BY <1>1
<1> HIDE DEF g, P
<1>4. PeersOf(g) = PeersOf(f)
  BY <1>2, <1>3 DEF PeersOf
<1>5. TokensApart(f, g)
  BY <1>1, <1>2, <1>4 DEF TokensApart, PeersOf
<1> QED
  BY <1>5 DEF TokensApart, g

\* What is computed for the driver from an interface does not read the tokens.
LEMMA TokensApartSame ==
  ASSUME NEW f, NEW g, TokensApart(f, g), NEW fwd
  PROVE  /\ Enabled(g) = Enabled(f)
         /\ AllowedIPs(g) = AllowedIPs(f)
         /\ ToDriverConfig(g, fwd).peers = ToDriverConfig(f, fwd).peers
         /\ ShapingSpecs(g) = ShapingSpecs(f)
<1>1. Enabled(g) = Enabled(f)
  BY DEF Enabled, TokensApart
<1>2. \A s \in Enabled(f) :
        /\ g.peers[s].key = f.peers[s].key /\ g.peers[s].aips = f.peers[s].aips
        /\ g.peers[s].lim = f.peers[s].lim /\ g.peers[s].addr = f.peers[s].addr
  BY DEF Enabled, TokensApart
<1>3. AllowedIPs(g) = AllowedIPs(f)
  BY <1>1, <1>2 DEF AllowedIPs
<1>4. ToDriverConfig(g, fwd).peers = ToDriverConfig(f, fwd).peers
  BY <1>1, <1>2 DEF ToDriverConfig
<1>5. {t \in Enabled(g) : g.peers[t].lim} = {t \in Enabled(f) : f.peers[t].lim}
  BY <1>1, <1>2
<1>6. \A s \in Enabled(f) : ShapedPrefixes(g.peers[s]) = ShapedPrefixes(f.peers[s])
  BY <1>2 DEF ShapedPrefixes
<1>7. ShapingSpecs(g) = ShapingSpecs(f)
  BY <1>5, <1>6 DEF ShapingSpecs
<1> QED
  BY <1>1, <1>3, <1>4, <1>7

-----------------------------------------------------------------------------
(* The image of an interface *)

\* Matches, for the interface f and the device d.
Image(f, d) ==
  /\ d # NoDev
  /\ d.up = f.up
  /\ f.port > 0 => d.port = f.port
  /\ d.peers = {[key |-> p.key, aips |-> p.aips] :
                   p \in {f.peers[s] : s \in {t \in PeersOf(f) : f.peers[t].on}}}

LEMMA ConfiguredImage ==
  ASSUME NEW f \in Iface, NEW g, NEW d \in Device, NEW fwd,
         TokensApart(f, g), Configured(d, f, fwd), d.up = f.up
  PROVE  Image(g, d)
<1>1. ToDriverConfig(g, fwd).peers =
        {[key |-> g.peers[s].key, aips |-> g.peers[s].aips] : s \in Enabled(g)}
  BY DEF ToDriverConfig
<1>2. {[key |-> g.peers[s].key, aips |-> g.peers[s].aips] : s \in Enabled(g)} =
        {[key |-> p.key, aips |-> p.aips] :
           p \in {g.peers[s] : s \in {t \in PeersOf(g) : g.peers[t].on}}}
  BY DEF Enabled
<1>3. d.peers = ToDriverConfig(g, fwd).peers
  BY TokensApartSame DEF Configured
<1>4. d # NoDev /\ d.up = g.up /\ (g.port > 0 => d.port = g.port)
  BY NoDevAssumption DEF TokensApart, Configured
<1> QED
  BY <1>1, <1>2, <1>3, <1>4 DEF Image

-----------------------------------------------------------------------------
(* How an operation on an interface comes to succeed *)

LiveOps == ViewOps \cup {"remove"}

\* While interfaces are applied, the response under way is that of the job, and
\* an operation on one interface applies that one.
Answering ==
  phase = "apply" =>
    /\ result.st # "ok"
    /\ result.op = job.op
    /\ job.op \in LiveOps => job.todo = {result.on}

AnsweringInv == DurabilityInv /\ Answering

LEMMA CommitAnswers ==
  ASSUME phase = "idle", NEW c, NEW op, NEW n, NEW todo, NEW old,
         op \in LiveOps => todo \in {{}, {n}},
         Commit(c, op, n, todo, old)
  PROVE  Answering' /\ (Acked(LiveOps)' => mem' = c /\ todo = {} /\ result'.on = n)
<1>1. CASE /\ mem' = c
           /\ disk' = c
           /\ phase' = IF todo = {} THEN "idle" ELSE "apply"
           /\ job' = IF todo = {} THEN NoJob ELSE [op |-> op, todo |-> todo, old |-> old]
           /\ result' = Answer(op, n, IF todo = {} THEN "ok" ELSE "pending")
  BY <1>1 DEF Answering, Acked, Answer
<1>2. CASE /\ mem' = c
           /\ result' = Answer(op, n, "error")
           /\ UNCHANGED <<disk, phase, job>>
  BY <1>2 DEF Answering, Acked, Answer
<1>3. CASE Exit
  BY <1>3 DEF Exit, Answering, Acked
<1> QED
  BY <1>1, <1>2, <1>3 DEF Commit

\* No request is acknowledged before its interface was applied, but the removal
\* of an interface that is gone.
LEMMA RequestAnswers ==
  ASSUME TypeOK,
         \/ \E n \in Names : InterfaceOps(n)
         \/ \E n \in Names, s \in Slots : PeerOps(n, s)
         \/ \E set \in SettingInputs : UpdateSettings(set)
  PROVE  Answering' /\ (Acked(LiveOps)' => mem'.ifs[result'.on] = NoIface)
<1> DEFINE Q == Answering' /\ (Acked(LiveOps)' => mem'.ifs[result'.on] = NoIface)
<1>1. ASSUME NEW n \in Names, NEW in \in Patches, CreateInterface(n, in) PROVE Q
  BY <1>1, CommitAnswers DEF CreateInterface
<1>2. ASSUME NEW n \in Names, NEW in \in Patches, UpdateInterface(n, in) PROVE Q
  BY <1>2, CommitAnswers DEF UpdateInterface
<1>3. ASSUME NEW n \in Names, DeleteInterface(n) PROVE Q
  <2>1. WithIface(mem, n, NoIface).ifs[n] = NoIface
    BY WithIfaceType DEF TypeOK
  <2>2. phase = "idle" /\ Commit(WithIface(mem, n, NoIface), "remove", n, {}, FALSE)
    BY <1>3 DEF DeleteInterface
  <2> DEFINE c == WithIface(mem, n, NoIface)
  <2> HIDE DEF c
  <2>3. Answering' /\ (Acked(LiveOps)' => mem' = c /\ result'.on = n)
    BY <2>2, CommitAnswers DEF c
  <2> QED
    BY <2>1, <2>3 DEF c
<1>4. ASSUME NEW n \in Names, NEW up \in UpInputs, SetInterfaceUp(n, up) PROVE Q
  BY <1>4, CommitAnswers DEF SetInterfaceUp
<1>5. ASSUME NEW n \in Names, Get(n) PROVE Q
  <2>1. CASE Commit(WithIface(mem, n, WithTokens(mem.ifs[n])), "read", n, {}, FALSE)
    <3>1. ~Acked(LiveOps)' /\ Answering'
      BY <1>5, <2>1 DEF Get, Commit, Exit, Answer, Acked, Answering, LiveOps, ViewOps
    <3> QED
      BY <3>1
  <2>2. CASE result' = Answer("read", n, "ok") /\ UNCHANGED <<mem, disk, phase, job>>
    BY <1>5, <2>2 DEF Get, Answering, Acked, Answer, LiveOps, ViewOps
  <2> QED
    BY <1>5, <2>1, <2>2 DEF Get
<1>6. ASSUME NEW n \in Names, NEW s \in Slots, NEW in \in PeerInputs, CreatePeer(n, s, in)
      PROVE  Q
  BY <1>6, CommitAnswers DEF CreatePeer
<1>7. ASSUME NEW n \in Names, NEW s \in Slots, NEW in \in PeerInputs, UpdatePeer(n, s, in)
      PROVE  Q
  <2>1. phase = "idle"
    BY <1>7 DEF UpdatePeer
  <2>2. \/ result' = Answer("peer", n, "error") /\ UNCHANGED <<disk, phase, job>>
        \/ \E c : Commit(c, "peer", n, {n}, FALSE)
    BY <1>7 DEF UpdatePeer
  <2>3. CASE result' = Answer("peer", n, "error") /\ UNCHANGED <<disk, phase, job>>
    BY <2>1, <2>3 DEF Answering, Acked, Answer
  <2> QED
    BY <2>1, <2>2, <2>3, CommitAnswers
<1>8. ASSUME NEW n \in Names, NEW s \in Slots, DeletePeer(n, s) PROVE Q
  BY <1>8, CommitAnswers DEF DeletePeer
<1>9. ASSUME NEW set \in SettingInputs, UpdateSettings(set) PROVE Q
  <2>1. PICK c, todo : phase = "idle" /\ Commit(c, "settings", NoName, todo, FALSE)
    BY <1>9 DEF UpdateSettings
  <2>2. ~Acked(LiveOps)'
    BY <2>1 DEF Commit, Exit, Answer, Acked, LiveOps, ViewOps
  <2>3. Answering'
    BY <2>1, CommitAnswers DEF LiveOps, ViewOps
  <2> QED
    BY <2>2, <2>3
<1> QED
  BY <1>1, <1>2, <1>3, <1>4, <1>5, <1>6, <1>7, <1>8, <1>9 DEF InterfaceOps, PeerOps

\* The application of n is what made the operation on it succeed.
AppliedNow(n) ==
  /\ n \in Names /\ mem \in Config /\ world \in World /\ mem.ifs[n] \in Iface
  /\ Applied(mem, n, mem.ifs[n], world, world', DriverFails)
  /\ mem'.fwd = mem.fwd
  /\ TokensApart(mem.ifs[n], mem'.ifs[n])

LEMMA ApplyAnswers ==
  ASSUME AnsweringInv, NEW n \in Names,
         ApplySucceeds(n) \/ ApplyFails(n) \/ ReconcileRemoves(n)
  PROVE  Answering' /\ (Acked(LiveOps)' => n = result'.on /\ AppliedNow(n))
<1>1. /\ phase = "apply" /\ n \in job.todo /\ Advance(n)
      /\ result \in Result /\ job \in Job /\ TypeOK
  BY DEF ApplySucceeds, ApplyFails, ReconcileRemoves, AnsweringInv, DurabilityInv, TypeOK
<1>2. /\ result.st # "ok" /\ result.op = job.op
      /\ job.op \in LiveOps => job.todo = {n} /\ result.on = n
  BY <1>1 DEF AnsweringInv, Answering
<1>3. /\ result'.op = result.op /\ result'.on = result.on
      /\ phase' = "apply" => result'.st # "ok"
  <2>1. job.op \in ViewOps => phase' = "idle"
    BY <1>1, <1>2 DEF Advance, LiveOps
  <2>2. CASE ApplySucceeds(n)
    BY <1>1, <1>2, <2>1, <2>2 DEF ApplySucceeds, AnswerView, Result, Advance
  <2>3. CASE ApplyFails(n)
    BY <1>1, <1>2, <2>3 DEF ApplyFails, Result, Advance
  <2>4. CASE ReconcileRemoves(n)
    BY <1>1, <1>2, <2>4 DEF ReconcileRemoves, Result, Advance
  <2> QED
    BY <2>2, <2>3, <2>4
<1>4. Answering'
  <2>1. phase' = "apply" => job.todo # {n} /\ job'.op = job.op
    BY <1>1 DEF Advance, Job
  <2> QED
    BY <1>2, <1>3, <2>1 DEF Answering
<1>5. ASSUME Acked(LiveOps)'
      PROVE  n = result'.on /\ AppliedNow(n)
  <2>1. job.op \in LiveOps /\ result'.st = "ok" /\ result'.on = n
    BY <1>2, <1>3, <1>5 DEF Acked
  <2>2. ApplySucceeds(n)
    <3>1. ~ReconcileRemoves(n)
      BY <2>1 DEF ReconcileRemoves, LiveOps, ViewOps
    <3>2. ~ApplyFails(n)
      <4>1. job.op # "settings"
        BY <2>1 DEF LiveOps, ViewOps
      <4>2. [result EXCEPT !.st = "error"].st = "error"
        BY <1>1 DEF Result
      <4> QED
        BY <2>1, <4>1, <4>2 DEF ApplyFails
    <3> QED
      BY <3>1, <3>2
  <2>3. mem.ifs[n] \in Iface /\ mem \in Config /\ world \in World
    BY <1>1, JobIface
  <2>4. mem' = mem \/ mem' = WithIface(mem, n, WithTokens(mem.ifs[n]))
    BY <2>2 DEF ApplySucceeds, AnswerView
  <2>5. mem'.fwd = mem.fwd /\ mem'.ifs[n] \in {mem.ifs[n], WithTokens(mem.ifs[n])}
    BY <2>3, <2>4, WithTokensType, WithIfaceType DEF WithIface, Config
  <2>6. TokensApart(mem.ifs[n], mem'.ifs[n])
    BY <2>3, <2>5, WithTokensApart
  <2> QED
    BY <2>1, <2>2, <2>3, <2>5, <2>6 DEF ApplySucceeds, AppliedNow
<1> QED
  BY <1>4, <1>5

\* A step leads to a state in which an operation on an interface has succeeded
\* only by applying that interface (or it changes nothing).
LEMMA SucceedsByApplying ==
  ASSUME AnsweringInv, [Next]_vars
  PROVE  /\ Answering'
         /\ Acked(LiveOps)' /\ mem'.ifs[result'.on] # NoIface
              => AppliedNow(result'.on) \/ UNCHANGED vars
<1>1. ASSUME \/ \E n \in Names : InterfaceOps(n)
             \/ \E n \in Names, s \in Slots : PeerOps(n, s)
             \/ \E set \in SettingInputs : UpdateSettings(set)
      PROVE  Answering' /\ (Acked(LiveOps)' => mem'.ifs[result'.on] = NoIface)
  BY <1>1, RequestAnswers DEF AnsweringInv, DurabilityInv
<1>2. ASSUME NEW n \in Names, ApplySucceeds(n) \/ ApplyFails(n) \/ ReconcileRemoves(n)
      PROVE  Answering' /\ (Acked(LiveOps)' => AppliedNow(result'.on))
  BY <1>2, ApplyAnswers
<1>3. CASE Crash
  BY <1>3 DEF Crash, Exit, Answering, Acked
<1>4. CASE Boot
  BY <1>4 DEF Boot, NoJob, Answer, Answering, Acked, LiveOps, ViewOps
<1>5. CASE UNCHANGED vars
  BY <1>5 DEF vars, AnsweringInv, Answering
<1> QED
  BY <1>1, <1>2, <1>3, <1>4, <1>5 DEF Next

LEMMA AnsweringInit == Init => AnsweringInv
BY DurabilityInit DEF Init, AnsweringInv, Answering

LEMMA AnsweringStep == AnsweringInv /\ [Next]_vars => AnsweringInv'
BY DurabilityStep, SucceedsByApplying DEF AnsweringInv

-----------------------------------------------------------------------------
(* The acknowledged interface is live *)

AckInv == AnsweringInv /\ AckedIsLive

LEMMA AckStep == AckInv /\ [Next]_vars => AckInv'
<1> SUFFICES ASSUME AckInv, [Next]_vars,
                    Acked(LiveOps)', mem'.ifs[result'.on] # NoIface
             PROVE  Matches(result.on)'
  BY AnsweringStep DEF AckInv, AckedIsLive, LiveOps
<1>1. CASE UNCHANGED vars
  BY <1>1 DEF AckInv, AckedIsLive, LiveOps, Acked, Matches, vars
<1>2. CASE AppliedNow(result'.on)
  <2> DEFINE n == result'.on
             f == mem.ifs[n]
             g == mem'.ifs[n]
             d == world'.dev[n]
  <2>1. /\ n \in Names /\ mem \in Config /\ world \in World /\ f \in Iface
        /\ Applied(mem, n, f, world, world', DriverFails) /\ DriverFails \in BOOLEAN
        /\ TokensApart(f, g)
    BY <1>2 DEF AppliedNow, DriverFails
  <2> HIDE DEF n, f, g
  <2>2. d \in Device /\ d.up = f.up /\ Configured(d, f, mem.fwd)
    BY <2>1, AppliedImage
  <2>3. Image(g, d)
    BY <2>1, <2>2, ConfiguredImage
  <2> QED
    BY <2>3 DEF Image, Matches, n, g
<1> QED
  BY <1>1, <1>2, SucceedsByApplying DEF AckInv

\* Whatever was asked before, failed or was cut short: when an operation on an
\* interface answers success, its device carries exactly the enabled peers, the
\* link state and the port of its configuration.
THEOREM AcknowledgedIsLive == Spec => []AckedIsLive
<1>1. Init => AckInv
  BY AnsweringInit DEF Init, AckInv, AckedIsLive, Acked
<1>2. AckInv => AckedIsLive
  BY DEF AckInv
<1> QED
  BY <1>1, <1>2, AckStep, PTL DEF Spec

-----------------------------------------------------------------------------
(* Routes and rate limits *)

AckFullInv == AnsweringInv /\ EnabledPeersRouted /\ LimitsEnforced

\* What RoutedFor says of the single peers.
LEMMA RoutedPeers ==
  ASSUME NEW f, NEW g, TokensApart(f, g), NEW v, NEW n, NEW fwd, RoutedFor(v, n, f, fwd),
         NEW s \in PeersOf(g), g.peers[s].on
  PROVE  /\ g.peers[s].aips \ {Default} \subseteq v.dev[n].routes \cup RoutedElsewhere(v, n)
         /\ Default \in g.peers[s].aips /\ fwd => v.rules /\ v.table # NoName
<1>1. s \in Enabled(f) /\ g.peers[s].aips = f.peers[s].aips
  BY DEF TokensApart, Enabled
<1>2. g.peers[s].aips \subseteq AllowedIPs(f)
  BY <1>1 DEF AllowedIPs
<1> QED
  BY <1>2 DEF RoutedFor, RouteTargets, WantsDefault

\* The reference of LimitsEnforced is what ShapingSpecs computes.
LEMMA LimitsAreSpecs ==
  ASSUME NEW f
  PROVE  LET limited == {f.peers[s] : s \in {t \in PeersOf(f) : f.peers[t].on /\ f.peers[t].lim}}
         IN  {IF p.aips # {} THEN p.aips ELSE {HostPrefix(h) : h \in {p.addr} \ {NoHost}} :
                p \in limited} = ShapingSpecs(f)
<1> DEFINE T == {t \in PeersOf(f) : f.peers[t].on /\ f.peers[t].lim}
           L(p) == IF p.aips # {} THEN p.aips ELSE {HostPrefix(h) : h \in {p.addr} \ {NoHost}}
<1>1. T = {t \in Enabled(f) : f.peers[t].lim}
  BY DEF Enabled
<1>2. ASSUME NEW p PROVE L(p) = ShapedPrefixes(p)
  <2>1. CASE p.aips # {}
    BY <2>1 DEF ShapedPrefixes
  <2>2. CASE p.aips = {} /\ p.addr # NoHost
    <3>1. {HostPrefix(h) : h \in {p.addr} \ {NoHost}} = {HostPrefix(p.addr)}
      BY <2>2
    <3> QED
      BY <2>2, <3>1 DEF ShapedPrefixes
  <2>3. CASE p.aips = {} /\ p.addr = NoHost
    <3>1. {HostPrefix(h) : h \in {p.addr} \ {NoHost}} = {}
      BY <2>3
    <3> QED
      BY <2>3, <3>1 DEF ShapedPrefixes
  <2> QED
    BY <2>1, <2>2, <2>3
<1> HIDE DEF L
<1>3. {L(p) : p \in {f.peers[s] : s \in T}} = {ShapedPrefixes(f.peers[s]) : s \in T}
  BY <1>2
<1> QED
  BY <1>1, <1>3 DEF ShapingSpecs, L

LEMMA AckFullStep == ~DriverFails /\ AckFullInv /\ [Next]_vars => AckFullInv'
<1> SUFFICES ASSUME ~DriverFails, AckFullInv, [Next]_vars,
                    Acked(LiveOps)', mem'.ifs[result'.on] # NoIface, mem'.ifs[result'.on].up
             PROVE  EnabledPeersRouted' /\ LimitsEnforced'
  BY AnsweringStep DEF AckFullInv, EnabledPeersRouted, LimitsEnforced, LiveOps
<1>1. CASE UNCHANGED vars
  <2>1. mem' = mem /\ world' = world /\ result' = result /\ (Acked(LiveOps)' => Acked(LiveOps))
    BY <1>1 DEF vars, Acked
  <2>2. EnabledPeersRouted'
    BY <2>1 DEF AckFullInv, EnabledPeersRouted, LiveOps
  <2>3. LimitsEnforced'
    BY <2>1 DEF AckFullInv, LimitsEnforced, LiveOps
  <2> QED
    BY <2>2, <2>3
<1>2. CASE AppliedNow(result'.on)
  <2> DEFINE n == result'.on
             f == mem.ifs[n]
             g == mem'.ifs[n]
  <2>0. DriverFails = FALSE
    BY DEF DriverFails
  <2>1. /\ n \in Names /\ mem \in Config /\ world \in World /\ f \in Iface
        /\ Applied(mem, n, f, world, world', FALSE)
        /\ TokensApart(f, g) /\ g.up /\ mem'.fwd = mem.fwd
    BY <1>2, <2>0 DEF AppliedNow
  <2> HIDE DEF n, f, g
  <2>2. f.up
    BY <2>1 DEF TokensApart
  <2>3. Complete(world', n, f, mem)
    BY <2>1, <2>2, AppliedFully
  <2>4. LimitsEnforced'
    <3>1. world'.dev[n].shaped = ShapingSpecs(g)
      BY <2>1, <2>3, TokensApartSame DEF Complete
    <3> QED
      BY <3>1, LimitsAreSpecs DEF LimitsEnforced, n, g
  <2>5. EnabledPeersRouted'
    <3>1. ASSUME OSStack, NEW s \in PeersOf(g), g.peers[s].on
          PROVE  /\ g.peers[s].aips \ {Default} \subseteq
                      world'.dev[n].routes \cup RoutedElsewhere(world', n)
                 /\ Default \in g.peers[s].aips /\ mem'.fwd =>
                      world'.rules /\ world'.table # NoName
      BY <2>1, <2>3, <3>1, RoutedPeers DEF Complete
    <3> QED
      BY <3>1 DEF EnabledPeersRouted, n, g
  <2> QED
    BY <2>4, <2>5
<1> QED
  BY <1>1, <1>2, SucceedsByApplying DEF AckFullInv

LEMMA AckFullInit == Init => AckFullInv
BY AnsweringInit DEF Init, AckFullInv, EnabledPeersRouted, LimitsEnforced, Acked

\* While the driver works, an acknowledged operation leaves the one routing table
\* with every prefix of an enabled peer, through its own interface or through the
\* one that was there first, also when peers share it and one was taken out ...
THEOREM EnabledAreRouted == ~DriverFails => (Spec => []EnabledPeersRouted)
<1> SUFFICES ASSUME ~DriverFails PROVE Spec => []EnabledPeersRouted
  OBVIOUS
<1>1. AckFullInv => EnabledPeersRouted
  BY DEF AckFullInv
<1>2. AckFullInv /\ [Next]_vars => AckFullInv'
  BY AckFullStep
<1> QED
  BY <1>1, <1>2, AckFullInit, PTL DEF Spec

\* ... and exactly the limits of the enabled peers that have one.
THEOREM LimitsAreEnforced == ~DriverFails => (Spec => []LimitsEnforced)
<1> SUFFICES ASSUME ~DriverFails PROVE Spec => []LimitsEnforced
  OBVIOUS
<1>1. AckFullInv => LimitsEnforced
  BY DEF AckFullInv
<1>2. AckFullInv /\ [Next]_vars => AckFullInv'
  BY AckFullStep
<1> QED
  BY <1>1, <1>2, AckFullInit, PTL DEF Spec

-----------------------------------------------------------------------------
(* Reconciling at start *)

\* The device of n is the one configuration c asks Reconcile for.
Settled(c, w, n) == IF c.ifs[n].up THEN Image(c.ifs[n], w.dev[n]) ELSE w.dev[n] = NoDev

AllSettled(c, w, todo) == \A n \in IfaceNames(c) \ todo : Settled(c, w, n)

\* As long as no error was logged, the interfaces already dealt with are settled.
Reconciling ==
  phase = "apply" /\ job.op = "boot" /\ result.st = "pending"
    => AllSettled(mem, world, job.todo)

Reconciled == Acked({"boot"}) => AllSettled(mem, world, {})

BootInv == AnsweringInv /\ Reconciling /\ Reconciled

\* The daemon is at its start, or has just started.
Starting == (phase = "apply" /\ job.op = "boot") \/ Acked({"boot"})

LEMMA CommitNotStarting ==
  ASSUME phase = "idle", NEW c, NEW op, op # "boot", NEW n, NEW todo, NEW old,
         Commit(c, op, n, todo, old)
  PROVE  ~Starting'
<1>1. CASE /\ phase' = IF todo = {} THEN "idle" ELSE "apply"
           /\ job' = IF todo = {} THEN NoJob ELSE [op |-> op, todo |-> todo, old |-> old]
           /\ result' = Answer(op, n, IF todo = {} THEN "ok" ELSE "pending")
  BY <1>1 DEF Starting, Acked, Answer
<1>2. CASE result' = Answer(op, n, "error") /\ UNCHANGED <<disk, phase, job>>
  BY <1>2 DEF Starting, Acked, Answer
<1>3. CASE Exit
  BY <1>3 DEF Exit, Starting, Acked
<1> QED
  BY <1>1, <1>2, <1>3 DEF Commit

LEMMA RequestNotStarting ==
  ASSUME \/ \E n \in Names : InterfaceOps(n)
         \/ \E n \in Names, s \in Slots : PeerOps(n, s)
         \/ \E set \in SettingInputs : UpdateSettings(set)
  PROVE  ~Starting'
<1>1. ASSUME NEW n \in Names, InterfaceOps(n) PROVE ~Starting'
  <2>1. CASE \E in \in Patches : CreateInterface(n, in)
    BY <2>1, CommitNotStarting DEF CreateInterface
  <2>2. CASE \E in \in Patches : UpdateInterface(n, in)
    BY <2>2, CommitNotStarting DEF UpdateInterface
  <2>3. CASE DeleteInterface(n)
    BY <2>3, CommitNotStarting DEF DeleteInterface
  <2>4. CASE \E up \in UpInputs : SetInterfaceUp(n, up)
    BY <2>4, CommitNotStarting DEF SetInterfaceUp
  <2>5. CASE Get(n)
    <3>1. phase = "idle"
      BY <2>5 DEF Get
    <3>2. \/ \E c : Commit(c, "read", n, {}, FALSE)
          \/ result' = Answer("read", n, "ok") /\ UNCHANGED <<phase, job>>
      BY <2>5 DEF Get
    <3>3. CASE result' = Answer("read", n, "ok") /\ UNCHANGED <<phase, job>>
      BY <3>1, <3>3 DEF Starting, Acked, Answer
    <3> QED
      BY <3>1, <3>2, <3>3, CommitNotStarting
  <2> QED
    BY <1>1, <2>1, <2>2, <2>3, <2>4, <2>5 DEF InterfaceOps
<1>2. ASSUME NEW n \in Names, NEW s \in Slots, PeerOps(n, s) PROVE ~Starting'
  <2>1. CASE \E in \in PeerInputs : CreatePeer(n, s, in)
    BY <2>1, CommitNotStarting DEF CreatePeer
  <2>2. CASE \E in \in PeerInputs : UpdatePeer(n, s, in)
    <3>1. phase = "idle"
      BY <2>2 DEF UpdatePeer
    <3>2. \/ \E c : Commit(c, "peer", n, {n}, FALSE)
          \/ result' = Answer("peer", n, "error") /\ UNCHANGED <<phase, job>>
      BY <2>2 DEF UpdatePeer
    <3>3. CASE result' = Answer("peer", n, "error") /\ UNCHANGED <<phase, job>>
      BY <3>1, <3>3 DEF Starting, Acked, Answer
    <3> QED
      BY <3>1, <3>2, <3>3, CommitNotStarting
  <2>3. CASE DeletePeer(n, s)
    BY <2>3, CommitNotStarting DEF DeletePeer
  <2> QED
    BY <1>2, <2>1, <2>2, <2>3 DEF PeerOps
<1>3. ASSUME NEW set \in SettingInputs, UpdateSettings(set) PROVE ~Starting'
  <2>1. phase = "idle" /\ \E c, todo : Commit(c, "settings", NoName, todo, FALSE)
    BY <1>3 DEF UpdateSettings
  <2> QED
    BY <2>1, CommitNotStarting
<1> QED
  BY <1>1, <1>2, <1>3

\* Reconciling one interface settles it, or an error is kept; the devices of the
\* others stay what they are.
LEMMA ReconcileSettles ==
  ASSUME TypeOK, job.op = "boot", NEW n \in Names, result.st # "ok",
         ApplySucceeds(n) \/ ApplyFails(n) \/ ReconcileRemoves(n)
  PROVE  /\ mem' = mem
         /\ \A m \in Names \ {n} : world'.dev[m] = world.dev[m]
         /\ result'.st # "error" => Settled(mem, world', n) /\ result.st = "pending"
         /\ result'.st = "ok" => job.todo = {n}
<1>1. /\ phase = "apply" /\ n \in job.todo /\ result \in Result
      /\ "boot" \notin ViewOps
  BY DEF ApplySucceeds, ApplyFails, ReconcileRemoves, TypeOK, ViewOps
<1> DEFINE f == mem.ifs[n]
<1>2. /\ f \in Iface /\ mem \in Config /\ world \in World /\ mem.fwd \in BOOLEAN
      /\ result.st \in {"pending", "error"}
  BY <1>1, JobIface DEF Config, Result
<1>3. CASE ApplySucceeds(n)
  <2>1. f.up /\ Applied(mem, n, f, world, world', DriverFails) /\ DriverFails \in BOOLEAN
    BY <1>3 DEF ApplySucceeds, DriverFails
  <2>2. /\ mem' = mem
        /\ result' = IF job.todo = {n} /\ result.st = "pending"
                     THEN [result EXCEPT !.st = "ok"] ELSE result
    BY <1>1, <1>3 DEF ApplySucceeds
  <2> HIDE DEF f
  <2>3. /\ HostKept(world, world', n) /\ world'.dev[n] \in Device
        /\ world'.dev[n].up = f.up /\ Configured(world'.dev[n], f, mem.fwd)
    BY <1>2, <2>1, AppliedImage
  <2>4. TokensApart(f, f)
    BY <1>2, WithTokensApart
  <2>5. Image(f, world'.dev[n])
    BY <1>2, <2>3, <2>4, ConfiguredImage
  <2>6. Settled(mem, world', n)
    BY <2>1, <2>5 DEF Settled, f
  <2>7. /\ result'.st # "error" => result.st = "pending"
        /\ result'.st = "ok" => job.todo = {n}
    BY <1>1, <1>2, <2>2 DEF Result
  <2> QED
    BY <2>2, <2>3, <2>6, <2>7 DEF HostKept, Touches
<1>4. CASE ApplyFails(n)
  <2>1. mem' = mem /\ result'.st = "error"
    BY <1>1, <1>4 DEF ApplyFails, Result
  <2>2. ApplyStopped(mem, n, f, world, world')
    BY <1>4 DEF ApplyFails
  <2>3. Touches(world, world', n)
    BY <1>2, <2>2, ApplyStoppedType
  <2> QED
    BY <2>1, <2>3 DEF Touches
<1>5. CASE ReconcileRemoves(n)
  <2>1. ~f.up /\ mem' = mem
    BY <1>5 DEF ReconcileRemoves
  <2>2. \/ world' = Remove(world, n)
        \/ Exists(world, n) /\ world' \in {world, Down(world, n)}
    BY <1>5 DEF ReconcileRemoves
  <2>3. Touches(world, world', n)
    <3>1. Touches(world, Remove(world, n), n) /\ Touches(world, world, n)
      BY <1>2, RemoveKept, HostKeptSelf DEF HostKept
    <3>2. CASE Exists(world, n) /\ world' = Down(world, n)
      <4>1. world.dev[n] \in Device
        BY <1>2, <3>2 DEF Exists, World
      <4> QED
        BY <1>2, <3>2, <4>1, DownKept DEF HostKept
    <3> QED
      BY <2>2, <3>1, <3>2
  <2>4. CASE world'.dev[n] # NoDev
    <3>1. result'.st = "error"
      BY <1>1, <1>5, <2>4 DEF ReconcileRemoves, Result
    <3> QED
      BY <2>1, <2>3, <3>1 DEF Touches
  <2>5. CASE world'.dev[n] = NoDev
    <3>1. result' = IF job.todo = {n} /\ result.st = "pending"
                    THEN [result EXCEPT !.st = "ok"] ELSE result
      BY <1>5, <2>5 DEF ReconcileRemoves
    <3>2. Settled(mem, world', n)
      BY <2>1, <2>5 DEF Settled
    <3>3. /\ result'.st # "error" => result.st = "pending"
          /\ result'.st = "ok" => job.todo = {n}
      BY <1>1, <1>2, <3>1 DEF Result
    <3> QED
      BY <2>1, <2>3, <3>2, <3>3 DEF Touches
  <2> QED
    BY <2>4, <2>5
<1> QED
  BY <1>3, <1>4, <1>5

LEMMA BootStep == BootInv /\ [Next]_vars => BootInv'
<1> SUFFICES ASSUME BootInv, [Next]_vars PROVE Reconciling' /\ Reconciled'
  BY AnsweringStep DEF BootInv
<1>0. TypeOK
  BY DEF BootInv, AnsweringInv, DurabilityInv
<1>1. ~Starting' => Reconciling' /\ Reconciled'
  BY DEF Starting, Reconciling, Reconciled
<1>2. ASSUME NEW n \in Names, ApplySucceeds(n) \/ ApplyFails(n) \/ ReconcileRemoves(n)
      PROVE  Reconciling' /\ Reconciled'
  <2>1. /\ phase = "apply" /\ n \in job.todo /\ Advance(n)
        /\ result.st # "ok" /\ result.op = job.op /\ result \in Result
    BY <1>2 DEF ApplySucceeds, ApplyFails, ReconcileRemoves, BootInv, AnsweringInv, Answering,
                DurabilityInv, TypeOK
  <2>2. CASE job.op # "boot"
    <3>1. phase' = "apply" => job'.op = job.op
      BY <1>0, <2>1 DEF Advance, TypeOK, Job
    <3>2. result'.op = result.op
      BY <1>2, <2>1 DEF ApplySucceeds, AnswerView, ApplyFails, ReconcileRemoves, Result
    <3> QED
      BY <1>1, <2>1, <2>2, <3>1, <3>2 DEF Starting, Acked
  <2>3. CASE job.op = "boot"
    <3>1. /\ mem' = mem
          /\ \A m \in Names \ {n} : world'.dev[m] = world.dev[m]
          /\ result'.st # "error" => Settled(mem, world', n) /\ result.st = "pending"
          /\ result'.st = "ok" => job.todo = {n}
      BY <1>0, <1>2, <2>1, <2>3, ReconcileSettles
    <3>2. ASSUME result'.st # "error" PROVE AllSettled(mem, world', job.todo \ {n})
      <4>1. AllSettled(mem, world, job.todo)
        BY <2>1, <2>3, <3>1, <3>2 DEF BootInv, Reconciling
      <4> SUFFICES ASSUME NEW m \in IfaceNames(mem) \ (job.todo \ {n}), m # n
                   PROVE  Settled(mem, world', m)
        BY <3>1, <3>2 DEF AllSettled
      <4>2. Settled(mem, world, m) /\ m \in Names
        BY <4>1 DEF AllSettled, IfaceNames
      <4> QED
        BY <3>1, <4>2 DEF Settled
    <3>3. phase' = "apply" => job'.todo = job.todo \ {n}
      BY <1>0, <2>1 DEF Advance, TypeOK, Job
    <3>4. Reconciling'
      BY <3>1, <3>2, <3>3 DEF Reconciling
    <3>5. Reconciled'
      BY <3>1, <3>2 DEF Reconciled, Acked
    <3> QED
      BY <3>4, <3>5
  <2> QED
    BY <2>2, <2>3
<1>3. CASE Boot
  <2>1. \/ IfaceNames(mem') = {} /\ phase' = "idle"
        \/ job'.todo = IfaceNames(mem') /\ phase' = "apply"
    BY <1>3 DEF Boot, NoJob
  <2> QED
    BY <2>1 DEF Reconciling, Reconciled, AllSettled, Acked
<1>4. CASE Crash
  BY <1>1, <1>4 DEF Crash, Exit, Starting, Acked
<1>5. CASE UNCHANGED vars
  BY <1>5 DEF vars, BootInv, Reconciling, Reconciled, Acked
<1> QED
  BY <1>1, <1>2, <1>3, <1>4, <1>5, RequestNotStarting DEF Next

\* Whatever a crash or a failed operation left on the host: a start that logs no
\* error ends with every device as its configuration has it.
THEOREM ConvergesAtStart == Spec => []BootConverges
<1>1. Init => BootInv
  BY AnsweringInit DEF Init, BootInv, Reconciling, Reconciled, Acked
<1>2. BootInv => BootConverges
  <2>1. \A n \in IfaceNames(mem) : Settled(mem, world, n) =>
          IF mem.ifs[n].up THEN Matches(n) ELSE ~Exists(world, n)
    BY DEF Settled, Image, Matches, Exists
  <2> QED
    BY <2>1 DEF BootInv, Reconciled, AllSettled, BootConverges
<1> QED
  BY <1>1, <1>2, BootStep, PTL DEF Spec

-----------------------------------------------------------------------------
(* The settings of the host *)

\* The block list and the forwarding mode of configuration c are in force at n.
Enforced(c, w, n) ==
  /\ w.bl[n] = c.bl
  /\ c.fwd /\ OSStack => w.ipfwd
  /\ ~OSStack => w.dev[n].fwd = c.fwd

AllEnforced(c, w, todo) ==
  \A n \in IfaceNames(c) \ todo : c.ifs[n].up => Enforced(c, w, n)

\* Every interface that is up, but for those still to be applied, has them.
SettingsInv ==
  /\ TypeOK
  /\ phase = "idle" => job.todo = {}
  /\ phase # "off" => AllEnforced(mem, world, job.todo)

LEMMA WithIfaceSettings ==
  ASSUME NEW c \in Config, NEW n, NEW f
  PROVE  WithIface(c, n, f).fwd = c.fwd /\ WithIface(c, n, f).bl = c.bl
BY DEF WithIface, Config

LEMMA EnforcedKept ==
  ASSUME NEW c, NEW w, NEW v, NEW n, HostKept(w, v, n), NEW m \in Names \ {n},
         Enforced(c, w, m)
  PROVE  Enforced(c, v, m)
BY DEF HostKept, Touches, Enforced

\* A change of interface n, in the configuration or on the host, leaves the
\* others enforced ...
LEMMA OthersEnforced ==
  ASSUME NEW c \in Config, NEW w, NEW v, NEW n \in Names, NEW f \in Iface \cup {NoIface},
         NEW todo, AllEnforced(c, w, todo), HostKept(w, v, n)
  PROVE  AllEnforced(WithIface(c, n, f), v, todo \cup {n})
<1> DEFINE d == WithIface(c, n, f)
<1>1. d.fwd = c.fwd /\ d.bl = c.bl /\ \A m \in Names \ {n} : d.ifs[m] = c.ifs[m]
  BY WithIfaceSettings, WithIfaceType
<1> HIDE DEF d
<1>2. ASSUME NEW m \in IfaceNames(d) \ (todo \cup {n}), d.ifs[m].up
      PROVE  Enforced(d, v, m)
  <2>1. m \in Names \ {n} /\ d.ifs[m] = c.ifs[m] /\ m \in IfaceNames(c) \ todo
    BY <1>1, <1>2 DEF IfaceNames
  <2>2. Enforced(c, v, m)
    BY <1>2, <2>1, EnforcedKept DEF AllEnforced
  <2> QED
    BY <1>1, <2>2 DEF Enforced
<1> QED
  BY <1>2 DEF AllEnforced, d

\* ... and n too, when it keeps its link state or is gone.
LEMMA SameUpEnforced ==
  ASSUME NEW c \in Config, NEW w \in World, NEW n \in Names, NEW f \in Iface \cup {NoIface},
         NEW todo, AllEnforced(c, w, todo), c.ifs[n] # NoIface,
         f = NoIface \/ f.up = c.ifs[n].up
  PROVE  AllEnforced(WithIface(c, n, f), w, todo)
<1> DEFINE d == WithIface(c, n, f)
<1>1. /\ d.fwd = c.fwd /\ d.bl = c.bl /\ d.ifs[n] = f
      /\ \A m \in Names \ {n} : d.ifs[m] = c.ifs[m]
  BY WithIfaceSettings, WithIfaceType
<1> HIDE DEF d
<1>2. ASSUME NEW m \in IfaceNames(d) \ todo, d.ifs[m].up
      PROVE  Enforced(d, w, m)
  <2>1. m \in IfaceNames(c) \ todo /\ c.ifs[m].up
    BY <1>1, <1>2 DEF IfaceNames
  <2>2. Enforced(c, w, m)
    BY <2>1 DEF AllEnforced
  <2> QED
    BY <1>1, <2>2 DEF Enforced
<1> QED
  BY <1>2 DEF AllEnforced, d

\* Also when there is no device.
LEMMA ApplyBlacklistHost ==
  ASSUME NEW w \in World, NEW n \in Names, NEW entries \in SUBSET Entries
  PROVE  HostKept(w, ApplyBlacklist(w, n, entries), n)
<1> DEFINE B == [w.bl EXCEPT ![n] = entries]
           u == [w EXCEPT !.bl = B]
<1>1. B \in [Names -> SUBSET Entries] /\ \A m \in Names \ {n} : B[m] = w.bl[m]
  BY DEF World
<1>2. ApplyBlacklist(w, n, entries) \in {w, u}
  BY DEF ApplyBlacklist
<1> HIDE DEF B
<1>3. u \in World /\ u.dev = w.dev /\ u.bl = B /\ u.ipfwd = w.ipfwd
  BY <1>1 DEF World
<1> HIDE DEF u
<1>4. HostKept(w, u, n)
  BY <1>1, <1>3 DEF HostKept, Touches
<1> QED
  BY <1>2, <1>4, HostKeptSelf

LEMMA UnpluggedKept ==
  ASSUME NEW w \in World, NEW n \in Names, NEW f \in Iface
  PROVE  HostKept(w, Unplugged(w, n, f, TRUE), n)
<1> DEFINE w1 == IF OSStack THEN Unplumbed(w, n, AllowedIPs(f)) ELSE w
           w2 == ApplyShaping(w1, n, {})
           w3 == ApplyBlacklist(w2, n, {})
           w4 == Remove(w3, n)
<1>1. Unplugged(w, n, f, TRUE) = w4
  BY DEF Unplugged
<1>2. HostKept(w, w1, n) /\ w1 \in World
  BY AllowedIPsType, UnplumbedKept, HostKeptSelf DEF HostKept, Touches
<1> HIDE DEF w1
<1>3. HostKept(w1, w2, n) /\ w2 \in World
  <2>1. CASE w1.dev[n] = NoDev
    BY <1>2, <2>1, HostKeptSelf DEF ApplyShaping, Exists
  <2>2. CASE w1.dev[n] # NoDev
    <3>1. w1.dev[n] \in Device
      BY <1>2, <2>2 DEF World
    <3> QED
      BY <1>2, <3>1, ApplyShapingKept DEF HostKept, Touches
  <2> QED
    BY <2>1, <2>2
<1> HIDE DEF w2
<1>4. HostKept(w2, w3, n) /\ w3 \in World
  BY <1>3, ApplyBlacklistHost DEF HostKept, Touches
<1> HIDE DEF w3
<1>5. HostKept(w3, w4, n)
  BY <1>4, RemoveKept
<1> HIDE DEF w4
<1>6. HostKept(w, w3, n)
  BY <1>2, <1>3, <1>4, HostKeptTrans
<1> QED
  BY <1>1, <1>5, <1>6, HostKeptTrans

LEMMA CommitEnforces ==
  ASSUME ~PersistFails, phase = "idle", NEW c, NEW op, NEW n, NEW todo, NEW old,
         Commit(c, op, n, todo, old), AllEnforced(c, world', todo)
  PROVE  /\ (phase = "idle" => job.todo = {})'
         /\ (phase # "off" => AllEnforced(mem, world, job.todo))'
<1>1. CASE /\ mem' = c
           /\ phase' = IF todo = {} THEN "idle" ELSE "apply"
           /\ job' = IF todo = {} THEN NoJob ELSE [op |-> op, todo |-> todo, old |-> old]
  <2>1. job'.todo = todo
    BY <1>1 DEF NoJob
  <2> QED
    BY <1>1, <2>1
<1>2. CASE Exit
  BY <1>2 DEF Exit, NoJob
<1> QED
  BY <1>1, <1>2 DEF Commit

LEMMA RequestEnforces ==
  ASSUME ~PersistFails, ~DriverFails, SettingsInv,
         \/ \E n \in Names : InterfaceOps(n)
         \/ \E n \in Names, s \in Slots : PeerOps(n, s)
         \/ \E set \in SettingInputs : UpdateSettings(set)
  PROVE  /\ (phase = "idle" => job.todo = {})'
         /\ (phase # "off" => AllEnforced(mem, world, job.todo))'
<1> DEFINE Q == /\ (phase = "idle" => job.todo = {})'
                /\ (phase # "off" => AllEnforced(mem, world, job.todo))'
<1>0. /\ TypeOK /\ mem \in Config /\ world \in World
      /\ phase = "idle" => job.todo = {} /\ AllEnforced(mem, world, {})
  BY DEF SettingsInv, TypeOK
\* A request that changes interface n, touches its device at most and has it
\* applied next.
<1>1. ASSUME NEW n \in Names, NEW f \in Iface \cup {NoIface}, NEW op, NEW old,
             phase = "idle", HostKept(world, world', n),
             Commit(WithIface(mem, n, f), op, n, {n}, old)
      PROVE  Q
  <2> DEFINE c == WithIface(mem, n, f)
  <2>1. AllEnforced(c, world', {} \cup {n})
    BY <1>0, <1>1, OthersEnforced
  <2> HIDE DEF c
  <2>2. AllEnforced(c, world', {n})
    BY <2>1
  <2> QED
    BY <1>1, <2>2, CommitEnforces DEF c
<1>2. ASSUME UNCHANGED world, NEW n \in Names PROVE HostKept(world, world', n)
  BY <1>0, <1>2, HostKeptSelf
<1>3. ASSUME NEW n \in Names, NEW in \in Patches, CreateInterface(n, in) PROVE Q
  <2> DEFINE f == [port |-> in.port, addr |-> in.addr, up |-> in.up,
                   peers |-> [s \in Slots |-> NoPeer]]
  <2>1. f \in Iface
    BY <1>3, InputsAssumption DEF CreateInterface, InterfacePatch, Iface
  <2>2. phase = "idle" /\ UNCHANGED world /\ Commit(WithIface(mem, n, f), "iface", n, {n}, FALSE)
    BY <1>3 DEF CreateInterface
  <2> HIDE DEF f
  <2> QED
    BY <1>1, <1>2, <2>1, <2>2
<1>4. ASSUME NEW n \in Names, NEW in \in Patches, UpdateInterface(n, in) PROVE Q
  <2> DEFINE f == [mem.ifs[n] EXCEPT !.port = IF in.port = Unset THEN @ ELSE in.port,
                                     !.addr = in.addr, !.up = in.up]
  <2>1. mem.ifs[n] \in Iface
    BY <1>0, <1>4, MemIface DEF UpdateInterface
  <2>2. f \in Iface
    BY <2>1, InputsAssumption DEF InterfacePatch, Iface
  <2>3. phase = "idle" /\ UNCHANGED world /\ Commit(WithIface(mem, n, f), "iface", n, {n}, FALSE)
    BY <1>4 DEF UpdateInterface
  <2> HIDE DEF f
  <2> QED
    BY <1>1, <1>2, <2>2, <2>3
<1>5. ASSUME NEW n \in Names, DeleteInterface(n) PROVE Q
  <2>1. /\ phase = "idle" /\ world' = Unplugged(world, n, mem.ifs[n], TRUE)
        /\ mem.ifs[n] \in Iface
        /\ Commit(WithIface(mem, n, NoIface), "remove", n, {}, FALSE)
    BY <1>0, <1>5, MemIface DEF DeleteInterface
  <2>2. HostKept(world, world', n)
    BY <1>0, <2>1, UnpluggedKept
  <2> DEFINE c == WithIface(mem, n, NoIface)
  <2>3. AllEnforced(c, world', {} \cup {n}) /\ n \notin IfaceNames(c)
    <3>1. c.ifs[n] = NoIface
      BY <1>0, WithIfaceType
    <3>2. AllEnforced(c, world', {} \cup {n})
      BY <1>0, <2>1, <2>2, OthersEnforced
    <3> QED
      BY <3>1, <3>2 DEF IfaceNames
  <2> HIDE DEF c
  <2>4. AllEnforced(c, world', {})
    BY <2>3 DEF AllEnforced
  <2> QED
    BY <2>1, <2>4, CommitEnforces DEF c
<1>6. ASSUME NEW n \in Names, NEW up \in UpInputs, SetInterfaceUp(n, up) PROVE Q
  <2> DEFINE f == [mem.ifs[n] EXCEPT !.up = up]
  <2>1. mem.ifs[n] \in Iface
    BY <1>0, <1>6, MemIface DEF SetInterfaceUp
  <2>2. f \in Iface
    BY <2>1, InputsAssumption DEF Iface
  <2>3. /\ phase = "idle" /\ UNCHANGED world
        /\ Commit(WithIface(mem, n, f), "toggle", n, {n}, mem.ifs[n].up)
    BY <1>6 DEF SetInterfaceUp
  <2> HIDE DEF f
  <2> QED
    BY <1>1, <1>2, <2>2, <2>3
<1>7. ASSUME NEW n \in Names, Get(n) PROVE Q
  <2>1. phase = "idle" /\ mem.ifs[n] # NoIface /\ mem.ifs[n] \in Iface /\ UNCHANGED world
    BY <1>0, <1>7, MemIface DEF Get
  <2> DEFINE f == WithTokens(mem.ifs[n])
             c == WithIface(mem, n, f)
  <2>2. f \in Iface /\ f.up = mem.ifs[n].up
    BY <2>1, WithTokensType, WithTokensApart DEF TokensApart
  <2> HIDE DEF f
  <2>3. AllEnforced(c, world, {})
    BY <1>0, <2>1, <2>2, SameUpEnforced
  <2>4. Commit(c, "read", n, {}, FALSE) \/ UNCHANGED <<mem, disk, phase, job>>
    BY <1>7 DEF Get, f
  <2> HIDE DEF c
  <2>5. CASE Commit(c, "read", n, {}, FALSE)
    BY <2>1, <2>3, <2>5, CommitEnforces
  <2>6. CASE UNCHANGED <<mem, disk, phase, job>>
    BY <1>0, <2>1, <2>6
  <2> QED
    BY <2>4, <2>5, <2>6
<1>8. ASSUME NEW n \in Names, NEW s \in Slots, NEW in \in PeerInputs, CreatePeer(n, s, in)
      PROVE  Q
  <2>1. phase = "idle" /\ mem.ifs[n] \in Iface /\ UNCHANGED world
    BY <1>0, <1>8, MemIface DEF CreatePeer
  <2>2. in.key \in Keys /\ in.generate \in BOOLEAN /\ in.lim \in BOOLEAN
        /\ in.addr \in Hosts \cup {NoHost}
    BY InputsAssumption DEF PeerInput
  <2>3. PICK a \in AssignedAddresses(mem.ifs[n], in.addr) :
          Commit(WithIface(mem, n,
                   WithPeer(mem.ifs[n], s,
                     [key |-> in.key, priv |-> IF in.generate THEN in.key ELSE NoKey,
                      addr |-> a, aips |-> {HostPrefix(a)},
                      on |-> TRUE, lim |-> in.lim, tok |-> TRUE])),
                 "peer", n, {n}, FALSE)
    BY <1>8 DEF CreatePeer
  <2> DEFINE p == [key |-> in.key, priv |-> IF in.generate THEN in.key ELSE NoKey,
                   addr |-> a, aips |-> {HostPrefix(a)},
                   on |-> TRUE, lim |-> in.lim, tok |-> TRUE]
  <2>4. a \in Hosts
    BY <2>1, <2>2, AssignedAddressesType
  <2>5. p \in Peer
    BY <2>2, <2>4 DEF Peer, Prefixes
  <2>6. Commit(WithIface(mem, n, WithPeer(mem.ifs[n], s, p)), "peer", n, {n}, FALSE)
    BY <2>3
  <2> HIDE DEF p
  <2>7. WithPeer(mem.ifs[n], s, p) \in Iface
    BY <2>1, <2>5, WithPeerType
  <2> QED
    BY <1>1, <1>2, <2>1, <2>6, <2>7
<1>9. ASSUME NEW n \in Names, NEW s \in Slots, NEW in \in PeerInputs, UpdatePeer(n, s, in)
      PROVE  Q
  <2> DEFINE f == mem.ifs[n]
             p == Readdressed(f.peers[s], in)
             q == [p EXCEPT !.aips = OrOwnAddress(in.aips, in.addr), !.on = in.on, !.lim = in.lim]
  <2>1. phase = "idle" /\ f # NoIface /\ f \in Iface /\ f.peers[s] \in Peer
    BY <1>0, <1>9, MemIface DEF UpdatePeer, Iface
  <2>2. in \in PeerInput
    BY InputsAssumption
  <2>3. \/ mem' = WithIface(mem, n, WithPeer(f, s, p)) /\ UNCHANGED <<disk, world, phase, job>>
        \/ /\ world' = world \/ world' = Unplumbed(world, n, p.aips)
           /\ Commit(WithIface(mem, n, WithPeer(f, s, q)), "peer", n, {n}, FALSE)
    BY <1>9 DEF UpdatePeer
  <2>4. p \in Peer
    BY <2>1, <2>2, ReaddressedType
  <2>5. q \in Peer /\ p.aips \in SUBSET Prefixes
    BY <2>2, <2>4, OrOwnAddressType DEF Peer, PeerInput
  <2> HIDE DEF f, p, q
  <2>6. WithPeer(f, s, p) \in Iface /\ WithPeer(f, s, q) \in Iface
    BY <2>1, <2>4, <2>5, WithPeerType
  <2>7. WithPeer(f, s, p).up = f.up
    BY <2>1 DEF WithPeer, Iface
  <2>8. CASE mem' = WithIface(mem, n, WithPeer(f, s, p)) /\ UNCHANGED <<disk, world, phase, job>>
    <3>1. AllEnforced(WithIface(mem, n, WithPeer(f, s, p)), world, {})
      BY <1>0, <2>1, <2>6, <2>7, SameUpEnforced DEF f
    <3> QED
      BY <1>0, <2>1, <2>8, <3>1
  <2>9. CASE /\ world' = world \/ world' = Unplumbed(world, n, p.aips)
             /\ Commit(WithIface(mem, n, WithPeer(f, s, q)), "peer", n, {n}, FALSE)
    <3>1. HostKept(world, world', n)
      BY <1>0, <2>5, <2>9, HostKeptSelf, UnplumbedKept
    <3> QED
      BY <1>1, <2>1, <2>6, <2>9, <3>1
  <2> QED
    BY <2>3, <2>8, <2>9
<1>10. ASSUME NEW n \in Names, NEW s \in Slots, DeletePeer(n, s) PROVE Q
  <2> DEFINE f == mem.ifs[n]
             aips == f.peers[s].aips
  <2>1. phase = "idle" /\ f \in Iface /\ f.peers[s] \in Peer
    BY <1>0, <1>10, MemIface DEF DeletePeer, Iface
  <2>2. /\ world' = world \/ world' = Unplumbed(world, n, aips)
        /\ Commit(WithIface(mem, n, WithPeer(f, s, NoPeer)), "remove", n, {n}, FALSE)
    BY <1>10 DEF DeletePeer
  <2>3. aips \in SUBSET Prefixes
    BY <2>1 DEF Peer
  <2> HIDE DEF f, aips
  <2>4. WithPeer(f, s, NoPeer) \in Iface
    BY <2>1, WithPeerType
  <2>5. HostKept(world, world', n)
    BY <1>0, <2>2, <2>3, HostKeptSelf, UnplumbedKept
  <2> QED
    BY <1>1, <2>1, <2>2, <2>4, <2>5
<1>11. ASSUME NEW set \in SettingInputs, UpdateSettings(set) PROVE Q
  <2> DEFINE c == [mem EXCEPT !.fwd = set.fwd, !.bl = set.bl]
             todo == IF set = [fwd |-> mem.fwd, bl |-> mem.bl] THEN {}
                     ELSE {n \in IfaceNames(mem) : mem.ifs[n].up}
  <2>1. phase = "idle" /\ UNCHANGED world /\ Commit(c, "settings", NoName, todo, FALSE)
    BY <1>11 DEF UpdateSettings
  <2>2. c.fwd = set.fwd /\ c.bl = set.bl /\ c.ifs = mem.ifs
    BY <1>0 DEF Config
  <2> HIDE DEF c
  <2>3. AllEnforced(c, world, todo)
    <3>1. CASE set = [fwd |-> mem.fwd, bl |-> mem.bl]
      <4>1. c.fwd = mem.fwd /\ c.bl = mem.bl /\ todo = {}
        BY <2>2, <3>1
      <4> HIDE DEF todo
      <4> QED
        BY <1>0, <2>1, <2>2, <4>1 DEF AllEnforced, Enforced, IfaceNames
    <3>2. CASE set # [fwd |-> mem.fwd, bl |-> mem.bl]
      BY <2>2, <3>2 DEF AllEnforced, IfaceNames
    <3> QED
      BY <3>1, <3>2
  <2> HIDE DEF todo
  <2> QED
    BY <2>1, <2>3, CommitEnforces
<1> QED
  BY <1>3, <1>4, <1>5, <1>6, <1>7, <1>8, <1>9, <1>10, <1>11 DEF InterfaceOps, PeerOps

LEMMA ApplyEnforces ==
  ASSUME ~DriverFails, SettingsInv, NEW n \in Names,
         ApplySucceeds(n) \/ ReconcileRemoves(n)
  PROVE  /\ (phase = "idle" => job.todo = {})'
         /\ AllEnforced(mem, world, job.todo)'
<1> DEFINE f == mem.ifs[n]
<1>0. DriverFails = FALSE
  BY DEF DriverFails
<1>1. phase = "apply" /\ n \in job.todo /\ Advance(n) /\ TypeOK
  BY DEF ApplySucceeds, ReconcileRemoves, SettingsInv
<1>2. /\ f \in Iface /\ mem \in Config /\ world \in World /\ f # NoIface
      /\ AllEnforced(mem, world, job.todo)
  BY <1>1, JobIface, SentinelAssumption DEF SettingsInv
<1>3. /\ HostKept(world, world', n)
      /\ f.up => Enforced(mem, world', n)
  <2>1. CASE ApplySucceeds(n)
    <3>1. Applied(mem, n, f, world, world', FALSE)
      BY <1>0, <2>1 DEF ApplySucceeds
    <3> HIDE DEF f
    <3>2. HostKept(world, world', n) /\ Configured(world'.dev[n], f, mem.fwd)
      BY <1>2, <3>1, AppliedImage
    <3>3. f.up => Complete(world', n, f, mem)
      BY <1>2, <3>1, AppliedFully
    <3> QED
      BY <3>2, <3>3 DEF Configured, Complete, RoutedFor, Enforced
  <2>2. CASE ReconcileRemoves(n)
    BY <1>0, <1>2, <2>2, RemoveKept DEF ReconcileRemoves
  <2> QED
    BY <2>1, <2>2
<1>4. mem' = mem \/ mem' = WithIface(mem, n, WithTokens(f))
  BY DEF ApplySucceeds, AnswerView, ReconcileRemoves
<1>5. mem' = WithIface(mem, n, mem'.ifs[n]) /\ mem'.ifs[n] \in Iface /\ mem'.ifs[n].up = f.up
      /\ mem'.fwd = mem.fwd /\ mem'.bl = mem.bl
  <2>1. CASE mem' = mem
    <3>1. mem = WithIface(mem, n, mem.ifs[n])
      BY <1>2 DEF WithIface, Config
    <3> QED
      BY <1>2, <2>1, <3>1
  <2>2. CASE mem' = WithIface(mem, n, WithTokens(f))
    <3>1. WithTokens(f) \in Iface /\ WithTokens(f).up = f.up
      BY <1>2, WithTokensType, WithTokensApart DEF TokensApart
    <3>2. mem'.ifs[n] = WithTokens(f)
      BY <1>2, <2>2, <3>1, WithIfaceType
    <3>3. mem'.fwd = mem.fwd /\ mem'.bl = mem.bl
      BY <1>2, <2>2, WithIfaceSettings
    <3> QED
      BY <2>2, <3>1, <3>2, <3>3
  <2> QED
    BY <1>4, <2>1, <2>2
<1>6. job'.todo = job.todo \ {n}
  BY <1>1 DEF Advance, NoJob, TypeOK, Job
<1>7. (phase = "idle" => job.todo = {})'
  BY <1>1, <1>6 DEF Advance, NoJob
<1> HIDE DEF f
<1>8. AllEnforced(mem', world', job.todo \cup {n})
  BY <1>2, <1>3, <1>5, OthersEnforced
<1>9. f.up => Enforced(mem', world', n)
  BY <1>3, <1>5 DEF Enforced
<1>10. AllEnforced(mem', world', job.todo \ {n})
  BY <1>5, <1>8, <1>9 DEF AllEnforced
<1> QED
  BY <1>6, <1>7, <1>10

LEMMA SettingsStep ==
  ~PersistFails /\ ~DriverFails /\ SettingsInv /\ [Next]_vars => SettingsInv'
<1> SUFFICES ASSUME ~PersistFails, ~DriverFails, SettingsInv, [Next]_vars
             PROVE  /\ (phase = "idle" => job.todo = {})'
                    /\ (phase # "off" => AllEnforced(mem, world, job.todo))'
  BY NextType DEF SettingsInv
<1>1. CASE Crash
  BY <1>1 DEF Crash, Exit
<1>2. CASE Boot
  <2>1. \/ IfaceNames(mem') = {} /\ phase' = "idle" /\ job'.todo = IfaceNames(mem')
        \/ phase' = "apply" /\ job'.todo = IfaceNames(mem')
    BY <1>2 DEF Boot, NoJob
  <2> QED
    BY <2>1 DEF AllEnforced
<1>3. CASE UNCHANGED vars
  BY <1>3 DEF vars, SettingsInv
<1>4. ASSUME NEW n \in Names, ApplyFails(n) PROVE FALSE
  BY <1>4 DEF ApplyFails
<1> QED
  BY <1>1, <1>2, <1>3, <1>4, RequestEnforces, ApplyEnforces DEF Next

\* While saving and the driver work: whenever the daemon is between two
\* operations, also after a crash and the start that followed it, every
\* interface that is up drops the current block list; its netstack forwards or
\* not as the settings say, and its OS stack forwards when they say so.  That an
\* OS stack stops forwarding when they do not is false of the code.
THEOREM SettingsAreApplied ==
  ~PersistFails /\ ~DriverFails => (Spec => []SettingsApplied)
<1> SUFFICES ASSUME ~PersistFails, ~DriverFails PROVE Spec => []SettingsApplied
  OBVIOUS
<1>1. Init => SettingsInv
  BY InitType DEF Init, SettingsInv
<1>2. SettingsInv => SettingsApplied
  BY DEF SettingsInv, SettingsApplied, AllEnforced, Enforced
<1>3. SettingsInv /\ [Next]_vars => SettingsInv'
  BY SettingsStep
<1> QED
  BY <1>1, <1>2, <1>3, PTL DEF Spec

-----------------------------------------------------------------------------
(* A retry catches up *)

\* World v is w but for the device and the block list of n and the routing
\* state of the host, which are as given.
IsWith(v, w, n, d, b, t, r, i) ==
  /\ v \in World
  /\ v.dev = [w.dev EXCEPT ![n] = d] /\ v.bl = [w.bl EXCEPT ![n] = b]
  /\ v.table = t /\ v.rules = r /\ v.ipfwd = i

LEMMA IsWithTrans ==
  ASSUME NEW w \in World, NEW n \in Names, NEW v, NEW d, NEW b, NEW t, NEW r, NEW i,
         IsWith(v, w, n, d, b, t, r, i),
         NEW u, NEW d1, NEW b1, NEW t1, NEW r1, NEW i1,
         IsWith(u, v, n, d1, b1, t1, r1, i1)
  PROVE  IsWith(u, w, n, d1, b1, t1, r1, i1)
BY DEF IsWith, World

LEMMA IsWithSame ==
  ASSUME NEW w \in World, NEW n \in Names, NEW v, NEW u, NEW d, NEW b, NEW t, NEW r, NEW i,
         IsWith(v, w, n, d, b, t, r, i), IsWith(u, w, n, d, b, t, r, i)
  PROVE  u = v
BY DEF IsWith, World

LEMMA IsWithSelf ==
  ASSUME NEW w \in World, NEW n \in Names
  PROVE  IsWith(w, w, n, w.dev[n], w.bl[n], w.table, w.rules, w.ipfwd)
BY DEF IsWith, World

\* What IsWith says of n itself.
LEMMA IsWithOwn ==
  ASSUME NEW w \in World, NEW n \in Names, NEW v, NEW d, NEW b, NEW t, NEW r, NEW i,
         IsWith(v, w, n, d, b, t, r, i)
  PROVE  /\ v \in World /\ v.dev[n] = d /\ v.bl[n] = b
         /\ v.table = t /\ v.rules = r /\ v.ipfwd = i
BY DEF IsWith, World

LEMMA IsWithElsewhere ==
  ASSUME NEW w \in World, NEW n \in Names, NEW v, NEW d, NEW b, NEW t, NEW r, NEW i,
         IsWith(v, w, n, d, b, t, r, i)
  PROVE  RoutedElsewhere(v, n) = RoutedElsewhere(w, n)
<1>1. Touches(w, v, n)
  BY DEF IsWith, Touches, World
<1> QED
  BY <1>1, ElsewhereKept

LEMMA WithDevIs ==
  ASSUME NEW w \in World, NEW n \in Names, NEW d \in Device \cup {NoDev}
  PROVE  IsWith(WithDev(w, n, d), w, n, d, w.bl[n], w.table, w.rules, w.ipfwd)
<1>1. WithDev(w, n, d) \in World
  BY WithDevType
<1>2. /\ WithDev(w, n, d).dev = [w.dev EXCEPT ![n] = d] /\ WithDev(w, n, d).bl = w.bl
      /\ WithDev(w, n, d).table = w.table /\ WithDev(w, n, d).rules = w.rules
      /\ WithDev(w, n, d).ipfwd = w.ipfwd
  BY DEF WithDev, World
<1>3. w.bl = [w.bl EXCEPT ![n] = w.bl[n]]
  BY DEF World
<1> QED
  BY <1>1, <1>2, <1>3 DEF IsWith

\* The device that is prepared, and that interface f leaves when it is up or
\* down, from the device d found.
ConfiguredDev(d, f, fwd) ==
  [d EXCEPT !.port  = IF f.port > 0 THEN f.port ELSE @,
            !.mark  = WantsDefault(AllowedIPs(f)) \/ @,
            !.fwd   = fwd,
            !.peers = ToDriverConfig(f, fwd).peers]

AddressedDev(d, f) ==
  IF f.addr = NoHost THEN d
  ELSE [d EXCEPT !.addrs = IF OSStack THEN @ \cup {f.addr}
                           ELSE IF d.built THEN @ ELSE {f.addr}]

ReadyDev(d, f, fwd) == AddressedDev(ConfiguredDev(d, f, fwd), f)


LEMMA DeviceSame ==
  ASSUME NEW d \in Device, NEW e \in Device,
         /\ d.up = e.up /\ d.built = e.built /\ d.port = e.port /\ d.mark = e.mark
         /\ d.fwd = e.fwd /\ d.peers = e.peers /\ d.addrs = e.addrs
         /\ d.shaped = e.shaped /\ d.routes = e.routes
  PROVE  d = e
BY DEF Device

LEMMA ConfiguredDevFields ==
  ASSUME NEW d \in Device, NEW f \in Iface, NEW fwd \in BOOLEAN
  PROVE  LET e == ConfiguredDev(d, f, fwd)
         IN  /\ e \in Device
             /\ e.up = d.up /\ e.built = d.built /\ e.addrs = d.addrs
             /\ e.shaped = d.shaped /\ e.routes = d.routes
             /\ e.port = IF f.port > 0 THEN f.port ELSE d.port
             /\ e.mark = (WantsDefault(AllowedIPs(f)) \/ d.mark)
             /\ e.fwd = fwd /\ e.peers = ToDriverConfig(f, fwd).peers
<1>1. /\ ToDriverConfig(f, fwd).peers \in SUBSET PeerSpec
      /\ WantsDefault(AllowedIPs(f)) \in BOOLEAN
  BY ToDriverConfigType DEF ToDriverConfig
<1>2. (WantsDefault(AllowedIPs(f)) \/ d.mark) \in BOOLEAN
  OBVIOUS
<1>3. (IF f.port > 0 THEN f.port ELSE d.port) \in Ports
  BY DEF Device, Iface
<1> QED
  BY <1>1, <1>2, <1>3 DEF ConfiguredDev, Device

LEMMA AddressedDevFields ==
  ASSUME NEW d \in Device, NEW f \in Iface
  PROVE  LET e == AddressedDev(d, f)
         IN  /\ e \in Device
             /\ e.up = d.up /\ e.built = d.built /\ e.port = d.port /\ e.mark = d.mark
             /\ e.fwd = d.fwd /\ e.peers = d.peers
             /\ e.shaped = d.shaped /\ e.routes = d.routes
             /\ e.addrs = IF f.addr = NoHost THEN d.addrs
                          ELSE IF OSStack THEN d.addrs \cup {f.addr}
                          ELSE IF d.built THEN d.addrs ELSE {f.addr}
<1>1. f.addr # NoHost => f.addr \in Hosts
  BY DEF Iface
<1>2. CASE f.addr = NoHost
  BY <1>2 DEF AddressedDev
<1>3. CASE f.addr # NoHost
  <2> DEFINE A == IF OSStack THEN d.addrs \cup {f.addr}
                  ELSE IF d.built THEN d.addrs ELSE {f.addr}
  <2>1. A \in SUBSET Hosts
    BY <1>1, <1>3 DEF Device
  <2>2. AddressedDev(d, f) = [d EXCEPT !.addrs = A]
    BY <1>3 DEF AddressedDev
  <2> HIDE DEF A
  <2>3. LET e == AddressedDev(d, f)
        IN  /\ e \in Device
            /\ e.up = d.up /\ e.built = d.built /\ e.port = d.port /\ e.mark = d.mark
            /\ e.fwd = d.fwd /\ e.peers = d.peers
            /\ e.shaped = d.shaped /\ e.routes = d.routes
            /\ e.addrs = A
    BY <2>1, <2>2 DEF Device
  <2> QED
    BY <1>3, <2>3 DEF A
<1> QED
  BY <1>2, <1>3

\* What each stage of applyInterface makes of the world.
LEMMA CreateIs ==
  ASSUME NEW w \in World, NEW n \in Names
  PROVE  IsWith(Create(w, n), w, n, Found(w, n), w.bl[n], w.table, w.rules, w.ipfwd)
<1>1. CASE Exists(w, n)
  BY <1>1, IsWithSelf DEF Create, Found
<1>2. CASE ~Exists(w, n)
  BY <1>2, BlankDeviceType, WithDevIs DEF Create, Found
<1> QED
  BY <1>1, <1>2

LEMMA ConfigureIs ==
  ASSUME NEW w \in World, NEW n \in Names, w.dev[n] \in Device, NEW f \in Iface,
         NEW fwd \in BOOLEAN
  PROVE  IsWith(Configure(w, n, ToDriverConfig(f, fwd)), w, n,
                ConfiguredDev(w.dev[n], f, fwd), w.bl[n], w.table, w.rules, w.ipfwd)
<1> DEFINE e == ConfiguredDev(w.dev[n], f, fwd)
<1>1. e \in Device
  BY ConfiguredDevFields
<1>2. /\ ToDriverConfig(f, fwd).port = f.port /\ ToDriverConfig(f, fwd).fwd = fwd
      /\ ToDriverConfig(f, fwd).mark = WantsDefault(AllowedIPs(f))
  BY DEF ToDriverConfig
<1>3. Configure(w, n, ToDriverConfig(f, fwd)) = WithDev(w, n, e)
  BY <1>2 DEF Configure, ConfiguredDev
<1> HIDE DEF e
<1>4. IsWith(WithDev(w, n, e), w, n, e, w.bl[n], w.table, w.rules, w.ipfwd)
  BY <1>1, WithDevIs
<1> QED
  BY <1>3, <1>4 DEF e

LEMMA AddressIs ==
  ASSUME NEW w \in World, NEW n \in Names, w.dev[n] \in Device, NEW f \in Iface
  PROVE  IsWith(IF f.addr = NoHost THEN w ELSE SetAddresses(w, n, f.addr), w, n,
                AddressedDev(w.dev[n], f), w.bl[n], w.table, w.rules, w.ipfwd)
<1> DEFINE e == AddressedDev(w.dev[n], f)
<1>1. e \in Device
  BY AddressedDevFields
<1>2. CASE f.addr = NoHost
  BY <1>2, IsWithSelf DEF AddressedDev
<1>3. CASE f.addr # NoHost
  <2>1. SetAddresses(w, n, f.addr) = WithDev(w, n, e)
    BY <1>3 DEF SetAddresses, AddressedDev
  <2> HIDE DEF e
  <2>2. IsWith(WithDev(w, n, e), w, n, e, w.bl[n], w.table, w.rules, w.ipfwd)
    BY <1>1, WithDevIs
  <2> QED
    BY <1>3, <2>1, <2>2 DEF e
<1> QED
  BY <1>2, <1>3

\* What was done before the call that fails.
StoppedDev(d, f, fwd, call) ==
  CASE call = "configure" -> d
    [] call = "addresses" -> ConfiguredDev(d, f, fwd)
    [] OTHER              -> ReadyDev(d, f, fwd)

LEMMA PreparedIs ==
  ASSUME NEW w \in World, NEW n \in Names, NEW f \in Iface, NEW fwd \in BOOLEAN,
         NEW call, call # "create"
  PROVE  /\ IsWith(Prepared(w, n, f, fwd, call), w, n, StoppedDev(Found(w, n), f, fwd, call),
                   w.bl[n], w.table, w.rules, w.ipfwd)
         /\ StoppedDev(Found(w, n), f, fwd, call) \in Device
<1> DEFINE d  == Found(w, n)
           w1 == Create(w, n)
           w2 == Configure(w1, n, ToDriverConfig(f, fwd))
           w3 == IF f.addr = NoHost THEN w2 ELSE SetAddresses(w2, n, f.addr)
           d2 == ConfiguredDev(d, f, fwd)
           d3 == AddressedDev(d2, f)
<1>1. d \in Device /\ d2 \in Device /\ d3 \in Device
  BY FoundType, ConfiguredDevFields, AddressedDevFields
<1>2. IsWith(w1, w, n, d, w.bl[n], w.table, w.rules, w.ipfwd)
  BY CreateIs
<1>3. Prepared(w, n, f, fwd, call) =
        CASE call = "configure" -> w1 [] call = "addresses" -> w2 [] OTHER -> w3
  BY DEF Prepared
<1>4. StoppedDev(d, f, fwd, call) =
        CASE call = "configure" -> d [] call = "addresses" -> d2 [] OTHER -> d3
  BY DEF StoppedDev, ReadyDev
<1> HIDE DEF w1, d
<1>5. /\ w1 \in World /\ w1.dev[n] = d /\ w1.bl[n] = w.bl[n]
      /\ w1.table = w.table /\ w1.rules = w.rules /\ w1.ipfwd = w.ipfwd
  BY <1>2, IsWithOwn
<1>6. IsWith(w2, w1, n, d2, w.bl[n], w.table, w.rules, w.ipfwd)
  BY <1>1, <1>5, ConfigureIs
<1> HIDE DEF w2, d2
<1>7. IsWith(w2, w, n, d2, w.bl[n], w.table, w.rules, w.ipfwd)
  BY <1>2, <1>6, IsWithTrans
<1>8. /\ w2 \in World /\ w2.dev[n] = d2 /\ w2.bl[n] = w.bl[n]
      /\ w2.table = w.table /\ w2.rules = w.rules /\ w2.ipfwd = w.ipfwd
  BY <1>7, IsWithOwn
<1>9. IsWith(w3, w2, n, d3, w.bl[n], w.table, w.rules, w.ipfwd)
  BY <1>1, <1>8, AddressIs
<1> HIDE DEF w3, d3
<1>10. IsWith(w3, w, n, d3, w.bl[n], w.table, w.rules, w.ipfwd)
  BY <1>7, <1>9, IsWithTrans
<1>11. CASE call = "configure"
  BY <1>1, <1>2, <1>3, <1>4, <1>11 DEF d
<1>12. CASE call = "addresses"
  BY <1>1, <1>3, <1>4, <1>7, <1>12 DEF d
<1>13. CASE call # "configure" /\ call # "addresses"
  BY <1>1, <1>3, <1>4, <1>10, <1>13 DEF d
<1> QED
  BY <1>11, <1>12, <1>13

\* The routes that one pass of the plumbing adds, beside the prefixes els that are
\* routed through other devices, and the default route.
NewRoutes(f, skip, els) ==
  IF OSStack /\ "routes" \notin skip THEN RouteTargets(AllowedIPs(f)) \ els ELSE {}
NewDefault(f, fwd, skip) ==
  OSStack /\ WantsDefault(AllowedIPs(f)) /\ fwd /\ "default" \notin skip

RaisedDev(d, shaped, routes) ==
  [d EXCEPT !.up = TRUE, !.built = ~OSStack, !.shaped = shaped, !.routes = @ \cup routes]

LEMMA RaisedDevFields ==
  ASSUME NEW d \in Device, NEW shaped \in SUBSET SUBSET Prefixes, NEW routes \in SUBSET Prefixes
  PROVE  LET e == RaisedDev(d, shaped, routes)
         IN  /\ e \in Device
             /\ e.up = TRUE /\ e.built = ~OSStack /\ e.port = d.port /\ e.mark = d.mark
             /\ e.fwd = d.fwd /\ e.peers = d.peers /\ e.addrs = d.addrs
             /\ e.shaped = shaped /\ e.routes = d.routes \cup routes
<1>1. d.routes \cup routes \in SUBSET Prefixes
  BY DEF Device
<1>2. (~OSStack) \in BOOLEAN
  BY DEF OSStack
<1> QED
  BY <1>1, <1>2 DEF RaisedDev, Device

LEMMA NewRoutesType ==
  ASSUME NEW f \in Iface, NEW skip, NEW els
  PROVE  NewRoutes(f, skip, els) \in SUBSET Prefixes
BY AllowedIPsType DEF NewRoutes, RouteTargets

LEMMA RaisedIs ==
  ASSUME NEW w \in World, NEW n \in Names, w.dev[n] \in Device, NEW f \in Iface,
         NEW fwd \in BOOLEAN, NEW skip, NEW shaped \in SUBSET SUBSET Prefixes,
         NEW dropped \in SUBSET Entries
  PROVE  IsWith(Raised(w, n, f, fwd, skip, shaped, dropped), w, n,
                RaisedDev(w.dev[n], shaped, NewRoutes(f, skip, RoutedElsewhere(w, n))), dropped,
                IF NewDefault(f, fwd, skip) /\ w.table = NoName THEN n ELSE w.table,
                NewDefault(f, fwd, skip) \/ w.rules,
                (OSStack /\ fwd /\ "forwarding" \notin skip) \/ w.ipfwd)
<1> DEFINE els == RoutedElsewhere(w, n)
           d  == w.dev[n]
           R  == NewRoutes(f, skip, els)
           w1 == Up(w, n)
           w2 == IF OSStack THEN Plumbed(w1, n, f, fwd, skip) ELSE w1
           w3 == ApplyShaping(w2, n, shaped)
           w4 == ApplyBlacklist(w3, n, dropped)
           t  == IF NewDefault(f, fwd, skip) /\ w.table = NoName THEN n ELSE w.table
           r  == NewDefault(f, fwd, skip) \/ w.rules
           i  == (OSStack /\ fwd /\ "forwarding" \notin skip) \/ w.ipfwd
           d1 == [d EXCEPT !.up = TRUE, !.built = ~OSStack]
           d2 == [d1 EXCEPT !.routes = @ \cup R]
           d3 == [d2 EXCEPT !.shaped = shaped]
<1>1. /\ d1 \in Device /\ d2 \in Device /\ d3 \in Device
      /\ d3 = RaisedDev(d, shaped, R)
  <2>1. R \in SUBSET Prefixes
    BY NewRoutesType
  <2> HIDE DEF R
  <2>2. d1 \in Device
    BY DEF Device, OSStack
  <2>3. d2 \in Device
    BY <2>1, <2>2 DEF Device
  <2>4. d3 \in Device
    BY <2>3 DEF Device
  <2>5. d3 = RaisedDev(d, shaped, R)
    BY <2>1 DEF Device, RaisedDev
  <2> QED
    BY <2>2, <2>3, <2>4, <2>5
<1>2. IsWith(w1, w, n, d1, w.bl[n], w.table, w.rules, w.ipfwd)
  BY <1>1, WithDevIs DEF Up
<1>3. d1.routes = d.routes
  BY DEF Device
<1> HIDE DEF w1, d1
<1>4. /\ w1 \in World /\ w1.dev[n] = d1 /\ w1.bl[n] = w.bl[n]
      /\ w1.table = w.table /\ w1.rules = w.rules /\ w1.ipfwd = w.ipfwd
  BY <1>2, IsWithOwn
<1>5. IsWith(w2, w1, n, d2, w.bl[n], t, r, i)
  <2>1. CASE OSStack
    <3> DEFINE v1 == IF fwd /\ "forwarding" \notin skip THEN EnsureForwarding(w1) ELSE w1
               v2 == IF "routes" \notin skip THEN AddRoutes(v1, n, AllowedIPs(f)) ELSE v1
               v3 == IF WantsDefault(AllowedIPs(f)) /\ fwd /\ "default" \notin skip
                     THEN AddDefaultRoutes(v2, n) ELSE v2
    <3>1. w2 = v3
      BY <2>1 DEF Plumbed
    <3>2. IsWith(v1, w1, n, d1, w.bl[n], w.table, w.rules, i)
      <4>1. IsWith(w1, w1, n, d1, w.bl[n], w.table, w.rules, w.ipfwd)
        BY <1>4, IsWithSelf
      <4>2. CASE fwd /\ "forwarding" \notin skip
        BY <1>4, <2>1, <4>1, <4>2 DEF IsWith, EnsureForwarding, World
      <4>3. CASE ~(fwd /\ "forwarding" \notin skip)
        <5>1. i = w.ipfwd
          BY <4>3 DEF World
        <5> HIDE DEF i
        <5> QED
          BY <4>1, <4>3, <5>1
      <4> QED
        BY <4>2, <4>3
    <3> HIDE DEF v1, i
    <3>3. /\ v1 \in World /\ v1.dev[n] = d1 /\ v1.bl[n] = w.bl[n]
          /\ v1.table = w.table /\ v1.rules = w.rules /\ v1.ipfwd = i
      BY <1>4, <3>2, IsWithOwn
    <3>4. IsWith(v2, v1, n, d2, w.bl[n], w.table, w.rules, i)
      <4>1. CASE "routes" \notin skip
        <5>1. v2 = WithDev(v1, n, d2)
          <6>1. RoutedElsewhere(v1, n) = els
            BY <1>2, <1>4, <3>2, IsWithElsewhere
          <6>2. R = RouteTargets(AllowedIPs(f)) \ els
            BY <2>1, <4>1 DEF NewRoutes
          <6>3. v2 = WithDev(v1, n, [v1.dev[n] EXCEPT !.routes =
                       @ \cup (RouteTargets(AllowedIPs(f)) \ RoutedElsewhere(v1, n))])
            BY <4>1 DEF AddRoutes
          <6> HIDE DEF v2, R, els
          <6> QED
            BY <3>3, <6>1, <6>2, <6>3
        <5> HIDE DEF v2, d2
        <5> QED
          BY <1>1, <3>3, <5>1, WithDevIs
      <4>2. CASE "routes" \in skip
        <5>1. d2 = d1
          <6>1. d1.routes \cup R = d1.routes
            BY <4>2 DEF NewRoutes
          <6> HIDE DEF R
          <6> QED
            BY <1>1, <6>1 DEF Device
        <5>2. v2 = v1
          BY <4>2
        <5> HIDE DEF v2, d2
        <5> QED
          BY <3>3, <5>1, <5>2, IsWithSelf
      <4> QED
        BY <4>1, <4>2
    <3> HIDE DEF v2, d2
    <3>5. IsWith(v2, w1, n, d2, w.bl[n], w.table, w.rules, i)
      BY <1>4, <3>2, <3>4, IsWithTrans
    <3>6. /\ v2 \in World /\ v2.table = w.table /\ v2.rules = w.rules
      BY <1>4, <3>5, IsWithOwn
    <3>7. IsWith(v3, w1, n, d2, w.bl[n], t, r, i)
      <4>1. CASE WantsDefault(AllowedIPs(f)) /\ fwd /\ "default" \notin skip
        <5>1. NewDefault(f, fwd, skip)
          BY <2>1, <4>1 DEF NewDefault
        <5>2. /\ v3 \in World /\ v3.dev = v2.dev /\ v3.bl = v2.bl /\ v3.ipfwd = v2.ipfwd
              /\ v3.table = t /\ v3.rules = r
          BY <3>6, <4>1, <5>1 DEF AddDefaultRoutes, World
        <5> HIDE DEF v3, t, r
        <5> QED
          BY <3>5, <5>2 DEF IsWith
      <4>2. CASE ~(WantsDefault(AllowedIPs(f)) /\ fwd /\ "default" \notin skip)
        <5>1. ~NewDefault(f, fwd, skip)
          BY <4>2 DEF NewDefault
        <5>2. t = w.table /\ r = w.rules
          BY <5>1 DEF World
        <5>3. v3 = v2
          BY <4>2
        <5> HIDE DEF v3, t, r
        <5> QED
          BY <3>5, <5>2, <5>3
      <4> QED
        BY <4>1, <4>2
    <3> HIDE DEF w2, v3
    <3> QED
      BY <3>1, <3>7
  <2>2. CASE ~OSStack
    <3>1. R = {} /\ ~NewDefault(f, fwd, skip)
      BY <2>2 DEF NewRoutes, NewDefault
    <3>2. t = w.table /\ r = w.rules /\ i = w.ipfwd
      BY <2>2, <3>1 DEF World
    <3>3. d2 = d1
      <4>1. d1.routes \cup R = d1.routes
        BY <3>1
      <4> HIDE DEF R
      <4> QED
        BY <1>1, <4>1 DEF Device
    <3>4. w2 = w1
      BY <2>2
    <3> HIDE DEF w2, d2, t, r, i
    <3> QED
      BY <1>4, <3>2, <3>3, <3>4, IsWithSelf
  <2> QED
    BY <2>1, <2>2
<1> HIDE DEF w2, d2, t, r, i
<1>6. IsWith(w2, w, n, d2, w.bl[n], t, r, i)
  BY <1>2, <1>5, IsWithTrans
<1>7. w2 \in World /\ w2.dev[n] = d2 /\ w2.bl[n] = w.bl[n] /\ w2.table = t /\ w2.rules = r
      /\ w2.ipfwd = i
  BY <1>6, IsWithOwn
<1>8. w3 = WithDev(w2, n, d3)
  BY <1>1, <1>7, NoDevAssumption DEF ApplyShaping, Exists
<1> HIDE DEF w3, d3
<1>9. IsWith(w3, w2, n, d3, w.bl[n], t, r, i)
  BY <1>1, <1>7, <1>8, WithDevIs
<1>10. IsWith(w3, w, n, d3, w.bl[n], t, r, i)
  BY <1>6, <1>9, IsWithTrans
<1>11. w3 \in World /\ w3.dev[n] = d3
  BY <1>10, IsWithOwn
<1>12. w4 = [w3 EXCEPT !.bl = [w3.bl EXCEPT ![n] = dropped]]
  BY <1>1, <1>11, NoDevAssumption DEF ApplyBlacklist, Exists
<1> HIDE DEF w4
<1>13. IsWith(w4, w, n, d3, dropped, t, r, i)
  BY <1>10, <1>11, <1>12 DEF IsWith, World
<1>14. Raised(w, n, f, fwd, skip, shaped, dropped) = w4
  BY DEF Raised, w1, w2, w3, w4
<1> QED
  BY <1>1, <1>13, <1>14 DEF t, r, i

\* What Cleared leaves of a device.
ClearedDev(d, f) ==
  [d EXCEPT !.shaped = {},
            !.routes = IF OSStack THEN @ \ RouteTargets(AllowedIPs(f)) ELSE @]

LEMMA ClearedDevFields ==
  ASSUME NEW d \in Device, NEW f \in Iface
  PROVE  LET e == ClearedDev(d, f)
         IN  /\ e \in Device
             /\ e.up = d.up /\ e.built = d.built /\ e.port = d.port /\ e.mark = d.mark
             /\ e.fwd = d.fwd /\ e.peers = d.peers /\ e.addrs = d.addrs
             /\ e.shaped = {}
<1> DEFINE R == IF OSStack THEN d.routes \ RouteTargets(AllowedIPs(f)) ELSE d.routes
<1>1. R \in SUBSET Prefixes
  BY DEF Device
<1>2. ClearedDev(d, f) = [d EXCEPT !.shaped = {}, !.routes = R]
  BY DEF ClearedDev
<1> HIDE DEF R
<1> QED
  BY <1>1, <1>2 DEF Device

\* Is the pair of policy rules taken away with the routes of f?
DropsRules(f) == OSStack /\ WantsDefault(AllowedIPs(f))

LEMMA ClearedIs ==
  ASSUME NEW w \in World, NEW n \in Names, w.dev[n] \in Device, NEW f \in Iface
  PROVE  IsWith(Cleared(w, n, f), w, n, ClearedDev(w.dev[n], f), {},
                IF DropsRules(f) /\ w.table = n THEN NoName ELSE w.table,
                ~DropsRules(f) /\ w.rules, w.ipfwd)
<1> DEFINE d  == w.dev[n]
           T  == RouteTargets(AllowedIPs(f))
           d1 == [d EXCEPT !.shaped = {}]
           d2 == [d1 EXCEPT !.routes = @ \ T]
           e  == ClearedDev(d, f)
           w1 == ApplyShaping(w, n, {})
           w2 == ApplyBlacklist(w1, n, {})
           w3 == IF OSStack THEN Unplumbed(w2, n, AllowedIPs(f)) ELSE w2
           t  == IF DropsRules(f) /\ w.table = n THEN NoName ELSE w.table
           r  == ~DropsRules(f) /\ w.rules
<1>1. /\ d1 \in Device /\ d2 \in Device
      /\ OSStack => e = d2
      /\ ~OSStack => e = d1
  <2> HIDE DEF T
  <2>1. d1 \in Device /\ d2 \in Device
    BY DEF Device
  <2>2. e = [d EXCEPT !.shaped = {}, !.routes = IF OSStack THEN @ \ T ELSE @]
    BY DEF ClearedDev, T
  <2>3. CASE OSStack
    BY <2>1, <2>2, <2>3 DEF Device
  <2>4. CASE ~OSStack
    BY <2>1, <2>2, <2>4 DEF Device
  <2> QED
    BY <2>1, <2>3, <2>4
<1>2. w1 = WithDev(w, n, d1)
  BY NoDevAssumption DEF ApplyShaping, Exists
<1> HIDE DEF w1, d1
<1>3. IsWith(w1, w, n, d1, w.bl[n], w.table, w.rules, w.ipfwd)
  BY <1>1, <1>2, WithDevIs
<1>4. w1 \in World /\ w1.dev[n] = d1
  BY <1>3, IsWithOwn
<1>5. w2 = [w1 EXCEPT !.bl = [w1.bl EXCEPT ![n] = {}]]
  BY <1>1, <1>4, NoDevAssumption DEF ApplyBlacklist, Exists
<1> HIDE DEF w2
<1>6. IsWith(w2, w, n, d1, {}, w.table, w.rules, w.ipfwd)
  BY <1>3, <1>4, <1>5 DEF IsWith, World
<1>7. /\ w2 \in World /\ w2.dev[n] = d1 /\ w2.bl[n] = {}
      /\ w2.table = w.table /\ w2.rules = w.rules /\ w2.ipfwd = w.ipfwd
  BY <1>6, IsWithOwn
<1>8. IsWith(w3, w, n, e, {}, t, r, w.ipfwd)
  <2>1. CASE OSStack
    <3> DEFINE v1 == RemoveRoutes(w2, n, AllowedIPs(f))
               v2 == IF WantsDefault(AllowedIPs(f)) THEN RemoveDefaultRoutes(v1, n) ELSE v1
    <3>1. w3 = v2
      BY <2>1 DEF Unplumbed
    <3>2. v1 = WithDev(w2, n, d2)
      BY <1>1, <1>7, NoDevAssumption DEF RemoveRoutes, Exists
    <3> HIDE DEF v1, d2, e, w3
    <3>3. IsWith(v1, w2, n, d2, {}, w.table, w.rules, w.ipfwd)
      BY <1>1, <1>7, <3>2, WithDevIs
    <3>4. IsWith(v1, w, n, e, {}, w.table, w.rules, w.ipfwd)
      BY <1>1, <1>6, <2>1, <3>3, IsWithTrans
    <3>5. v1 \in World /\ v1.table = w.table
      BY <3>4 DEF IsWith
    <3>6. CASE WantsDefault(AllowedIPs(f))
      <4>1. DropsRules(f)
        BY <2>1, <3>6 DEF DropsRules
      <4>2. /\ v2 \in World /\ v2.dev = v1.dev /\ v2.bl = v1.bl /\ v2.ipfwd = v1.ipfwd
            /\ v2.table = t /\ v2.rules = r
        BY <3>5, <3>6, <4>1 DEF RemoveDefaultRoutes, DropTable, World
      <4> HIDE DEF v2, t, r
      <4> QED
        BY <3>1, <3>4, <4>2 DEF IsWith
    <3>7. CASE ~WantsDefault(AllowedIPs(f))
      <4>1. ~DropsRules(f)
        BY <3>7 DEF DropsRules
      <4>2. t = w.table /\ r = w.rules
        BY <4>1 DEF World
      <4>3. v2 = v1
        BY <3>7
      <4> HIDE DEF v2, t, r
      <4> QED
        BY <3>1, <3>4, <4>2, <4>3
    <3> QED
      BY <3>6, <3>7
  <2>2. CASE ~OSStack
    <3>1. w3 = w2 /\ e = d1
      BY <1>1, <2>2
    <3>2. t = w.table /\ r = w.rules
      BY <2>2 DEF DropsRules, World
    <3> HIDE DEF w3, e, t, r
    <3> QED
      BY <1>6, <3>1, <3>2
  <2> QED
    BY <2>1, <2>2
<1>9. Cleared(w, n, f) = w3
  BY DEF Cleared, w1, w2
<1> QED
  BY <1>8, <1>9

LEMMA DownIs ==
  ASSUME NEW w \in World, NEW n \in Names, w.dev[n] \in Device
  PROVE  IsWith(Down(w, n), w, n, [w.dev[n] EXCEPT !.up = FALSE, !.routes = {}], w.bl[n],
                IF w.table = n THEN NoName ELSE w.table, w.rules, w.ipfwd)
<1> DEFINE d == [w.dev[n] EXCEPT !.up = FALSE, !.routes = {}]
           u == WithDev(w, n, d)
<1>1. d \in Device
  BY DEF Device
<1> HIDE DEF d
<1>2. IsWith(u, w, n, d, w.bl[n], w.table, w.rules, w.ipfwd)
  BY <1>1, WithDevIs
<1>3. u \in World /\ u.table = w.table
  BY <1>2 DEF IsWith
<1>4. Down(w, n) = DropTable(u, n)
  BY DEF Down, d
<1> HIDE DEF u
<1>5. LET v == DropTable(u, n)
      IN  /\ v \in World /\ v.dev = u.dev /\ v.bl = u.bl /\ v.rules = u.rules
          /\ v.ipfwd = u.ipfwd /\ v.table = IF u.table = n THEN NoName ELSE u.table
  BY <1>3 DEF DropTable, World
<1>6. IsWith(Down(w, n), w, n, d, w.bl[n], IF w.table = n THEN NoName ELSE w.table,
             w.rules, w.ipfwd)
  BY <1>2, <1>3, <1>4, <1>5 DEF IsWith
<1> QED
  BY <1>6 DEF d

\* The device and the routing state that a complete application of f makes of
\* those it finds.
FullDev(d, f, fwd, els) ==
  IF f.up THEN RaisedDev(ReadyDev(d, f, fwd), ShapingSpecs(f), NewRoutes(f, {}, els))
  ELSE [ClearedDev(ReadyDev(d, f, fwd), f) EXCEPT !.up = FALSE, !.routes = {}]

FullTable(t, n, f, fwd) ==
  IF f.up THEN IF NewDefault(f, fwd, {}) /\ t = NoName THEN n ELSE t
  ELSE IF t = n THEN NoName ELSE t

FullRules(r, f, fwd) == IF f.up THEN NewDefault(f, fwd, {}) \/ r ELSE ~DropsRules(f) /\ r

FullForwarding(i, f, fwd) == IF f.up THEN (OSStack /\ fwd) \/ i ELSE i

IsFull(v, w, n, f, c) ==
  IsWith(v, w, n, FullDev(Found(w, n), f, c.fwd, RoutedElsewhere(w, n)), IF f.up THEN c.bl ELSE {},
         FullTable(w.table, n, f, c.fwd), FullRules(w.rules, f, c.fwd),
         FullForwarding(w.ipfwd, f, c.fwd))

LEMMA AppliedIsFull ==
  ASSUME NEW c \in Config, NEW n \in Names, NEW f \in Iface, NEW w \in World, NEW v,
         Applied(c, n, f, w, v, FALSE)
  PROVE  IsFull(v, w, n, f, c)
<1> DEFINE ready == Prepared(w, n, f, c.fwd, "none")
           d == ReadyDev(Found(w, n), f, c.fwd)
           els == RoutedElsewhere(w, n)
<1>1. c.fwd \in BOOLEAN /\ c.bl \in SUBSET Entries /\ f.up \in BOOLEAN
      /\ ShapingSpecs(f) \in SUBSET SUBSET Prefixes
  BY ShapingSpecsType DEF Config, Iface
<1>2. IsWith(ready, w, n, d, w.bl[n], w.table, w.rules, w.ipfwd) /\ d \in Device
  <2>1. StoppedDev(Found(w, n), f, c.fwd, "none") = d
    BY DEF StoppedDev
  <2> HIDE DEF d
  <2> QED
    BY <1>1, <2>1, PreparedIs
<1>3. \/ f.up /\ v = Raised(ready, n, f, c.fwd, {}, ShapingSpecs(f), c.bl)
      \/ ~f.up /\ v = Down(Cleared(ready, n, f), n)
  BY DEF Applied, SkipOutcomes, ShapedOutcomes, DroppedOutcomes
<1> HIDE DEF ready, d
<1>4. /\ ready \in World /\ ready.dev[n] = d /\ ready.bl[n] = w.bl[n]
      /\ ready.table = w.table /\ ready.rules = w.rules /\ ready.ipfwd = w.ipfwd
  BY <1>2, IsWithOwn
<1>5. CASE f.up
  <2>1. /\ FullDev(Found(w, n), f, c.fwd, els) =
             RaisedDev(d, ShapingSpecs(f), NewRoutes(f, {}, els))
        /\ (IF f.up THEN c.bl ELSE {}) = c.bl
        /\ FullTable(w.table, n, f, c.fwd) =
             IF NewDefault(f, c.fwd, {}) /\ w.table = NoName THEN n ELSE w.table
        /\ FullRules(w.rules, f, c.fwd) = (NewDefault(f, c.fwd, {}) \/ w.rules)
        /\ FullForwarding(w.ipfwd, f, c.fwd) =
             ((OSStack /\ c.fwd /\ "forwarding" \notin {}) \/ w.ipfwd)
    BY <1>5 DEF FullDev, FullTable, FullRules, FullForwarding, d
  <2>2. IsWith(v, ready, n, RaisedDev(d, ShapingSpecs(f), NewRoutes(f, {}, els)), c.bl,
               IF NewDefault(f, c.fwd, {}) /\ w.table = NoName THEN n ELSE w.table,
               NewDefault(f, c.fwd, {}) \/ w.rules,
               (OSStack /\ c.fwd /\ "forwarding" \notin {}) \/ w.ipfwd)
    <3>1. RoutedElsewhere(ready, n) = els
      BY <1>2, IsWithElsewhere
    <3> QED
      BY <1>1, <1>2, <1>3, <1>4, <1>5, <3>1, RaisedIs
  <2>3. IsWith(v, ready, n, FullDev(Found(w, n), f, c.fwd, els), IF f.up THEN c.bl ELSE {},
               FullTable(w.table, n, f, c.fwd), FullRules(w.rules, f, c.fwd),
               FullForwarding(w.ipfwd, f, c.fwd))
    BY <2>1, <2>2
  <2> QED
    BY <1>2, <2>3, IsWithTrans DEF IsFull
<1>6. CASE ~f.up
  <2> DEFINE u == Cleared(ready, n, f)
             e == ClearedDev(d, f)
             t == IF DropsRules(f) /\ w.table = n THEN NoName ELSE w.table
             r == ~DropsRules(f) /\ w.rules
  <2>1. IsWith(u, ready, n, e, {}, t, r, w.ipfwd)
    BY <1>2, <1>4, ClearedIs
  <2>2. e \in Device
    BY <1>2, ClearedDevFields
  <2>3. v = Down(u, n)
    BY <1>3, <1>6
  <2>4. FullTable(w.table, n, f, c.fwd) = IF t = n THEN NoName ELSE t
    BY <1>6, DriverAssumption DEF FullTable
  <2>5. /\ FullRules(w.rules, f, c.fwd) = r /\ FullForwarding(w.ipfwd, f, c.fwd) = w.ipfwd
        /\ FullDev(Found(w, n), f, c.fwd, els) = [e EXCEPT !.up = FALSE, !.routes = {}]
        /\ (IF f.up THEN c.bl ELSE {}) = {}
    BY <1>6 DEF FullRules, FullForwarding, FullDev, d
  <2> HIDE DEF u, e, t, r
  <2>6. IsWith(u, w, n, e, {}, t, r, w.ipfwd)
    BY <1>2, <2>1, IsWithTrans
  <2>7. /\ u \in World /\ u.dev[n] = e /\ u.bl[n] = {}
        /\ u.table = t /\ u.rules = r /\ u.ipfwd = w.ipfwd
    BY <2>6, IsWithOwn
  <2>8. IsWith(v, u, n, [e EXCEPT !.up = FALSE, !.routes = {}], {},
               IF t = n THEN NoName ELSE t, r, w.ipfwd)
    BY <2>2, <2>3, <2>7, DownIs
  <2>9. IsWith(v, u, n, FullDev(Found(w, n), f, c.fwd, els), IF f.up THEN c.bl ELSE {},
               FullTable(w.table, n, f, c.fwd), FullRules(w.rules, f, c.fwd),
               FullForwarding(w.ipfwd, f, c.fwd))
    BY <2>4, <2>5, <2>8
  <2> QED
    BY <2>6, <2>9, IsWithTrans DEF IsFull
<1> QED
  BY <1>1, <1>5, <1>6

\* The addresses a device has once f was applied to it.
AddrsOf(d, f) ==
  IF f.addr = NoHost THEN d.addrs
  ELSE IF OSStack THEN d.addrs \cup {f.addr} ELSE IF d.built THEN d.addrs ELSE {f.addr}

\* e is d with a part of what an application of f does to it.
PartOf(e, d, f, els) ==
  /\ e \in Device
  /\ (IF f.port > 0 THEN f.port ELSE e.port) = (IF f.port > 0 THEN f.port ELSE d.port)
  /\ (WantsDefault(AllowedIPs(f)) \/ e.mark) = (WantsDefault(AllowedIPs(f)) \/ d.mark)
  /\ AddrsOf(e, f) = AddrsOf(d, f)
  /\ IF f.up THEN e.routes \cup NewRoutes(f, {}, els) = d.routes \cup NewRoutes(f, {}, els)
     ELSE e.built = d.built

\* Field by field, e is what a complete application of f makes of d.
HasFullFields(e, d, f, fwd, els) ==
  /\ e \in Device
  /\ e.up = f.up
  /\ e.port = IF f.port > 0 THEN f.port ELSE d.port
  /\ e.mark = (WantsDefault(AllowedIPs(f)) \/ d.mark)
  /\ e.fwd = fwd /\ e.peers = ToDriverConfig(f, fwd).peers
  /\ e.addrs = AddrsOf(d, f)
  /\ e.built = IF f.up THEN ~OSStack ELSE d.built
  /\ e.shaped = IF f.up THEN ShapingSpecs(f) ELSE {}
  /\ e.routes = IF f.up THEN d.routes \cup NewRoutes(f, {}, els) ELSE {}

LEMMA FullDevFields ==
  ASSUME NEW d \in Device, NEW f \in Iface, NEW fwd \in BOOLEAN, NEW els
  PROVE  HasFullFields(FullDev(d, f, fwd, els), d, f, fwd, els)
<1> DEFINE p == ConfiguredDev(d, f, fwd)
           q == ReadyDev(d, f, fwd)
           x == RaisedDev(q, ShapingSpecs(f), NewRoutes(f, {}, els))
           y == ClearedDev(q, f)
           z == [y EXCEPT !.up = FALSE, !.routes = {}]
<1>1. /\ p \in Device
      /\ p.up = d.up /\ p.built = d.built /\ p.addrs = d.addrs
      /\ p.shaped = d.shaped /\ p.routes = d.routes
      /\ p.port = IF f.port > 0 THEN f.port ELSE d.port
      /\ p.mark = (WantsDefault(AllowedIPs(f)) \/ d.mark)
      /\ p.fwd = fwd /\ p.peers = ToDriverConfig(f, fwd).peers
  BY ConfiguredDevFields
<1>2. q = AddressedDev(p, f)
  BY DEF ReadyDev
<1> HIDE DEF p, q
<1>3. /\ q \in Device
      /\ q.up = p.up /\ q.built = p.built /\ q.port = p.port /\ q.mark = p.mark
      /\ q.fwd = p.fwd /\ q.peers = p.peers
      /\ q.shaped = p.shaped /\ q.routes = p.routes
      /\ q.addrs = AddrsOf(p, f)
  BY <1>1, <1>2, AddressedDevFields DEF AddrsOf
<1>4. AddrsOf(p, f) = AddrsOf(d, f)
  BY <1>1 DEF AddrsOf
<1>5. f.up \in BOOLEAN /\ ShapingSpecs(f) \in SUBSET SUBSET Prefixes
      /\ NewRoutes(f, {}, els) \in SUBSET Prefixes
  BY ShapingSpecsType, NewRoutesType DEF Iface
<1>6. /\ x \in Device
      /\ x.up = TRUE /\ x.built = ~OSStack /\ x.port = q.port /\ x.mark = q.mark
      /\ x.fwd = q.fwd /\ x.peers = q.peers /\ x.addrs = q.addrs
      /\ x.shaped = ShapingSpecs(f) /\ x.routes = q.routes \cup NewRoutes(f, {}, els)
  <2> DEFINE S == ShapingSpecs(f)
             N == NewRoutes(f, {}, els)
  <2>1. S \in SUBSET SUBSET Prefixes /\ N \in SUBSET Prefixes
    BY <1>5
  <2>2. x = RaisedDev(q, S, N)
    OBVIOUS
  <2> HIDE DEF S, N, x
  <2>3. (~OSStack) \in BOOLEAN
    BY DEF OSStack
  <2>4. q.routes \cup N \in SUBSET Prefixes
    BY <1>3, <2>1 DEF Device
  <2>5. /\ x \in Device
        /\ x.up = TRUE /\ x.built = ~OSStack /\ x.port = q.port /\ x.mark = q.mark
        /\ x.fwd = q.fwd /\ x.peers = q.peers /\ x.addrs = q.addrs
        /\ x.shaped = S /\ x.routes = q.routes \cup N
    BY <1>3, <2>1, <2>2, <2>3, <2>4 DEF RaisedDev, Device
  <2> QED
    BY <2>5 DEF S, N
<1>7. /\ z \in Device
      /\ z.up = FALSE /\ z.built = q.built /\ z.port = q.port /\ z.mark = q.mark
      /\ z.fwd = q.fwd /\ z.peers = q.peers /\ z.addrs = q.addrs
      /\ z.shaped = {} /\ z.routes = {}
  <2>1. /\ y \in Device
        /\ y.up = q.up /\ y.built = q.built /\ y.port = q.port /\ y.mark = q.mark
        /\ y.fwd = q.fwd /\ y.peers = q.peers /\ y.addrs = q.addrs
        /\ y.shaped = {}
    BY <1>3, ClearedDevFields
  <2> HIDE DEF y
  <2> QED
    BY <2>1 DEF Device
<1>8. FullDev(d, f, fwd, els) = IF f.up THEN x ELSE z
  BY DEF FullDev, q
<1> HIDE DEF x, z
<1>9. CASE f.up
  <2>1. FullDev(d, f, fwd, els) = x
    BY <1>8, <1>9
  <2> QED
    BY <1>1, <1>3, <1>4, <1>5, <1>6, <1>9, <2>1 DEF HasFullFields
<1>10. CASE ~f.up
  <2>1. FullDev(d, f, fwd, els) = z
    BY <1>8, <1>10
  <2> QED
    BY <1>1, <1>3, <1>4, <1>5, <1>7, <1>10, <2>1 DEF HasFullFields
<1> QED
  BY <1>5, <1>9, <1>10

LEMMA PartOfFull ==
  ASSUME NEW d \in Device, NEW e, NEW f \in Iface, NEW fwd \in BOOLEAN,
         NEW els, PartOf(e, d, f, els)
  PROVE  FullDev(e, f, fwd, els) = FullDev(d, f, fwd, els)
<1>1. e \in Device
  BY DEF PartOf
<1> DEFINE x == FullDev(e, f, fwd, els)
           y == FullDev(d, f, fwd, els)
<1>2. HasFullFields(x, e, f, fwd, els)
  BY <1>1, FullDevFields
<1>3. HasFullFields(y, d, f, fwd, els)
  BY FullDevFields
<1> HIDE DEF x, y
<1>4. x.port = y.port /\ x.addrs = y.addrs
  BY <1>2, <1>3 DEF HasFullFields, PartOf
<1>5. x.mark = y.mark
  BY <1>2, <1>3 DEF HasFullFields, PartOf
<1>6. x.built = y.built
  BY <1>2, <1>3 DEF HasFullFields, PartOf
<1>7. x.routes = y.routes
  BY <1>2, <1>3 DEF HasFullFields, PartOf
<1>8. x.up = y.up /\ x.fwd = y.fwd /\ x.peers = y.peers /\ x.shaped = y.shaped
  BY <1>2, <1>3 DEF HasFullFields
<1>9. x = y
  BY <1>2, <1>3, <1>4, <1>5, <1>6, <1>7, <1>8, DeviceSame DEF HasFullFields
<1> QED
  BY <1>9 DEF x, y

\* v is w with a part of what applying f to n under c does to it.
IsMidway(v, w, n, f, c) ==
  \E e, b, t, r, i :
    /\ IsWith(v, w, n, e, b, t, r, i)
    /\ PartOf(e, Found(w, n), f, RoutedElsewhere(w, n))
    /\ FullTable(t, n, f, c.fwd) = FullTable(w.table, n, f, c.fwd)
    /\ FullRules(r, f, c.fwd) = FullRules(w.rules, f, c.fwd)
    /\ FullForwarding(i, f, c.fwd) = FullForwarding(w.ipfwd, f, c.fwd)

LEMMA MidwayIsFull ==
  ASSUME NEW c \in Config, NEW n \in Names, NEW f \in Iface, NEW w \in World, NEW v, NEW u,
         IsMidway(v, w, n, f, c), IsFull(u, v, n, f, c)
  PROVE  IsFull(u, w, n, f, c)
<1> DEFINE els == RoutedElsewhere(w, n)
<1>1. PICK e, b, t, r, i :
        /\ IsWith(v, w, n, e, b, t, r, i)
        /\ PartOf(e, Found(w, n), f, els)
        /\ FullTable(t, n, f, c.fwd) = FullTable(w.table, n, f, c.fwd)
        /\ FullRules(r, f, c.fwd) = FullRules(w.rules, f, c.fwd)
        /\ FullForwarding(i, f, c.fwd) = FullForwarding(w.ipfwd, f, c.fwd)
  BY DEF IsMidway
<1>2. /\ v \in World /\ v.dev[n] = e /\ v.table = t /\ v.rules = r /\ v.ipfwd = i
  BY <1>1, IsWithOwn
<1>3. Found(v, n) = e
  BY <1>1, <1>2, NoDevAssumption DEF Found, Exists, PartOf
<1>4. c.fwd \in BOOLEAN /\ Found(w, n) \in Device
  BY FoundType DEF Config
<1>5. FullDev(e, f, c.fwd, els) = FullDev(Found(w, n), f, c.fwd, els)
  BY <1>1, <1>4, PartOfFull
<1>6. IsWith(u, v, n, FullDev(Found(w, n), f, c.fwd, els), IF f.up THEN c.bl ELSE {},
             FullTable(w.table, n, f, c.fwd), FullRules(w.rules, f, c.fwd),
             FullForwarding(w.ipfwd, f, c.fwd))
  <2>1. RoutedElsewhere(v, n) = els
    BY <1>1, IsWithElsewhere
  <2> QED
    BY <1>1, <1>2, <1>3, <1>5, <2>1 DEF IsFull
<1> QED
  BY <1>1, <1>6, IsWithTrans DEF IsFull

\* Whatever a half-done application leaves of a device is a part of the whole.
LEMMA FoundIsPart ==
  ASSUME NEW d \in Device, NEW f \in Iface, NEW els PROVE PartOf(d, d, f, els)
BY DEF PartOf

LEMMA ConfiguredIsPart ==
  ASSUME NEW d \in Device, NEW f \in Iface, NEW fwd \in BOOLEAN, NEW els
  PROVE  PartOf(ConfiguredDev(d, f, fwd), d, f, els)
<1> DEFINE p == ConfiguredDev(d, f, fwd)
<1>1. /\ p \in Device
      /\ p.up = d.up /\ p.built = d.built /\ p.addrs = d.addrs
      /\ p.shaped = d.shaped /\ p.routes = d.routes
      /\ p.port = IF f.port > 0 THEN f.port ELSE d.port
      /\ p.mark = (WantsDefault(AllowedIPs(f)) \/ d.mark)
      /\ p.fwd = fwd /\ p.peers = ToDriverConfig(f, fwd).peers
  BY ConfiguredDevFields
<1> HIDE DEF p
<1>2. AddrsOf(p, f) = AddrsOf(d, f)
  BY <1>1 DEF AddrsOf
<1>3. (WantsDefault(AllowedIPs(f)) \/ p.mark) = (WantsDefault(AllowedIPs(f)) \/ d.mark)
  BY <1>1
<1>4. (IF f.port > 0 THEN f.port ELSE p.port) = (IF f.port > 0 THEN f.port ELSE d.port)
  BY <1>1
<1>5. PartOf(p, d, f, els)
  BY <1>1, <1>2, <1>3, <1>4 DEF PartOf
<1> QED
  BY <1>5 DEF p

\* The fields of the device that is ready to be raised or taken down.
HasReadyFields(e, d, f) ==
  /\ e \in Device
  /\ e.built = d.built /\ e.routes = d.routes
  /\ e.port = IF f.port > 0 THEN f.port ELSE d.port
  /\ e.mark = (WantsDefault(AllowedIPs(f)) \/ d.mark)
  /\ e.addrs = AddrsOf(d, f)

LEMMA ReadyDevFields ==
  ASSUME NEW d \in Device, NEW f \in Iface, NEW fwd \in BOOLEAN
  PROVE  HasReadyFields(ReadyDev(d, f, fwd), d, f)
<1> DEFINE p == ConfiguredDev(d, f, fwd)
           q == ReadyDev(d, f, fwd)
<1>1. /\ p \in Device
      /\ p.up = d.up /\ p.built = d.built /\ p.addrs = d.addrs
      /\ p.shaped = d.shaped /\ p.routes = d.routes
      /\ p.port = IF f.port > 0 THEN f.port ELSE d.port
      /\ p.mark = (WantsDefault(AllowedIPs(f)) \/ d.mark)
      /\ p.fwd = fwd /\ p.peers = ToDriverConfig(f, fwd).peers
  BY ConfiguredDevFields
<1>2. q = AddressedDev(p, f)
  BY DEF ReadyDev
<1> HIDE DEF p, q
<1>3. /\ q \in Device
      /\ q.up = p.up /\ q.built = p.built /\ q.port = p.port /\ q.mark = p.mark
      /\ q.fwd = p.fwd /\ q.peers = p.peers
      /\ q.shaped = p.shaped /\ q.routes = p.routes
      /\ q.addrs = AddrsOf(p, f)
  BY <1>1, <1>2, AddressedDevFields DEF AddrsOf
<1>4. AddrsOf(p, f) = AddrsOf(d, f)
  BY <1>1 DEF AddrsOf
<1>5. HasReadyFields(q, d, f)
  BY <1>1, <1>3, <1>4 DEF HasReadyFields
<1> QED
  BY <1>5 DEF q

\* A device that goes on from the ready one, its routes aside, and is rebuilt
\* only when the interface is up.
LEMMA ReadyIsPart ==
  ASSUME NEW d \in Device, NEW f \in Iface, NEW q, HasReadyFields(q, d, f),
         NEW els, NEW e \in Device,
         /\ e.port = q.port /\ e.mark = q.mark /\ e.addrs = q.addrs
         /\ e.built = q.built \/ (f.up /\ e.built = ~OSStack)
         /\ f.up => e.routes \cup NewRoutes(f, {}, els) = q.routes \cup NewRoutes(f, {}, els)
  PROVE  PartOf(e, d, f, els)
<1>1. (IF f.port > 0 THEN f.port ELSE e.port) = (IF f.port > 0 THEN f.port ELSE d.port)
  BY DEF HasReadyFields
<1>2. (WantsDefault(AllowedIPs(f)) \/ e.mark) = (WantsDefault(AllowedIPs(f)) \/ d.mark)
  BY DEF HasReadyFields
<1>3. e.addrs = AddrsOf(d, f)
  BY DEF HasReadyFields
<1>4. AddrsOf(e, f) = AddrsOf(d, f)
  <2>1. CASE f.addr = NoHost
    BY <1>3, <2>1 DEF AddrsOf
  <2>2. CASE f.addr # NoHost /\ OSStack
    BY <1>3, <2>2 DEF AddrsOf
  <2>3. CASE f.addr # NoHost /\ ~OSStack
    <3>1. AddrsOf(d, f) = IF d.built THEN d.addrs ELSE {f.addr}
      BY <2>3 DEF AddrsOf
    <3>2. AddrsOf(e, f) = IF e.built THEN e.addrs ELSE {f.addr}
      BY <2>3 DEF AddrsOf
    <3>3. e.built = d.built \/ e.built = TRUE
      BY <2>3 DEF HasReadyFields
    <3> QED
      BY <1>3, <3>1, <3>2, <3>3
  <2> QED
    BY <2>1, <2>2, <2>3
<1>5. CASE f.up
  <2>1. e.routes \cup NewRoutes(f, {}, els) = d.routes \cup NewRoutes(f, {}, els)
    BY <1>5 DEF HasReadyFields
  <2> QED
    BY <1>1, <1>2, <1>4, <1>5, <2>1 DEF PartOf
<1>6. CASE ~f.up
  <2>1. e.built = d.built
    BY <1>6 DEF HasReadyFields
  <2> QED
    BY <1>1, <1>2, <1>4, <1>6, <2>1 DEF PartOf
<1> QED
  BY <1>5, <1>6

LEMMA RaisedIsPart ==
  ASSUME NEW d \in Device, NEW f \in Iface, f.up, NEW q, HasReadyFields(q, d, f),
         NEW shaped \in SUBSET SUBSET Prefixes, NEW skip, NEW els
  PROVE  PartOf(RaisedDev(q, shaped, NewRoutes(f, skip, els)), d, f, els)
<1> DEFINE N == NewRoutes(f, skip, els)
           e == RaisedDev(q, shaped, N)
<1>1. N \in SUBSET Prefixes /\ N \subseteq NewRoutes(f, {}, els)
  BY NewRoutesType DEF NewRoutes
<1>2. q \in Device
  BY DEF HasReadyFields
<1> HIDE DEF N
<1>3. (~OSStack) \in BOOLEAN
  BY DEF OSStack
<1>4. q.routes \cup N \in SUBSET Prefixes
  BY <1>1, <1>2 DEF Device
<1>5. /\ e \in Device
      /\ e.built = ~OSStack /\ e.port = q.port /\ e.mark = q.mark
      /\ e.addrs = q.addrs /\ e.routes = q.routes \cup N
  BY <1>2, <1>3, <1>4 DEF RaisedDev, Device
<1> HIDE DEF e
<1>6. e.routes \cup NewRoutes(f, {}, els) = q.routes \cup NewRoutes(f, {}, els)
  BY <1>1, <1>5
<1>7. PartOf(e, d, f, els)
  BY <1>2, <1>5, <1>6, ReadyIsPart
<1> QED
  BY <1>7 DEF e, N

LEMMA ClearedIsPart ==
  ASSUME NEW d \in Device, NEW f \in Iface, ~f.up, NEW q, HasReadyFields(q, d, f),
         NEW els
  PROVE  PartOf(ClearedDev(q, f), d, f, els)
<1> DEFINE e == ClearedDev(q, f)
<1>1. q \in Device
  BY DEF HasReadyFields
<1>2. /\ e \in Device
      /\ e.built = q.built /\ e.port = q.port /\ e.mark = q.mark /\ e.addrs = q.addrs
  BY <1>1, ClearedDevFields
<1> HIDE DEF e
<1>3. PartOf(e, d, f, els)
  BY <1>1, <1>2, ReadyIsPart
<1> QED
  BY <1>3 DEF e

\* And so is what it leaves of the routing state.
IsPartOfHost(t, r, i, w, n, f, c) ==
  /\ FullTable(t, n, f, c.fwd) = FullTable(w.table, n, f, c.fwd)
  /\ FullRules(r, f, c.fwd) = FullRules(w.rules, f, c.fwd)
  /\ FullForwarding(i, f, c.fwd) = FullForwarding(w.ipfwd, f, c.fwd)

LEMMA RaisedHostIsPart ==
  ASSUME NEW w \in World, NEW n \in Names, NEW f \in Iface, f.up, NEW c \in Config, NEW skip
  PROVE  IsPartOfHost(IF NewDefault(f, c.fwd, skip) /\ w.table = NoName THEN n ELSE w.table,
                      NewDefault(f, c.fwd, skip) \/ w.rules,
                      (OSStack /\ c.fwd /\ "forwarding" \notin skip) \/ w.ipfwd, w, n, f, c)
<1>1. NewDefault(f, c.fwd, skip) => NewDefault(f, c.fwd, {})
  BY DEF NewDefault
<1> QED
  BY <1>1, DriverAssumption DEF IsPartOfHost, FullTable, FullRules, FullForwarding

LEMMA ClearedHostIsPart ==
  ASSUME NEW w \in World, NEW n \in Names, NEW f \in Iface, ~f.up, NEW c \in Config
  PROVE  IsPartOfHost(IF DropsRules(f) /\ w.table = n THEN NoName ELSE w.table,
                      ~DropsRules(f) /\ w.rules, w.ipfwd, w, n, f, c)
BY DriverAssumption DEF IsPartOfHost, FullTable, FullRules, FullForwarding

LEMMA FullHostIsPart ==
  ASSUME NEW w \in World, NEW n \in Names, NEW f \in Iface, ~f.up, NEW c \in Config
  PROVE  IsPartOfHost(FullTable(w.table, n, f, c.fwd), FullRules(w.rules, f, c.fwd),
                      FullForwarding(w.ipfwd, f, c.fwd), w, n, f, c)
BY DriverAssumption DEF IsPartOfHost, FullTable, FullRules, FullForwarding

LEMMA MidwayWith ==
  ASSUME NEW v, NEW w, NEW n, NEW f, NEW c, NEW e, NEW b, NEW t, NEW r, NEW i,
         IsWith(v, w, n, e, b, t, r, i), PartOf(e, Found(w, n), f, RoutedElsewhere(w, n)),
         IsPartOfHost(t, r, i, w, n, f, c)
  PROVE  IsMidway(v, w, n, f, c)
BY DEF IsMidway, IsPartOfHost

LEMMA StoppedIsMidway ==
  ASSUME NEW c \in Config, NEW n \in Names, NEW f \in Iface, NEW w \in World, NEW v,
         ApplyStopped(c, n, f, w, v)
  PROVE  v = w \/ IsMidway(v, w, n, f, c)
<1>1. PICK call \in HardCalls :
        v = IF call = "link" /\ ~f.up THEN Cleared(Prepared(w, n, f, c.fwd, call), n, f)
            ELSE Prepared(w, n, f, c.fwd, call)
  BY DEF ApplyStopped
<1> DEFINE ready == Prepared(w, n, f, c.fwd, call)
           d == Found(w, n)
           s == StoppedDev(d, f, c.fwd, call)
           els == RoutedElsewhere(w, n)
<1>2. c.fwd \in BOOLEAN /\ d \in Device
  BY FoundType DEF Config
<1>3. CASE call = "create"
  BY <1>1, <1>3 DEF Prepared
<1>4. CASE call # "create"
  <2>1. IsWith(ready, w, n, s, w.bl[n], w.table, w.rules, w.ipfwd) /\ s \in Device
    BY <1>2, <1>4, PreparedIs
  <2>2. PartOf(s, d, f, els) /\ (call = "link" => HasReadyFields(s, d, f))
    <3> HIDE DEF d
    <3>1. CASE call = "configure"
      BY <1>2, <3>1, FoundIsPart DEF StoppedDev
    <3>2. CASE call = "addresses"
      BY <1>2, <3>2, ConfiguredIsPart DEF StoppedDev
    <3>3. CASE call = "link"
      <4>1. s = ReadyDev(d, f, c.fwd)
        BY <3>3 DEF StoppedDev
      <4> HIDE DEF s
      <4>2. HasReadyFields(s, d, f)
        BY <1>2, <4>1, ReadyDevFields
      <4>3. s \in Device
        BY <4>2 DEF HasReadyFields
      <4>4. PartOf(s, d, f, els)
        BY <1>2, <4>2, <4>3, ReadyIsPart
      <4> QED
        BY <4>2, <4>4
    <3> QED
      BY <1>4, <3>1, <3>2, <3>3 DEF HardCalls
  <2> HIDE DEF ready, s
  <2>3. CASE call = "link" /\ ~f.up
    <3>1. /\ ready \in World /\ ready.dev[n] = s
          /\ ready.table = w.table /\ ready.rules = w.rules /\ ready.ipfwd = w.ipfwd
      BY <2>1, IsWithOwn
    <3>2. v = Cleared(ready, n, f)
      BY <1>1, <2>3 DEF ready
    <3>3. IsWith(v, ready, n, ClearedDev(s, f), {},
                 IF DropsRules(f) /\ w.table = n THEN NoName ELSE w.table,
                 ~DropsRules(f) /\ w.rules, w.ipfwd)
      BY <2>1, <3>1, <3>2, ClearedIs
    <3>4. IsWith(v, w, n, ClearedDev(s, f), {},
                 IF DropsRules(f) /\ w.table = n THEN NoName ELSE w.table,
                 ~DropsRules(f) /\ w.rules, w.ipfwd)
      BY <2>1, <3>3, IsWithTrans
    <3>5. PartOf(ClearedDev(s, f), d, f, els)
      BY <1>2, <2>2, <2>3, ClearedIsPart
    <3> QED
      BY <2>3, <3>4, <3>5, ClearedHostIsPart, MidwayWith
  <2>4. CASE ~(call = "link" /\ ~f.up)
    <3>1. v = ready
      BY <1>1, <2>4 DEF ready
    <3>2. IsPartOfHost(w.table, w.rules, w.ipfwd, w, n, f, c)
      BY DEF IsPartOfHost
    <3> QED
      BY <2>1, <2>2, <3>1, <3>2, MidwayWith
  <2> QED
    BY <2>3, <2>4
<1> QED
  BY <1>3, <1>4

LEMMA AppliedIsMidway ==
  ASSUME NEW c \in Config, NEW n \in Names, NEW f \in Iface, NEW w \in World, NEW v,
         NEW partial \in BOOLEAN, Applied(c, n, f, w, v, partial)
  PROVE  IsMidway(v, w, n, f, c)
<1> DEFINE d == Found(w, n)
           els == RoutedElsewhere(w, n)
<1>1. c.fwd \in BOOLEAN /\ c.bl \in SUBSET Entries /\ f.up \in BOOLEAN /\ d \in Device
      /\ ShapingSpecs(f) \in SUBSET SUBSET Prefixes
  BY FoundType, ShapingSpecsType DEF Config, Iface
<1>2. CASE f.up
  <2> DEFINE ready == Prepared(w, n, f, c.fwd, "none")
             q == ReadyDev(d, f, c.fwd)
  <2>1. PICK skip \in SkipOutcomes(partial), shaped \in ShapedOutcomes(w, n, f, partial),
             dropped \in DroppedOutcomes(w, n, c.bl, partial) :
          v = Raised(ready, n, f, c.fwd, skip, shaped, dropped)
    BY <1>2 DEF Applied
  <2>2. shaped \in SUBSET SUBSET Prefixes
    BY <1>1, NoDevAssumption DEF ShapedOutcomes, Exists, World, Device
  <2>3. dropped \in SUBSET Entries
    BY <1>1 DEF DroppedOutcomes, World
  <2>4. StoppedDev(d, f, c.fwd, "none") = q
    BY DEF StoppedDev
  <2> HIDE DEF q
  <2>5. IsWith(ready, w, n, q, w.bl[n], w.table, w.rules, w.ipfwd) /\ q \in Device
    BY <1>1, <2>4, PreparedIs
  <2>6. HasReadyFields(q, d, f)
    BY <1>1, ReadyDevFields DEF q
  <2> HIDE DEF ready, d
  <2>7. /\ ready \in World /\ ready.dev[n] = q
        /\ ready.table = w.table /\ ready.rules = w.rules /\ ready.ipfwd = w.ipfwd
    BY <2>5, IsWithOwn
  <2> DEFINE e == RaisedDev(q, shaped, NewRoutes(f, skip, els))
             t == IF NewDefault(f, c.fwd, skip) /\ w.table = NoName THEN n ELSE w.table
             r == NewDefault(f, c.fwd, skip) \/ w.rules
             i == (OSStack /\ c.fwd /\ "forwarding" \notin skip) \/ w.ipfwd
  <2>8. IsWith(v, ready, n, e, dropped, t, r, i)
    <3>1. RoutedElsewhere(ready, n) = els
      BY <2>5, IsWithElsewhere
    <3> QED
      BY <3>1, <1>1, <2>1, <2>2, <2>3, <2>5, <2>7, RaisedIs
  <2>9. PartOf(e, d, f, els)
    BY <1>1, <1>2, <2>2, <2>6, RaisedIsPart
  <2>10. IsPartOfHost(t, r, i, w, n, f, c)
    BY <1>2, RaisedHostIsPart
  <2> HIDE DEF e, t, r, i
  <2>11. IsWith(v, w, n, e, dropped, t, r, i)
    BY <2>5, <2>8, IsWithTrans
  <2> QED
    BY <2>9, <2>10, <2>11, MidwayWith DEF d
<1>3. CASE ~f.up
  <2> DEFINE e == FullDev(d, f, c.fwd, els)
             b == IF f.up THEN c.bl ELSE {}
             t == FullTable(w.table, n, f, c.fwd)
             r == FullRules(w.rules, f, c.fwd)
             i == FullForwarding(w.ipfwd, f, c.fwd)
  <2>1. Applied(c, n, f, w, v, FALSE)
    BY <1>3 DEF Applied
  <2>2. IsWith(v, w, n, e, b, t, r, i)
    BY <2>1, AppliedIsFull DEF IsFull
  <2>3. HasFullFields(e, d, f, c.fwd, els)
    BY <1>1, FullDevFields
  <2>4. IsPartOfHost(t, r, i, w, n, f, c)
    BY <1>3, FullHostIsPart
  <2> HIDE DEF e, b, t, r, i, d
  <2>5. AddrsOf(e, f) = AddrsOf(d, f)
    <3>1. e.addrs = AddrsOf(d, f) /\ e.built = d.built
      BY <1>3, <2>3 DEF HasFullFields
    <3> QED
      BY <3>1 DEF AddrsOf
  <2>6. (IF f.port > 0 THEN f.port ELSE e.port) = (IF f.port > 0 THEN f.port ELSE d.port)
    BY <2>3 DEF HasFullFields
  <2>7. (WantsDefault(AllowedIPs(f)) \/ e.mark) = (WantsDefault(AllowedIPs(f)) \/ d.mark)
    BY <2>3 DEF HasFullFields
  <2>8. e \in Device /\ e.built = d.built
    BY <1>3, <2>3 DEF HasFullFields
  <2>9. PartOf(e, d, f, els)
    BY <1>3, <2>5, <2>6, <2>7, <2>8 DEF PartOf
  <2> QED
    BY <2>2, <2>4, <2>9, MidwayWith DEF d
<1> QED
  BY <1>1, <1>2, <1>3

\* Applying an interface once more, with every call succeeding, makes up for an
\* application of it that stopped at a call, that was cut short or that was
\* complete: the world is then the one a single complete application makes of
\* the world the first one found (applyInterface and the driver's calls).
THEOREM RetryCatchesUp ==
  ASSUME NEW c \in Config, NEW n \in Names, NEW f \in Iface,
         NEW w \in World, NEW v, NEW u, NEW once,
         ApplyStopped(c, n, f, w, v) \/ \E partial \in BOOLEAN : Applied(c, n, f, w, v, partial),
         Applied(c, n, f, v, u, FALSE), Applied(c, n, f, w, once, FALSE)
  PROVE  u = once
<1>1. IsFull(once, w, n, f, c)
  BY AppliedIsFull
<1>2. IsFull(u, w, n, f, c)
  <2>1. CASE v = w
    BY <2>1, AppliedIsFull
  <2>2. CASE IsMidway(v, w, n, f, c)
    <3>1. v \in World
      BY <2>2 DEF IsMidway, IsWith
    <3>2. IsFull(u, v, n, f, c)
      BY <3>1, AppliedIsFull
    <3> QED
      BY <2>2, <3>2, MidwayIsFull
  <2>3. v = w \/ IsMidway(v, w, n, f, c)
    BY StoppedIsMidway, AppliedIsMidway
  <2> QED
    BY <2>1, <2>2, <2>3
<1> QED
  BY <1>1, <1>2, IsWithSame DEF IsFull

=============================================================================
