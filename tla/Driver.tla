------------------------------- MODULE Driver -------------------------------
(***************************************************************************)
(* The live side: what the calls of the driver interface do to the devices *)
(* and to the routing state of the host.  One operator per driver call;    *)
(* each maps a world to the world after the call succeeded.                *)
(*                                                                         *)
(* kernel    : wgctrl devices, they survive the daemon                     *)
(* userspace : wireguard-go on a TUN, dies with the daemon                 *)
(* netstack  : wireguard-go on an in-process stack, no OS routes at all    *)
(*                                                                         *)
(* A call that fails or is cut short has no effect; ApplyShaping and       *)
(* ApplyBlacklist may then have installed a part (Manager.tla).            *)
(***************************************************************************)
EXTENDS Store

CONSTANTS DriverKind, NoDev, NoName

ASSUME DriverAssumption ==
  /\ DriverKind \in {"kernel", "userspace", "netstack"}
  /\ NoName \notin Names

OSStack == DriverKind # "netstack"          \* UsesOSStack

PeerSpec == [key : Keys, aips : SUBSET Prefixes]

Device ==
  [ up     : BOOLEAN,
    built  : BOOLEAN,                       \* netstack: the stack exists (lazily, at Up)
    port   : Ports,
    mark   : BOOLEAN,                       \* fwmark 51820 is set
    fwd    : BOOLEAN,                       \* netstack: forward transit flows
    peers  : SUBSET PeerSpec,
    addrs  : SUBSET Hosts,
    shaped : SUBSET SUBSET Prefixes,
    routes : SUBSET Prefixes ]              \* prefixes the main table leads through it

World ==
  [ dev   : [Names -> Device \cup {NoDev}],
    bl    : [Names -> SUBSET Entries],      \* drop rules, kept per interface name
    table : Names \cup {NoName},            \* device of the default route in table 51820
    rules : BOOLEAN,                        \* the two policy rules of the host
    ipfwd : BOOLEAN ]                       \* net.ipv4.ip_forward

ASSUME NoDevAssumption == NoDev \notin Device

BlankDevice ==
  [up |-> FALSE, built |-> FALSE, port |-> 0, mark |-> FALSE, fwd |-> FALSE, peers |-> {},
   addrs |-> {}, shaped |-> {}, routes |-> {}]

InitWorld ==
  [dev |-> [n \in Names |-> NoDev], bl |-> [n \in Names |-> {}],
   table |-> NoName, rules |-> FALSE, ipfwd |-> FALSE]

Exists(w, n) == w.dev[n] # NoDev
Found(w, n)  == IF Exists(w, n) THEN w.dev[n] ELSE BlankDevice
Present(w)   == {n \in Names : Exists(w, n)}

\* The world with the device of n replaced.
WithDev(w, n, d) == [w EXCEPT !.dev = [w.dev EXCEPT ![n] = d]]

-----------------------------------------------------------------------------
(* Device calls *)

\* Idempotent: an existing device is kept as it is.
Create(w, n) == IF Exists(w, n) THEN w ELSE WithDev(w, n, BlankDevice)

\* The peers are replaced; listen port and fwmark are written only when they
\* are positive, so a 0 leaves the device's value in place.
Configure(w, n, cfg) ==
  WithDev(w, n, [w.dev[n] EXCEPT !.port  = IF cfg.port > 0 THEN cfg.port ELSE @,
                                 !.mark  = cfg.mark \/ @,
                                 !.fwd   = cfg.fwd,
                                 !.peers = cfg.peers])

\* The OS drivers only ever add addresses; netstack hands the list to its stack
\* when the stack is built, and never again.
SetAddresses(w, n, a) ==
  WithDev(w, n, [w.dev[n] EXCEPT !.addrs = IF OSStack THEN @ \cup {a}
                                           ELSE IF w.dev[n].built THEN @ ELSE {a}])

Up(w, n) == WithDev(w, n, [w.dev[n] EXCEPT !.up = TRUE, !.built = ~OSStack])

\* Routes through n disappear with its link.
DropTable(w, n) == [w EXCEPT !.table = IF @ = n THEN NoName ELSE @]

Down(w, n) ==
  DropTable(WithDev(w, n, [w.dev[n] EXCEPT !.up = FALSE, !.routes = {}]), n)

Remove(w, n) ==
  LET gone == DropTable(WithDev(w, n, NoDev), n)
  IN  IF OSStack THEN gone ELSE [gone EXCEPT !.bl = [w.bl EXCEPT ![n] = {}]]

\* Rebuilt from scratch: specs is what ends up installed.  RemoveShaping is
\* ApplyShaping of no specification; with no device there is nothing to shape.
ApplyShaping(w, n, specs) ==
  IF Exists(w, n) THEN WithDev(w, n, [w.dev[n] EXCEPT !.shaped = specs]) ELSE w

ApplyBlacklist(w, n, entries) ==
  IF OSStack \/ Exists(w, n) THEN [w EXCEPT !.bl = [w.bl EXCEPT ![n] = entries]] ELSE w

-----------------------------------------------------------------------------
(* OS plumbing (link_iproute.go) *)

EnsureForwarding(w) == [w EXCEPT !.ipfwd = TRUE]

\* The prefixes of the main routing table that lead through another device.
RoutedElsewhere(w, n) == UNION {w.dev[m].routes : m \in Present(w) \ {n}}

\* One main table serves every device: a prefix that is routed through another
\* one meets "File exists" and is silently not installed.
AddRoutes(w, n, aips) ==
  WithDev(w, n, [w.dev[n] EXCEPT !.routes = @ \cup (RouteTargets(aips) \ RoutedElsewhere(w, n))])

RemoveRoutes(w, n, aips) ==
  IF Exists(w, n)
  THEN WithDev(w, n, [w.dev[n] EXCEPT !.routes = @ \ RouteTargets(aips)])
  ELSE w

\* One routing table and one pair of rules serve every interface: a second
\* default route meets "File exists" and is silently not installed.
AddDefaultRoutes(w, n) ==
  [w EXCEPT !.table = IF @ = NoName THEN n ELSE @, !.rules = TRUE]

RemoveDefaultRoutes(w, n) == [DropTable(w, n) EXCEPT !.rules = FALSE]

-----------------------------------------------------------------------------

\* What is left of the world when the daemon's process has ended.
Survivors(w) ==
  IF DriverKind = "kernel" THEN w
  ELSE [w EXCEPT !.dev   = [n \in Names |-> NoDev],
                 !.bl    = IF OSStack THEN @ ELSE [n \in Names |-> {}],
                 !.table = NoName]

=============================================================================
