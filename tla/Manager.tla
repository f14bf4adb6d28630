------------------------------ MODULE Manager ------------------------------
(***************************************************************************)
(* The desired-state manager of the skyfired daemon (manager/manager.go):  *)
(* configuration in memory (mem), the file on disk (disk) and the devices  *)
(* of the host (world).  One mutex serialises the operations, so a step is *)
(* an operation up to its persist, or the application of one interface;    *)
(* the daemon may end at each point between two effects.                   *)
(*                                                                         *)
(* phase   off   : no daemon runs                                          *)
(*         idle  : the mutex is free, result is the last response          *)
(*         apply : job.todo are the interfaces still to be applied         *)
(***************************************************************************)
EXTENDS Driver

Unset == -1                     \* a patch field that is not given

\* The bodies of the requests, reduced to the fields the properties tell apart.
InterfacePatch == [port : Ports \cup {Unset}, addr : Hosts \cup {NoHost}, up : BOOLEAN]
PeerInput ==
  [key : Keys, generate : BOOLEAN, addr : Hosts \cup {NoHost},
   aips : SUBSET Prefixes, on : BOOLEAN, lim : BOOLEAN]
Settings == [fwd : BOOLEAN, bl : SUBSET Entries]

CONSTANTS
  StartConfigs,   \* configuration files the daemon may find at first start
  Patches,        \* interfaces an administrator submits,
  PeerInputs,     \* peers,
  SettingInputs,  \* settings,
  UpInputs,       \* and link states
  Faults          \* which failures happen: subset of {"persist", "driver", "crash"}

ASSUME InputsAssumption ==
  /\ StartConfigs \subseteq Config
  /\ Patches \subseteq InterfacePatch
  /\ PeerInputs \subseteq PeerInput
  /\ SettingInputs \subseteq Settings
  /\ UpInputs \subseteq BOOLEAN
  /\ Faults \subseteq {"persist", "driver", "crash"}

VARIABLES mem, disk, world, phase, job, result

vars == <<mem, disk, world, phase, job, result>>

ViewOps == {"iface", "peer", "toggle"}   \* operations that answer with a view
Ops     == ViewOps \cup {"remove", "settings", "boot", "read"}

Job    == [op : Ops, todo : SUBSET Names, old : BOOLEAN]
Result == [op : Ops, on : Names \cup {NoName}, st : {"pending", "ok", "error"}]

NoJob == [op |-> "boot", todo |-> {}, old |-> FALSE]
Answer(op, n, st) == [op |-> op, on |-> n, st |-> st]

PersistFails == "persist" \in Faults
DriverFails  == "driver" \in Faults
Crashes      == "crash" \in Faults

-----------------------------------------------------------------------------
(* Persisting *)

\* The process has ended: what it held in memory is gone (mem stands for what
\* the next one will load).
Exit ==
  /\ phase' = "off"
  /\ mem' = disk
  /\ job' = NoJob
  /\ result' = Answer("boot", NoName, "pending")
  /\ UNCHANGED disk

\* (mutant) A failed save does not stop the operation.
CommitRegardless(c, op, n, todo, old) ==
  /\ mem' = c
  /\ \/ disk' = c
     \/ PersistFails /\ UNCHANGED disk
  /\ phase' = IF todo = {} THEN "idle" ELSE "apply"
  /\ job' = IF todo = {} THEN NoJob ELSE [op |-> op, todo |-> todo, old |-> old]
  /\ result' = Answer(op, n, IF todo = {} THEN "ok" ELSE "pending")

\* Memory becomes c and is saved; then the interfaces of todo are applied for
\* operation op on n (old is the Up flag to fall back to).  Save replaces the
\* file atomically, so a failed or interrupted save leaves the old one.
Commit(c, op, n, todo, old) ==
  \/ /\ mem' = c
     /\ disk' = c
     /\ phase' = IF todo = {} THEN "idle" ELSE "apply"
     /\ job' = IF todo = {} THEN NoJob ELSE [op |-> op, todo |-> todo, old |-> old]
     /\ result' = Answer(op, n, IF todo = {} THEN "ok" ELSE "pending")
  \/ /\ PersistFails
     /\ mem' = c
     /\ result' = Answer(op, n, "error")
     /\ UNCHANGED <<disk, phase, job>>
  \/ /\ Crashes
     /\ Exit

-----------------------------------------------------------------------------
(* Applying one interface *)

\* The calls of applyInterface whose failure is returned to the caller.
HardCalls == {"create", "configure", "addresses", "link"}

\* The world after the calls of applyInterface that precede the one that fails.
Prepared(w, n, f, fwd, fails) ==
  LET w1 == Create(w, n)
      w2 == Configure(w1, n, ToDriverConfig(f, fwd))
      w3 == IF f.addr = NoHost THEN w2 ELSE SetAddresses(w2, n, f.addr)
  IN CASE fails = "create"    -> w
       [] fails = "configure" -> w1
       [] fails = "addresses" -> w2
       [] OTHER               -> w3

\* The OS plumbing of an interface that is up; the calls of skip failed, which
\* is only logged.
Plumbed(w, n, f, fwd, skip) ==
  LET w1 == IF fwd /\ "forwarding" \notin skip THEN EnsureForwarding(w) ELSE w
      w2 == IF "routes" \notin skip THEN AddRoutes(w1, n, AllowedIPs(f)) ELSE w1
  IN  IF WantsDefault(AllowedIPs(f)) /\ fwd /\ "default" \notin skip
      THEN AddDefaultRoutes(w2, n) ELSE w2

Unplumbed(w, n, aips) ==
  LET w1 == RemoveRoutes(w, n, aips)
  IN  IF WantsDefault(aips) THEN RemoveDefaultRoutes(w1, n) ELSE w1

PlumbingCalls == IF OSStack THEN {"forwarding", "routes", "default"} ELSE {}

\* After link up: plumbing, shaping, block list.  shaped and dropped are what
\* the last two really installed.
Raised(w, n, f, fwd, skip, shaped, dropped) ==
  LET w1 == Up(w, n)
      w2 == IF OSStack THEN Plumbed(w1, n, f, fwd, skip) ELSE w1
  IN  ApplyBlacklist(ApplyShaping(w2, n, shaped), n, dropped)

\* The branch of an interface that is down, before its Down call.
Cleared(w, n, f) ==
  LET w1 == ApplyBlacklist(ApplyShaping(w, n, {}), n, {})
  IN  IF OSStack THEN Unplumbed(w1, n, AllowedIPs(f)) ELSE w1

\* What the calls that only log their failure can leave behind: all they were
\* asked for, or when they may be cut short (partial) a part of it.
SkipOutcomes(partial) == IF partial THEN SUBSET PlumbingCalls ELSE {{}}
ShapedOutcomes(w, n, f, partial) ==
  IF partial
  THEN (SUBSET ShapingSpecs(f)) \cup (IF Exists(w, n) THEN {w.dev[n].shaped} ELSE {})
  ELSE {ShapingSpecs(f)}
DroppedOutcomes(w, n, bl, partial) ==
  IF partial THEN (SUBSET bl) \cup {w.bl[n]} ELSE {bl}

\* applyInterface of f under configuration c took world w to v without an
\* error for the caller ...
Applied(c, n, f, w, v, partial) ==
  LET ready == Prepared(w, n, f, c.fwd, "none")
  IN  IF f.up
      THEN \E skip \in SkipOutcomes(partial),
              shaped \in ShapedOutcomes(w, n, f, partial),
              dropped \in DroppedOutcomes(w, n, c.bl, partial) :
             v = Raised(ready, n, f, c.fwd, skip, shaped, dropped)
      ELSE v = Down(Cleared(ready, n, f), n)

\* ... or stopped at one of its calls.
ApplyStopped(c, n, f, w, v) ==
  \E call \in HardCalls :
    LET ready == Prepared(w, n, f, c.fwd, call)
    IN  v = IF call = "link" /\ ~f.up THEN Cleared(ready, n, f) ELSE ready

-----------------------------------------------------------------------------
(* The phase "apply" *)

\* Interface n is dealt with; after the last one the mutex is released.
Advance(n) ==
  /\ phase' = IF job.todo = {n} THEN "idle" ELSE "apply"
  /\ job' = IF job.todo = {n} THEN NoJob ELSE [job EXCEPT !.todo = @ \ {n}]

\* The view an operation answers with first makes the client tokens that are
\* missing and saves them.
AnswerView(n) ==
  LET titled == WithIface(mem, n, WithTokens(mem.ifs[n]))
  IN \/ /\ titled # mem
        /\ PersistFails
        /\ mem' = titled
        /\ result' = [result EXCEPT !.st = "error"]
        /\ UNCHANGED disk
     \/ /\ mem' = titled
        /\ disk' = IF titled # mem THEN titled ELSE disk
        /\ result' = [result EXCEPT !.st = "ok"]

\* Reconcile and UpdateSettings only log an error and go on with the next
\* interface; the other jobs answer, and most of them with a view.
ApplySucceeds(n) ==
  /\ phase = "apply" /\ n \in job.todo
  /\ mem.ifs[n].up \/ job.op # "boot"
  /\ Applied(mem, n, mem.ifs[n], world, world', DriverFails)
  /\ Advance(n)
  /\ IF job.op \in ViewOps THEN AnswerView(n)
     ELSE /\ result' = IF job.todo = {n} /\ result.st = "pending"
                       THEN [result EXCEPT !.st = "ok"] ELSE result
          /\ UNCHANGED <<mem, disk>>

ApplyFails(n) ==
  /\ DriverFails
  /\ phase = "apply" /\ n \in job.todo
  /\ mem.ifs[n].up \/ job.op # "boot"
  /\ ApplyStopped(mem, n, mem.ifs[n], world, world')
  /\ Advance(n)
  /\ result' = IF job.op = "settings"
               THEN [result EXCEPT !.st = IF job.todo = {n} THEN "ok" ELSE @]
               ELSE [result EXCEPT !.st = "error"]
  /\ IF job.op = "toggle"
     THEN /\ mem' = WithIface(mem, n, [mem.ifs[n] EXCEPT !.up = job.old])
          /\ \/ disk' = mem'
             \/ PersistFails /\ UNCHANGED disk
     ELSE UNCHANGED <<mem, disk>>

\* Reconcile removes the device of an interface that is configured down; a
\* failure of Remove is only logged (its own Down may have worked).
ReconcileRemoves(n) ==
  /\ phase = "apply" /\ n \in job.todo
  /\ ~mem.ifs[n].up /\ job.op = "boot"
  /\ \/ world' = Remove(world, n)
     \/ /\ DriverFails /\ Exists(world, n)
        /\ world' \in {world, Down(world, n)}
  /\ Advance(n)
  /\ result' = CASE world'.dev[n] # NoDev -> [result EXCEPT !.st = "error"]
                 [] world'.dev[n] = NoDev /\ job.todo = {n} /\ result.st = "pending"
                      -> [result EXCEPT !.st = "ok"]
                 [] OTHER -> result
  /\ UNCHANGED <<mem, disk>>

\* The worlds in which the application of n can be cut off.
Interrupted(n, v) ==
  IF mem.ifs[n].up \/ job.op # "boot"
  THEN \/ ApplyStopped(mem, n, mem.ifs[n], world, v)
       \/ Applied(mem, n, mem.ifs[n], world, v, TRUE)
  ELSE Exists(world, n) /\ v = Down(world, n)

\* The process ends: between two operations, or while an interface is being
\* applied (each prefix of its calls may have run).
Crash ==
  /\ Crashes
  /\ phase \in {"idle", "apply"}
  /\ \/ UNCHANGED world
     \/ /\ phase = "apply"
        /\ \E n \in job.todo : Interrupted(n, world')
  /\ Exit

\* (mutant) A daemon without interfaces starts with an empty job.
BootWithEmptyJob ==
  /\ phase = "off"
  /\ mem' = disk
  /\ world' = Survivors(world)
  /\ phase' = "apply"
  /\ job' = [NoJob EXCEPT !.todo = IfaceNames(disk)]
  /\ result' = Answer("boot", NoName, "pending")
  /\ UNCHANGED disk

\* (mutant) Interfaces that are configured down are not reconciled.
BootUpOnly ==
  LET todo == {n \in IfaceNames(disk) : disk.ifs[n].up}
  IN  /\ phase = "off"
      /\ mem' = disk
      /\ world' = Survivors(world)
      /\ phase' = IF todo = {} THEN "idle" ELSE "apply"
      /\ job' = [NoJob EXCEPT !.todo = todo]
      /\ result' = Answer("boot", NoName, IF todo = {} THEN "ok" ELSE "pending")
      /\ UNCHANGED disk

\* New: load the file and reconcile every interface.
Boot ==
  /\ phase = "off"
  /\ mem' = disk
  /\ world' = Survivors(world)
  /\ phase' = IF IfaceNames(disk) = {} THEN "idle" ELSE "apply"
  /\ job' = [NoJob EXCEPT !.todo = IfaceNames(disk)]
  /\ result' = Answer("boot", NoName, IF IfaceNames(disk) = {} THEN "ok" ELSE "pending")
  /\ UNCHANGED disk

-----------------------------------------------------------------------------
(* Operations on interfaces *)

\* (mutant) Only interfaces that are up hold their port.
PortTakenByLive(n, port) ==
  \E m \in IfaceNames(mem) \ {n} : mem.ifs[m].port = port /\ mem.ifs[m].up

PortTaken(n, port) == \E m \in IfaceNames(mem) \ {n} : mem.ifs[m].port = port

CreateInterface(n, in) ==
  /\ phase = "idle"
  /\ mem.ifs[n] = NoIface
  /\ in.port # Unset
  /\ in.port > 0 => ~PortTaken(n, in.port)
  /\ Commit(WithIface(mem, n, [port |-> in.port, addr |-> in.addr, up |-> in.up,
                               peers |-> [s \in Slots |-> NoPeer]]),
            "iface", n, {n}, FALSE)
  /\ UNCHANGED world

\* The port check of an update has no exception for port 0.  An address or link
\* state that is not given is as good as one that repeats the stored value.
UpdateInterface(n, in) ==
  /\ phase = "idle"
  /\ mem.ifs[n] # NoIface
  /\ in.port # Unset => ~PortTaken(n, in.port)
  /\ Commit(WithIface(mem, n,
              [mem.ifs[n] EXCEPT !.port = IF in.port = Unset THEN @ ELSE in.port,
                                 !.addr = in.addr, !.up = in.up]),
            "iface", n, {n}, FALSE)
  /\ UNCHANGED world

\* The live side of DeleteInterface, before anything is saved.
Unplugged(w, n, f, gone) ==
  LET w1 == IF OSStack THEN Unplumbed(w, n, AllowedIPs(f)) ELSE w
      w2 == ApplyBlacklist(ApplyShaping(w1, n, {}), n, {})
  IN  IF gone THEN Remove(w2, n) ELSE w2

\* (mutant) Saved first, torn down afterwards: the daemon may end in between.
DeleteInterfaceSavedFirst(n) ==
  /\ phase = "idle"
  /\ mem.ifs[n] # NoIface
  /\ \/ /\ world' = Unplugged(world, n, mem.ifs[n], TRUE)
        /\ Commit(WithIface(mem, n, NoIface), "remove", n, {}, FALSE)
     \/ /\ Crashes
        /\ disk' = WithIface(mem, n, NoIface)
        /\ mem' = disk'
        /\ phase' = "off"
        /\ UNCHANGED <<world, job, result>>

DeleteInterface(n) ==
  /\ phase = "idle"
  /\ mem.ifs[n] # NoIface
  /\ \E gone \in IF DriverFails THEN BOOLEAN ELSE {TRUE} :
       world' = Unplugged(world, n, mem.ifs[n], gone)
  /\ Commit(WithIface(mem, n, NoIface), "remove", n, {}, FALSE)

SetInterfaceUp(n, up) ==
  /\ phase = "idle"
  /\ mem.ifs[n] # NoIface
  /\ Commit(WithIface(mem, n, [mem.ifs[n] EXCEPT !.up = up]),
            "toggle", n, {n}, mem.ifs[n].up)
  /\ UNCHANGED world

-----------------------------------------------------------------------------
(* Operations on peers *)

\* The address of a new peer: the one submitted, or the next free one if there
\* is any.
AssignedAddresses(f, addr) ==
  IF addr # NoHost THEN {addr}
  ELSE {h \in FreeAddresses(f) : \A g \in FreeAddresses(f) : h <= g}

\* in.generate: the key pair is made by the daemon, in.key being a key nobody
\* holds.  The AllowedIPs and Enabled of the request are not read: a new peer is
\* enabled and gets its own address.
CreatePeer(n, s, in) ==
  /\ phase = "idle"
  /\ mem.ifs[n] # NoIface
  /\ mem.ifs[n].peers[s] = NoPeer
  /\ ~DuplicateKey(mem.ifs[n], in.key, {})
  /\ \E a \in AssignedAddresses(mem.ifs[n], in.addr) :
       /\ ~DuplicateAddress(mem.ifs[n], a, {})
       /\ Commit(WithIface(mem, n,
                   WithPeer(mem.ifs[n], s,
                     [key |-> in.key, priv |-> IF in.generate THEN in.key ELSE NoKey,
                      addr |-> a, aips |-> {HostPrefix(a)},
                      on |-> TRUE, lim |-> in.lim, tok |-> TRUE])),
                 "peer", n, {n}, FALSE)
  /\ UNCHANGED world

\* The peer after the first half of an update: key pair rotated, or public key
\* replaced by an imported one (the stored private key stays), or kept when
\* in.key is its key; and the new address.
Readdressed(p, in) ==
  [p EXCEPT !.key = in.key, !.priv = IF in.generate THEN in.key ELSE @, !.addr = in.addr]

\* The first half is written into the live peer object before the address is
\* checked: a request that is refused then has changed memory.
UpdatePeer(n, s, in) ==
  /\ phase = "idle"
  /\ mem.ifs[n] # NoIface /\ mem.ifs[n].peers[s] # NoPeer
  /\ LET f == mem.ifs[n]
         p == Readdressed(f.peers[s], in)
         q == [p EXCEPT !.aips = OrOwnAddress(in.aips, in.addr), !.on = in.on, !.lim = in.lim]
     IN /\ ~DuplicateKey(f, in.key, {s})
        /\ in.generate => in.key # f.peers[s].key
        /\ IF DuplicateAddress(f, in.addr, {s})
           THEN /\ mem' = WithIface(mem, n, WithPeer(f, s, p))
                /\ result' = Answer("peer", n, "error")
                /\ UNCHANGED <<disk, world, phase, job>>
           ELSE /\ world' = IF OSStack /\ p.aips # in.aips
                            THEN Unplumbed(world, n, p.aips) ELSE world
                /\ Commit(WithIface(mem, n, WithPeer(f, s, q)), "peer", n, {n}, FALSE)

\* (mutant) What a deleted peer had is taken away and nothing is applied again.
DeletePeerOnly(n, s) ==
  /\ phase = "idle"
  /\ mem.ifs[n] # NoIface /\ mem.ifs[n].peers[s] # NoPeer
  /\ LET f == mem.ifs[n]
     IN /\ world' = IF OSStack THEN Unplumbed(world, n, f.peers[s].aips) ELSE world
        /\ Commit(WithIface(mem, n, WithPeer(f, s, NoPeer)), "remove", n, {}, FALSE)

DeletePeer(n, s) ==
  /\ phase = "idle"
  /\ mem.ifs[n] # NoIface /\ mem.ifs[n].peers[s] # NoPeer
  /\ LET f == mem.ifs[n]
     IN /\ world' = IF OSStack THEN Unplumbed(world, n, f.peers[s].aips) ELSE world
        /\ Commit(WithIface(mem, n, WithPeer(f, s, NoPeer)), "remove", n, {n}, FALSE)

-----------------------------------------------------------------------------
(* Settings and reads *)

\* (mutant) Saving unchanged settings is taken for nothing to do.
UpdateSettingsIfChanged(set) ==
  /\ phase = "idle"
  /\ IF set = [fwd |-> mem.fwd, bl |-> mem.bl]
     THEN /\ result' = Answer("settings", NoName, "ok")
          /\ UNCHANGED <<mem, disk, phase, job>>
     ELSE Commit([mem EXCEPT !.fwd = set.fwd, !.bl = set.bl], "settings", NoName,
                 {n \in IfaceNames(mem) : mem.ifs[n].up}, FALSE)
  /\ UNCHANGED world

\* (mutant) Only a change of the block list is applied to the interfaces.
UpdateSettingsBlacklist(set) ==
  /\ phase = "idle"
  /\ Commit([mem EXCEPT !.fwd = set.fwd, !.bl = set.bl], "settings", NoName,
            IF set.bl = mem.bl THEN {} ELSE {n \in IfaceNames(mem) : mem.ifs[n].up},
            FALSE)
  /\ UNCHANGED world

\* The interfaces that are up are applied again, but only when the settings
\* differ from those in memory.
UpdateSettings(set) ==
  /\ phase = "idle"
  /\ Commit([mem EXCEPT !.fwd = set.fwd, !.bl = set.bl], "settings", NoName,
            IF set = [fwd |-> mem.fwd, bl |-> mem.bl] THEN {}
            ELSE {n \in IfaceNames(mem) : mem.ifs[n].up},
            FALSE)
  /\ UNCHANGED world

\* Get (and List) make the tokens that are missing before they show a peer.
Get(n) ==
  /\ phase = "idle"
  /\ mem.ifs[n] # NoIface
  /\ LET titled == WithIface(mem, n, WithTokens(mem.ifs[n]))
     IN IF titled = mem
        THEN /\ result' = Answer("read", n, "ok")
             /\ UNCHANGED <<mem, disk, phase, job>>
        ELSE Commit(titled, "read", n, {}, FALSE)
  /\ UNCHANGED world

-----------------------------------------------------------------------------

Init ==
  /\ disk \in StartConfigs
  /\ mem = disk
  /\ world = InitWorld
  /\ phase = "off"
  /\ job = NoJob
  /\ result = Answer("boot", NoName, "pending")

InterfaceOps(n) ==
  \/ \E in \in Patches : CreateInterface(n, in) \/ UpdateInterface(n, in)
  \/ DeleteInterface(n)
  \/ \E up \in UpInputs : SetInterfaceUp(n, up)
  \/ Get(n)

PeerOps(n, s) ==
  \/ \E in \in PeerInputs : CreatePeer(n, s, in) \/ UpdatePeer(n, s, in)
  \/ DeletePeer(n, s)

Next ==
  \/ \E n \in Names : InterfaceOps(n)
  \/ \E n \in Names, s \in Slots : PeerOps(n, s)
  \/ \E set \in SettingInputs : UpdateSettings(set)
  \/ \E n \in Names : ApplySucceeds(n) \/ ApplyFails(n) \/ ReconcileRemoves(n)
  \/ Crash
  \/ Boot

Spec == Init /\ [][Next]_vars

-----------------------------------------------------------------------------
(* Properties *)

TypeOK ==
  /\ mem \in Config
  /\ disk \in Config
  /\ world \in World
  /\ phase \in {"off", "idle", "apply"}
  /\ job \in Job
  /\ result \in Result
  /\ phase = "apply" => job.todo # {} /\ job.todo \subseteq IfaceNames(mem)

\* The daemon is between two operations and the last one was acknowledged.
Acked(ops) == phase = "idle" /\ result.st = "ok" /\ result.op \in ops

\* What interface f gives its device: its link, its enabled peers and their routes.
Grants(f) ==
  IF f = NoIface THEN BlankDevice
  ELSE [BlankDevice EXCEPT !.up = f.up, !.peers = ToDriverConfig(f, FALSE).peers,
                           !.routes = RouteTargets(AllowedIPs(f))]

\* Device e has nothing that neither d nor g has.
Within(e, d, g) ==
  /\ e.up => d.up \/ g.up
  /\ e.peers \subseteq d.peers \cup g.peers
  /\ e.routes \subseteq d.routes \cup g.routes

\* A step gives the device of n nothing but what is on disk before.
GainIsSaved(n) ==
  Exists(world', n) =>
    /\ Exists(world, n) \/ disk.ifs[n] # NoIface
    /\ Within(world'.dev[n], Found(world, n), Grants(disk.ifs[n]))

\* What a device gains was saved before (package comment of manager.go: mutations
\* are persisted before they are applied), also when an application is cut off or
\* meets what failed operations left in memory.  What it loses need not be:
\* UpdatePeer, DeletePeer and DeleteInterface take the live side away first.
GainsAreSaved == [][\A n \in Names : GainIsSaved(n)]_vars

\* When an operation that changes the configuration answers success, the whole
\* configuration in memory is on disk: also what earlier, failed operations
\* left in memory, and the tokens the answer shows.
AckedIsDurable == Acked(Ops \ {"read"}) => mem = disk

\* The daemon keeps the promise of Keeper: memory is what it answers from, the
\* file what survives; a read that worked promises nothing of the file.
K == INSTANCE Keeper WITH
  saved  <- disk,
  view   <- mem,
  mode   <- IF phase = "off" THEN "off" ELSE "on",
  answer <- IF result.st = "pending" \/ (result.op = "read" /\ result.st = "ok")
            THEN "none" ELSE result.st

ImplementsKeeper == K!Spec

\* No two peers of an interface hold the same public key, in memory or on disk.
KeysUnique ==
  \A c \in {mem, disk} : \A n \in IfaceNames(c) : \A s, t \in PeersOf(c.ifs[n]) :
    c.ifs[n].peers[s].key = c.ifs[n].peers[t].key => s = t

\* No two interfaces listen on the same port, in memory or on disk.
PortsUnique ==
  \A c \in {mem, disk} : \A m, n \in IfaceNames(c) :
    c.ifs[m].port = c.ifs[n].port /\ c.ifs[n].port > 0 => m = n

\* The device of n carries exactly the enabled peers and the link state of
\* memory, and its listen port when one is configured.
Matches(n) ==
  LET f == mem.ifs[n]
      d == world.dev[n]
  IN /\ d # NoDev
     /\ d.up = f.up
     /\ f.port > 0 => d.port = f.port
     /\ d.peers = {[key |-> p.key, aips |-> p.aips] :
                      p \in {f.peers[s] : s \in {t \in PeersOf(f) : f.peers[t].on}}}

\* When an operation on an interface answers success, its device is the image
\* of its configuration: whoever was deleted, disabled or rotated is out.
AckedIsLive ==
  /\ Acked(ViewOps \cup {"remove"})
  /\ mem.ifs[result.on] # NoIface
  => Matches(result.on)

\* Reconciling at start repairs every difference a crash or a failed operation
\* left between devices and file, unless it logged an error.
BootConverges ==
  Acked({"boot"}) =>
    \A n \in IfaceNames(mem) :
      IF mem.ifs[n].up THEN Matches(n) ELSE ~Exists(world, n)

\* While removing a device works, no crash and no failed save leaves a device
\* behind that the file does not know: the next start would never clean it up.
NoOrphanDevice == Present(world) \subseteq IfaceNames(disk)

\* While saving and the driver work, each interface that is up has been given
\* the current settings whenever the daemon is between two operations: the block
\* list, forwarding on or off in netstack, and forwarding on an OS stack when it
\* is on.  When it is off nothing is said of an OS stack: applyInterface then
\* leaves ip_forward as it finds it, so that transit goes on once it was switched
\* on, against what docs/server.md:361 promises.
SettingsApplied ==
  phase = "idle" =>
    \A n \in IfaceNames(mem) : mem.ifs[n].up =>
      /\ world.bl[n] = mem.bl
      /\ mem.fwd /\ OSStack => world.ipfwd
      /\ ~OSStack => world.dev[n].fwd = mem.fwd

\* An acknowledged operation leaves a route for each prefix of an enabled peer,
\* even when peers share a prefix and one of them is changed or removed: through
\* its own interface, unless the one table already has it through another.
EnabledPeersRouted ==
  /\ Acked(ViewOps \cup {"remove"}) /\ OSStack
  /\ mem.ifs[result.on] # NoIface /\ mem.ifs[result.on].up
  => LET f == mem.ifs[result.on]
     IN \A s \in PeersOf(f) : f.peers[s].on =>
          /\ f.peers[s].aips \ {Default} \subseteq
               world.dev[result.on].routes \cup RoutedElsewhere(world, result.on)
          /\ Default \in f.peers[s].aips /\ mem.fwd => world.rules /\ world.table # NoName

\* ... and, while the driver works, exactly the rate limits of its enabled peers.
LimitsEnforced ==
  /\ Acked(ViewOps \cup {"remove"})
  /\ mem.ifs[result.on] # NoIface /\ mem.ifs[result.on].up
  => LET f == mem.ifs[result.on]
         limited == {f.peers[s] : s \in {t \in PeersOf(f) : f.peers[t].on /\ f.peers[t].lim}}
     IN  world.dev[result.on].shaped =
           {IF p.aips # {} THEN p.aips ELSE {HostPrefix(h) : h \in {p.addr} \ {NoHost}} : p \in limited}

-----------------------------------------------------------------------------
(* What a comment and a test of the repository promise and the code does    *)
(* not keep: the property of a run that ends in a counterexample.           *)

\* A tunnel address belongs to one peer (duplicateAddressLocked and its tests
\* refuse a second holder).
PeerAddressesUnique ==
  \A n \in IfaceNames(mem) : \A s, t \in PeersOf(mem.ifs[n]) :
    mem.ifs[n].peers[s].addr = mem.ifs[n].peers[t].addr /\ mem.ifs[n].peers[s].addr # NoHost
    => s = t

=============================================================================
