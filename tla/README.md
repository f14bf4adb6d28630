# skyfire: a verification development in TLA+

skyfire is a self-hosted WireGuard VPN. The daemon `skyfired`
(`src/backend`) keeps a desired state - interfaces, peers, settings - in one
JSON file and drives WireGuard devices, routes, firewall and traffic control to
match it. The client `skyfire-client` (`src/client`) raises one tunnel, keeps it
up, and can send only listed domains through it.

This directory models the parts of both programs whose correctness depends on
the order of things: operations that fail half way, a process that ends
anywhere, goroutines that overlap. TLC checks the models on small instances;
TLAPS proves the main invariants, and two refinements, for every value of the
constants.

    tlc   -workers 2 -config MCManagerFaults.cfg MCManager
    tlapm ManagerProofs.tla

## 1. The system

### Components

| Component | State | Operations | In the models |
|---|---|---|---|
| Desired-state manager, `backend/internal/manager` | `Manager.store` (the configuration in memory) under one mutex | create, update, delete, up/down of interfaces; create, update, delete of peers; settings; reads that make missing client tokens; `New`/`Reconcile` at start | `Manager` |
| Configuration store, `backend/internal/store` | the JSON file | `Load`, `Save` (temporary file, fsync, rename) | `Store`, `disk` of `Manager` |
| Server drivers, `backend/internal/driver` (kernel, userspace, netstack) | live devices: link, port, fwmark, peers, addresses | `Create`, `Configure`, `SetAddresses`, `Up`, `Down`, `Remove`, `ApplyShaping`, `ApplyBlacklist` | `Driver` (its effects) |
| Host tools (`link_iproute.go`, `tc_linux.go`, `firewall_linux.go`) | routes, routing table 51820 and its policy rules, `ip_forward`, tc classes, drop chains | add and remove each of them | `Driver` (as sets and flags) |
| Netstack data path (`netstack.go`, `ratelimit.go`) | the stack's settings (atomics), relayed flows with their sockets and limiters | `Configure`, `ApplyShaping`, `ApplyBlacklist`, `Close`; `handleTCP`, `handleUDP`, the relays | `Netstack`, without packets and the event channel |
| HTTP API (`backend/internal/api`) | none of its own | decode, one manager call, encode | login, logout, session check in `Login`; the rest as the manager operation it calls |
| Login (`login_limiter.go`, `middleware.go`, `handlers.go`, `totp`) | failures per client, sessions, second factor with its file | login, logout, enrolment, `totp reset`, sweep and expiry | `Login` |
| DNS proxy of the server (`dnsproxy`) | two accept loops, handlers in flight, the wait group, the round-robin counter | `Start`, relay over UDP and TCP, fail-over, `Close` | `DnsProxy`, with `Drain` as what it promises |
| Block list (`blacklist`) | a compiled matcher behind an atomic pointer | match, swap | names in `DnsProxy`, hosts in `Netstack`, the list itself in `Settings` |
| Self-update (`update`, `cmd/skyfired/update.go`) | the binary on disk, its backup on Windows | resolve, compare, fetch, verify, `Install`, restart | `Update` |
| Daemon entry point (`cmd/skyfired`) | flags | start, signals | its start: `Boot` of `Manager`, `LoadBinding` and `NewSecret` of `Login`, `Start` and `Close` of `DnsProxy` |
| Client application (`client/internal/app`) | status, `desired`, the running supervisor and prober | `Connect`, `Disconnect`, `Toggle`, the reconnect supervisor | `ClientApp` |
| Client tunnel (`client/internal/tunnel`) | the device | `Up`, `Down` | `up` of `ClientApp` |
| Split-by-domain routing (`whitelist.go`, `dnsproxy.go` of the client) | host routes, names seen, the local DNS proxy | `start`, `stop`, queries, periodic refresh | `Whitelist` |
| Client configuration (`client/internal/config`) | settings file, cached tunnel configuration | getters, setters, `Fetch` | not modelled |
| Client user interface, translations, web frontend, scripts | - | rendering | not modelled; the callbacks are the `Users` of `ClientApp` |

### How they interact

* API handlers call the manager from many goroutines; `Manager.mu` is held for a
  whole operation. An operation changes memory, saves the file, applies the
  interface through the driver, and answers - usually with a view, and making a
  view can change and save the configuration once more (client tokens).
* The driver interface hides three kinds of device: kernel devices outlive the
  daemon, userspace devices die with it but their firewall and routing state
  does not, netstack devices are all inside the process.
* The main routing table, table 51820 with its two rules and `ip_forward` belong to
  the host and are shared by all interfaces. Adding what is already there is no
  error, whichever interface has it.
* The API's login handlers share the limiter's mutex, the server's mutex and one
  file; no two of their critical sections are held together. The file is also
  removed by another process, `skyfired totp reset`.
* `UpdateSettings` hands the block list to the DNS proxy and to the drivers; both
  swap a pointer that goroutines under way read at their next query or packet.
* `main` closes the DNS proxy on its way out and waits for it.
* Updater processes share the file names of the binary, with each other and with
  the daemon that runs from one of them.
* In the client each tray callback runs in a goroutine of its own. `App.mu`
  protects single fields and is released between any two of them; `Tunnel.mu`
  makes `Up` and `Down` atomic. A supervisor goroutine checks the tunnel and
  rebuilds it. Replacing a supervisor cancels it and does not wait for it.
* The router's mutex protects routes and names; lookups are made without it, by
  one goroutine per DNS query and by the refresh loop.

### What is hard

1. *Durability against failure.* Memory changes first, then the file, then the
   devices. A failed save leaves memory ahead of the file; a failed call leaves
   the device behind it; the process may end anywhere between.
2. *Convergence.* `applyInterface` is about ten calls, some of which fail
   loudly, some only into the log. Each has to be correct on a device that an
   earlier, partial run left in any state.
3. *Shared host state.* Routes, rules and flags are added and removed per peer
   and per interface while others rely on them.
4. *Overlap in the client.* Requests, supervisors and outages meet at any point.
5. *Decisions on copies.* A status read before it is acted on, names copied
   before they are looked up, old and new values compared in memory, a second
   factor copied under the lock and judged without it, a limiter asked in one
   critical section and told in another.
6. *Waiting for the last one.* `Close` of the DNS proxy waits for handlers that
   are still being started; a relay waits for both of its directions; each
   direction can fail, stall or end first.
7. *Replacing a running binary.* Two renames on Windows, an fsync before one on
   Unix, and other updaters, kills or a power failure between them.

### What makes each component correct

* **Manager and store**: a device is given only what is on disk; an answer of
  success means the configuration is saved; keys, ports and addresses stay
  unique; no device exists that the file has forgotten.
* **Manager and driver**: an answer of success means the device is the image of
  the configuration; a start repairs whatever is left; enabled peers keep
  their routes and limits, disabled ones lose their limits; changed settings reach
  every interface that is up.
* **Client application**: after a disconnect the tunnel is down and stays down, and
  a tunnel that is wanted has somebody who retries, unless a connect and a
  disconnect overlapped; it comes back; supervisors that were replaced end.
* **Split-by-domain routing**: nothing is left after `stop`, and only a client that
  goes on asking over TCP delays it; the
  DNS servers stay routed; the routes end as exactly those of the names seen;
  a refresh removes only what no longer resolves.
* **Login**: a client that failed too often is held off, also when its requests
  overlap, and a block ends; a confirmed second factor survives a restart; no
  session without a code that was right.
* **DNS proxy**: when `Close` returns nothing runs, and only clients can delay it;
  a failing upstream costs a retry and not the query.
* **Self-update**: wherever `Install` ends, a binary that starts is in place; the
  decision to install follows the order of versions.
* **Netstack**: nothing is truncated when one side ends first; what is over gives
  its sockets back while both sides read; a limit holds in every span of time.
* *Client configuration* (planned): the file ends as the last value set.

The hazards behind these, each with its line, are in `PROJECT.json`.

## 2. The modules

    Store      the configuration and the pure helpers of manager.go (constant level)
      Driver     what each driver call does to the devices and the host
        Manager    the daemon: operations, saving, applying, crash, start
          MCManager       instances for TLC
          ManagerProofs   proofs: types, durability, uniqueness, refinement
          ManagerLiveProofs   proofs: what the host looks like after an answer
    Keeper     what the daemon promises of its configuration; Manager implements it
    Login      limiter, second factor with its file, sessions
      MCLogin, LoginProofs
    DnsProxy   loops, handlers, fail-over, Close
      MCDnsProxy, DnsProxyProofs
    Drain      what a server with a Close promises; DnsProxy implements it
    Netstack   flows of the netstack driver: checks, dialling, relays, limits
      MCNetstack, NetstackProofs
    Update     updater processes, the names of the binary, version comparison
      MCUpdate, UpdateProofs
    ClientApp  requests, supervisors and the tunnel they share
      MCClientApp, ClientAppProofs
    Whitelist  queries, refresh loop, start and stop
      MCWhitelist, WhitelistProofs

Definitions marked "(mutant)" are wrong on purpose: each is a definition next to
it with a plausible mistake, used to see that a property notices that mistake.
No other definition refers to them.

### Store, Driver, Manager

A configuration is a record of settings and interfaces; an interface has
`Slots` for peers, a slot being the identity of a Go `*store.Peer`. Keys, names
and entries are model values, addresses the numbers of one subnet, and a prefix
is the /32 of an address or the default route; one address family stands for
both. A private key is named by the public key that belongs to it, so "the pair
fits" is `priv = key`. `Driver` has one operator per driver call, mapping the
world before it to the world after it; the conditions the code puts on writing a
value (`cfg.FirewallMark > 0`, "File exists" on a prefix that another device has or on a
second default route, an
address list that netstack reads only while it builds its stack) are in these
operators.

| `Manager` | code |
|---|---|
| `mem`, `disk`, `world` | `Manager.store`, the file, devices and host |
| `phase = "idle"` | the mutex is free |
| `phase = "apply"`, `job` | inside `applyInterface` of an operation, or in the loop of `Reconcile` / `UpdateSettings` |
| `result` | the response (or the error `New` collects) |
| `CreateInterface` ... `UpdateSettings` | the operation up to and including `persist` |
| `Commit` | `persist`: success, failure, or the process ends |
| `ApplySucceeds`, `ApplyFails` | `applyInterface` with what its caller does next: answer with a view, restore the `Up` flag and save it (`SetInterfaceUp`), log and go on (`Reconcile`, `UpdateSettings`) |
| `ReconcileRemoves` | `Reconcile` for an interface configured down |
| `AnswerView` | `interfaceViewLocked` with `ensureClientTokensLocked` |
| `Crash`, `Exit` | the process ends, also inside `applyInterface`, after any prefix of its calls |
| `Boot` | `New` and the begin of `Reconcile` |

The mutex makes an operation one critical section, so a step may be as large as
the code between two points where something can go wrong. `Prepared`, `Raised`,
`Cleared` follow the order of the calls in `applyInterface`; `Applied` and
`ApplyStopped` say which worlds it can leave. A call that only logs its failure
may do all, nothing or a part of what it was asked (`SkipOutcomes`,
`ShapedOutcomes`, `DroppedOutcomes`).

Requests that a first check refuses without any change are disabled actions. A
request that is refused *after* it changed memory (`UpdatePeer` with a taken
address) is a branch of its action.

### Keeper

Three variables say what an administrator can rely on: `view` (what answers are
made from), `saved` (what a start will find) and `answer`. The two copies part
only in a step that answers with an error; no step answers `ok` while they
differ; only the view is ever saved; a start brings back what was saved.
`Manager` implements it with `view <- mem`, `saved <- disk`, `mode` from `phase`,
and `answer` from `result`; a read that worked promises nothing of the file, so it
counts as no answer.

### Login

| `Login` | code |
|---|---|
| `attempts` | `loginLimiter.attempts`, an age instead of a time stamp |
| `Arrive` | `allowed` and the answer 429 |
| `Refuse` | `fail`, with `sweepLocked` when the table is full, and the answer 401 |
| `ReadBinding`, `AskForCode`, `VerifyCode` | `checkTOTP`: the copy under the lock, and what follows without it |
| `OpenTmp`, `WriteTmp`, `RenameTmp`, `SaveFails` | the system calls of `totp.Save`, outside every lock |
| `CreateSession`, `UseExpired`, `Logout`, `DeleteSession`, `Expire` | `reset`, `createSession`, `validSession`, `destroySession` |
| `LoadBinding`, `NewSecret`, `Crash`, `ClearBinding` | start and end of the daemon, `totp reset` |

A goroutine that has the temporary file open keeps it through a rename:
`req[r].fd` is the name its file has by now, so a late write can reach
`totp.json` itself or a file without a name. Password and code are choices, made
where they first matter: `req[r].code` is whether the request carries a code, and
later that it was found right. Time is kept as ages that stop growing past the window, so no clock bounds a
behaviour. `Tick` is a step of everybody: a window can pass between any two steps.

### DnsProxy

`wg` is the wait group, `udp` and `tcp` are the accept loops ("got": between the
read and the `go` statement, with `wg.Add` in the step that starts the handler).
A query is the sequence of its labels; matching against domains and wildcards is
that of package `blacklist`. `next` is the round-robin counter, which wraps at
`CounterSize`; UDP starts at it and walks (`turn`), TCP moves it and takes one
resolver. An exchange is answered, fails, or ends with its deadline; `tried` is a
history of the resolvers that failed a query. `Running` maps the proxy to the
tasks of `Drain`.

### Netstack

A flow is handled as in `handleTCP` and `handleUDP`: forwarding, block list,
limits, dialling (TCP reads its limits before it dials, UDP after), endpoint,
two copiers. Each check is a step, because each loads an atomic that a request
may swap between two of them (the block list itself is a choice of `CheckList`,
which may find anything: no property is about it). `pipe[f][d]` is a direction:
what the source has sent and nobody read, the copier, what it has in hand, the
tokens of its limiter, and whether the sink still has room. A copier reads,
waits for its tokens, writes; a write to a connection waits for the sink to read
(`Takes`), for ever if need be, as the code sets no deadline there. `broken` are
connections that were aborted, `open` the sockets the flow still holds.
`relayConns` waits for both directions; `relayUDP` closes both sockets with the
first one that ends. A tick adds what the limit adds in one unit of time; `ticks`
and `paced` are a history of the present span of time, and a new span may begin
with every tick. Flows send without end: nothing counts what has been moved.

### Update

A file is an identity with a content (partial, written, synced); `names` binds
the target and `.old` to files, `settled` is what the disk has of that binding.
Each call of `Install` is a step, with its failure (`Ends`, `PlaceFails`) and with
`Killed` and `PowerLoss` at any point. Windows refuses to delete or overwrite a
file a process runs from (`Held`) and lets it be renamed. `CompareSemver` and its
helpers translate `update.go` for versions as `parseVersion` returns them.

### ClientApp

`pc[t]` is what goroutine `t` does next, between two critical sections of
`App.mu` or two tunnel calls. Users run requests, monitors run supervisors;
`bringUp` is shared by both (`BringUp(t)`). `current` is the supervisor whose
cancel function `App.monCancel` holds: a supervisor's context is cancelled
exactly when it is not current. `auto` is chosen in `Init` because `main.go`
sets it by a flag before anything runs. `online` stands for network, server and
host: while it holds, configurations load, tunnels come up and handshakes
stay fresh; while it does not, each of these may fail or work. It changes at
any time. `crossed` is a history: a `Connect` and a `Disconnect` were between their
first and last effects at the same time (`Raising`, `Lowering`), and no request
has started beside neither since. `DisconnectHolds` and `Supervised` speak of the
states where it is false, because the code keeps neither promise in the others
(section 5, connect against disconnect).

### Whitelist

`pc` again; `Owner` is the goroutine in `Tunnel.Up` and later `Tunnel.Down`, a
handler a goroutine of the proxy, `Loop` the refresh loop. A datagram is one query
(`Ask`); a connection asks one after another (`AskNext`), also when the proxy has
been closed meanwhile, until its client leaves or says nothing for 30 seconds
(`ReadEnds`). A step is a
critical section of the router's mutex or one lookup, so the refresh copies the
names (`Tick`), looks them up one by one while queries go on (`Lookup`), and
applies what it found (`Apply`). `dns` is what the resolvers answer now and
changes. `stopCh` is closed when the Owner is at "joining".

## 3. What is checked

### Passing runs

| Run | Instance | Shows | States |
|---|---|---|---|
| `manager_faults` | kernel, 1 interface with a port, 1 peer, 2 keys; the file at start has a peer with or without a client token; saves fail, each driver call fails, the daemon ends anywhere, also inside `applyInterface` | `TypeOK`; success means the device is the image of the configuration (`AckedIsLive`); a start repairs what is left (`BootConverges`); a device gains only what is on disk (`GainsAreSaved`); the daemon implements `Keeper` (`ImplementsKeeper`) | 318,000 |
| `manager_host` | kernel, 2 interfaces, ports 0 and 1, forwarding and block list; the daemon ends anywhere | ports stay unique (`PortsUnique`); no orphan device (`NoOrphanDevice`); changed settings reach every interface that is up (`SettingsApplied`) | 18,000 |
| `manager_routes` | kernel, 2 interfaces over one routing table, 2 peers each that may share a prefix or the default route, limited or not, enabled or not; 2 keys; forwarding switched on and off | keys stay unique (`KeysUnique`); prefixes and policy routing of enabled peers (`EnabledPeersRouted`), exactly their limits (`LimitsEnforced`) | 819,000 |
| `login` | 2 requests, 2 clients, limit 2, block and window 2 ticks; saves fail, `totp reset`, the daemon ends anywhere | `TypeOK`; failures bounded although admission and record are apart (`FailuresBounded`); a confirmed factor is on disk (`BindingSaved`); a session only for a login whose own code was right, whatever it read of the binding before (`SessionsNeedFactor`); a block is served (`BlockServed`) and ends (`BlockEnds`) | 711,000 |
| `dns_proxy` | 2 datagrams and 1 connection at a time, 3 resolvers, a counter that wraps at 4, a list that changes | `TypeOK`; the proxy implements `Drain` (`DrainsOnClose`); every resolver is asked (`GivesUpAfterAll`); liveness `OnlyClientsDelayClose` | 145,000 |
| `netstack` | 1 flow of either kind, reads of 1 or 2 units, a bucket of 2 and a limit of 1, spans of up to 1 tick, sides that may never read, forwarding that changes, `Close` and aborts at any moment | `TypeOK`, `NothingTruncated`, `FlowPaced`; liveness `SocketsReturned`, `RequestEndPassed` | 397,000 |
| `update` | 2 updaters, 2 new files, Unix and Windows, failure, kill and power loss at every step; 36 versions | `TypeOK`; a binary that starts is left (`BinaryLeft`); the two renames exclude each other (`ReplacesAlone`); the comparison is the reference order (`DecidesByOrder`) | 218,000 |
| `client_two` | 2 requests that may overlap, 2 supervisors, outages at any moment | `TypeOK`; a disconnect holds (`DisconnectHolds`) and a wanted tunnel has a supervisor (`Supervised`), unless requests crossed | 1,148,000 |
| `client_one` | 1 request at a time, 2 supervisors, outages at any moment | liveness `Recovers`, `StaleSupervisorsEnd` | 56,000 |
| `whitelist_refresh` | 1 datagram at a time, 1 TCP connection, 2 names (1 listed literally), 2 addresses (1 a DNS server), one change of an answer, the proxy may not start | `TypeOK`, `StopClears`, `ServersRouted`; liveness `Converges`, `StopEnds` (unless a client goes on asking) | 252,000 |

### Runs that end in a counterexample

Each checks what a comment, a test or a document of the repository says, and
TLC finds how the code does otherwise. The quoted lines are in `PROJECT.json`
under `findings`.

| Run | What happens |
|---|---|
| `manager_address_reuse` | `UpdatePeer` writes the new address into the live peer before it checks it. The request is refused, the duplicate stays in memory and rides along with the next save. |
| `netstack_limits` | Two flows of one peer each get a bucket of their own, per direction: together they move twice what the limit of the peer allows. |

### Bounds, and why they are enough

* *One or two interfaces, one or two peers.* The properties compare at most two
  peers or two interfaces; host state is shared by pairs, so runs about it have two
  interfaces. `manager_faults` has every fault and so the smallest configuration: one
  interface, one peer that is created, rotated, disabled and deleted. The theorems
  about its properties have any number of both. `manager_routes` has no faults; its
  theorems have crashes and failing saves.
* *Keys, ports, addresses.* Two keys make one collision and one rotation
  possible, ports {0, 1} the exception for port 0 and a port that `AckedIsLive` can
  miss; with three addresses one is the interface's and two are fought over.
* *Inputs* (`Patches`, `PeerInputs`, `SettingInputs`, `UpInputs` in `MCManager`)
  vary the fields the properties of the run read and fix the others.
* *Faults* are sets: a run that checks something which only holds while the
  driver works leaves "driver" out, and the property's comment says so.
  `NoOrphanDevice` needs a working `Remove`; `SettingsApplied` needs working
  saves and calls (section 5, settings retry, is what happens without).
  `LimitsEnforced` needs a working driver because failures of tc are only logged.
* *No operation is bounded in number*: `Manager` and `ClientApp` have no counters,
  their whole state space is searched.
* *`Monitors`* bounds supervisors that exist at once: with all slots taken a
  `Connect` waits in `Watch`. Two slots let a replaced supervisor overlap with
  its successor, which is what the code permits at any number. *`Users`* bounds the
  requests under way: two make every overlap of a connect, a toggle and a
  disconnect. The liveness properties are checked with one request at a time.
* *Whitelist*: one datagram and one connection overlap with each other, with the
  refresh and with `stop`. *`MaxChanges = 1`* bounds changes of answers, from arbitrary
  initial answers; `Converges` is about the time after the last change.
* *Login*: two requests make every overlap of two critical sections possible, two
  clients the sweep of one by the other (`MaxTracked = 2`: a table of two is full),
  `MaxFails = 2` one failure before the block and one more by an overlap. A window
  of two ticks puts one moment inside a block. One session id and one secret: ids
  are random and never compared with each other; with the id in use a login
  ends without a session (`NoSessionLeft`), and `SweepAbove = 0` lets the sweep
  run at once.
* *DnsProxy*: two datagrams overlap with each other and one connection with both;
  three resolvers and a counter of four make the wrap fall inside a walk. A loop
  that finds no free handler waits; the code would start one more.
* *Netstack*: one flow, since flows share only settings. A read of two units is as
  large as the bucket (64 KiB against a read of 32 KiB or a datagram of 64 KiB) and
  larger than the limit, so that without the floor of the bucket it would never get
  its tokens. `MaxTicks = 2` measures spans of no tick and of one; spans begin
  anywhere in a behaviour without end, so a bucket that was filled beyond its size
  while the flow was quiet shows in the first. `FlowsArePaced` has spans of any
  length. `MaxWaiting` bounds what is sent and not read, not what is sent.
* *Update*: two updaters, because the names admit one backup; two new files, one
  each, or two in a row. `MaxFiles` bounds downloads in a behaviour.
* *Symmetry* permutes peers with keys, interfaces, or updaters; only in runs
  without liveness properties.
* Deadlock is checked except where the system may really stop: a router that was
  stopped (`Whitelist`; `Tunnel.Up` makes a new one), a proxy that is closed
  (`DnsProxy`), flows that have ended (`Netstack`; each is used once) and all
  files used up (`Update`).

### Fairness

`ClientApp`: weak fairness of each goroutine's next step: goroutines are
scheduled, ticker and back-off end, and loading a configuration and raising a
tunnel return. None for `Request` and `NetworkChanges`: nobody has to ask for
anything, the network owes nothing. Strong fairness of `Leave`: a cancelled
context makes its case of the `select` ready for good, and Go chooses among
ready cases at random, so it is not passed over for ever. `Recovers` assumes
from some point on a wanted tunnel, a working network and no request under way.

`Whitelist`: weak fairness of Owner, Loop, each handler's lookups (which have a
deadline in the code) and the end of a connection that says nothing; strong
fairness of `LoopEnds` for the same `select` reason. None for `Stop`, for asking
and for changes of answers. Every query of a connection starts its deadline again,
so `StopEnds` assumes that from some point on none is asked on a connection.

`Login`: weak fairness of time. None for requests, which may stop anywhere, for
arrivals, `totp reset` or the end of the daemon.

`DnsProxy`: weak fairness of the loops, of `CloseReturns`, and of the steps a
handler makes by itself, with the deadline of an exchange among them. None for
answers of upstreams, and none for a TCP client: nothing makes it send, read or
leave, which is why `OnlyClientsDelayClose` names it.

`Netstack`: weak fairness of time, of each flow's handler and of its two copiers.
None for the two sides, which may never send, end or read. A copier's write to a
connection is possible only while the sink has room, so fairness of the copier
does not end a write the sink does not take: both liveness properties are about
sides that read again and again, and say so.

`Manager` and `Update` have no liveness properties: an operation of the manager
ends by itself, an updater may be killed at any time.

## 4. What is proved

Eight modules, for every choice of the constants that satisfies the named
assumptions of the module (inputs are of the right shape, sentinels are outside
the sets they extend, port 0 exists, requests and handlers are finitely many).

| Module | Theorem | States | Inductive invariant |
|---|---|---|---|
| `ManagerProofs` | `TypeCorrect` | `Spec => []TypeOK` | `TypeOK` itself. It includes that a job in progress names only interfaces of `mem`, which is what makes `mem.ifs[n]` of the apply steps an interface. |
| | `Durable` | `Spec => []AckedIsDurable /\ GainsAreSaved` | `DurabilityInv`, with `AppliedIsPersisted` and `SingleTarget` |
| | `NoOrphans` | the same for `NoOrphanDevice`, when the driver works (`~DriverFails`) | `OrphanInv` |
| | `KeysStayUnique`, `PortsStayUnique` | `Spec => []KeysUnique`, `Spec => []PortsUnique`, when the configuration at first start has unique keys and ports | `UniqueInv` |
| | `RefinesKeeper` | `Spec => ImplementsKeeper` | type correctness and `DurabilityInv` |
| `ManagerLiveProofs` | `AcknowledgedIsLive` | `Spec => []AckedIsLive`, whatever fails | `AckInv` |
| | `EnabledAreRouted`, `LimitsAreEnforced` | `Spec => []EnabledPeersRouted`, `Spec => []LimitsEnforced`, when the driver works (`~DriverFails`) | `AckFullInv` |
| | `ConvergesAtStart` | `Spec => []BootConverges`, whatever fails | `BootInv` |
| | `SettingsAreApplied` | `Spec => []SettingsApplied`, when saves and the driver work | `SettingsInv` |
| | `RetryCatchesUp` | one complete application makes up for one of the same interface that stopped, was cut short or was complete | none: about `Applied` and `ApplyStopped`, for any world of the type |
| `LoginProofs` | `TypeCorrect` | `Spec => []TypeOK` | `TypeOK` and `LocalsOK`: a step finds the local variables it reads set |
| | `FailuresStayBounded` | `Spec => []FailuresBounded` | `CountInv` |
| | `BlockIsServed` | `Spec => BlockServed` | type correctness |
| | `FactorNeeded` | `Spec => SessionsNeedFactor` | `FactorInv` |
| | `BindingIsSaved` | `Spec => []BindingSaved` | `SaveInv` |
| `DnsProxyProofs` | `ProxyDrains` | `Spec => DrainsOnClose` | `GroupInv` |
| | `AllAsked` | `Spec => GivesUpAfterAll` | `RoundInv` |
| | `TypeCorrect` | `Spec => []TypeOK` | `PlainTypes` with both: the bound of the wait group is that of what runs |
| `UpdateProofs` | `BinaryIsLeft`, `ReplacingIsAlone` | `Spec => []BinaryLeft`, `Spec => []ReplacesAlone` | `Inv` |
| | `DecisionsAreOrdered` | `Spec => []DecidesByOrder`, for any set of versions that `Weight` can weigh (`SmallVersions`) | none: the property is about the comparison alone |
| | `VersionsOrdered`, `NewerIsOrder` | `CompareSemver` is a linear preorder and `Newer` its strict part, for versions of any length | none |
| `NetstackProofs` | `FlowsArePaced`, `NothingIsTruncated` | `Spec => []FlowPaced`, `Spec => []NothingTruncated` | `Inv` |
| `WhitelistProofs` | `StopIsClean` | `Spec => []StopClears`, for any `Failures` | `StopInv` |
| | `ServersStayRouted` | `Spec => []ServersRouted`, when routes can be added | `ServerInv` |
| `ClientAppProofs` | `DisconnectIsFinal`, `WantedIsSupervised` | `Spec => []DisconnectHolds`, `Spec => []Supervised`, for any number of requests and supervisors | `Inv` |

`TypeCorrect` is also proved in `UpdateProofs`, `NetstackProofs`, `WhitelistProofs`
and `ClientAppProofs`.

*Durable.* `AckedIsDurable` is not inductive: a job that ends with success has
not looked at memory. `AppliedIsPersisted` says memory and file agree while a
job runs, and `SingleTarget` that only `Reconcile` and `UpdateSettings` work on
several interfaces - so the step that makes tokens and may fail to save them is
always the last one of its job. The proof has three parts: requests (everything
goes through `Commit`), steps of "apply", and the end and start of the daemon.
`GainsAreSaved` is about steps: an application gives the device at most what its
configuration has (`Gains`, call by call, also for calls that are skipped or stop),
which by `AppliedIsPersisted` is the file's; every other step gives no device
anything, and may take away before it saves (section 5, teardown before save).

*NoOrphans.* `NoOrphanDevice` alone is not inductive: memory can be ahead of the
file, and a later operation applies what memory says. The invariant adds that
each device that is present is named in `mem` *and* on `disk`. A delete removes
the device before it touches either, a create makes the device after both have
the name, and the driver operators create no device but the one they are
called for (lemmas on `Applied`, `ApplyStopped`, `Unplugged`).

*KeysStayUnique, PortsStayUnique.* Uniqueness of `mem` and `disk` together: the file is only
ever replaced by memory, memory by the file. A request that passes the checks of
`CreatePeer`, `UpdatePeer`, `CreateInterface` or `UpdateInterface` keeps `mem`
unique, also the half-done update that is refused for its address; tokens,
link states and settings change no key and no port.

*RefinesKeeper.* Every initial state of `Manager` is one of `Keeper`, and every step
maps to `Keep`, `Stray`, `Report`, `Stop`, `Start` or to no step. The interesting
case is the last step of a job, which may make tokens and fail to save them: it
answers with an error then, and with `ok` only because `DurabilityInv` says that
memory and file agree while a job runs.

*AcknowledgedIsLive, EnabledAreRouted, LimitsAreEnforced.* The three look at the host
only at the moment of an answer, so what must be carried through is small
(`AnsweringInv`): a job that may still succeed names the interface it answers for.
`SucceedsByApplying` says that such an answer is new only in the step that applies
this interface (everything else that answers success leaves host, configuration and
answer as they are), and `AppliedImage` and `AppliedFully` say what that
step leaves behind. They are proved call by call: each driver operator has a lemma
that says what it changes and what it leaves alone (`HostKept`: other interfaces'
devices and block lists, and a forwarding that is on stays on), and the stages of
`Applied` follow by composition (`PreparedKept`, `PlumbedKept`, `RaisedKept`). The
routes of an old list are removed before those of the new one are added, which is
what `EnabledAreRouted` rests on when peers exchange prefixes. A prefix that another
interface has in the one table is not added (`RoutedElsewhere`); the application touches
no other device, so what was elsewhere still is when it answers (`ElsewhereKept`). That
the other one keeps it later is not claimed (section 5, shared prefix). The one hypothesis is the
code's: routes and limits that fail are logged and the operation succeeds.

*ConvergesAtStart.* While `Reconcile` runs and nothing has failed yet, each interface it
has dealt with is settled: the image of its configuration, or absent
(`Reconciling`). A later application touches no other device; a failure is
remembered in the answer, so nothing is claimed of such a start. No hypothesis is
needed on what the host looked like before.

*SettingsAreApplied.* Not inductive by itself: a change of the settings is in memory
at once and reaches the interfaces one by one, and so does a start, which may find
an interface that no longer has its block list. The invariant excepts the interfaces
that the running job has still to apply; a job begins with all of them as exceptions
when it changes settings or starts, with its own one when it changes one
interface, and a crash leaves no claim until the next start. The theorem says
what applying gives an interface; that an OS stack stops forwarding when it is
switched off is not in it, and false (section 5). Each step of `Manager`
has to be checked for the interfaces it does not name (`OthersEnforced`).

*RetryCatchesUp.* The other theorems say that an answer or a start leaves what the
configuration asks for; this one says that the way there does not matter. `AppliedIsFull`
computes the world after a complete application as a function of the one before
(`FullDev`, `FullTable`, `FullRules`, `FullForwarding`), stage by stage.
`StoppedIsMidway` and `AppliedIsMidway` show that any stop, skipped call or partial
list leaves a part of that (`PartOf`, `IsPartOfHost`), and `MidwayIsFull` that the
function gives the same of the part as of the original. It says nothing of a
configuration that changed between the two: the routes, the mark or the port that only
a changed configuration leaves behind are in section 5.

*VersionsOrdered, NewerIsOrder, DecisionsAreOrdered.* The comparisons are recursive
functions on positions. `ScanExists` and `ScanDecides` say what such a function
returns, for any length: the first sign that is not 0. No induction is needed, because
a sequence of signs has a least position with one, and a position where the function
returned something else would have a least such position too (the library's theorem that the
naturals are well-founded). `LeadsChained` and `LeadsOpposite` lift
what holds of the signs at one position to the comparison, and identifiers are
compared by cases. `DecisionsAreOrdered` then compares with `Weight`, which reads a version
as a number of five digits: the first digit that differs decides. It is limited to
versions with digits that fit, as `Weight` itself is; `VersionsOrdered` is not.

*FailuresStayBounded.* The failures on record and the requests that can still add
one are counted together: their sum stays below the limit plus the number of
requests. An admission finds fewer failures than the limit (or deletes them), and
a record takes its request out of the admitted ones.

*FactorNeeded.* Every request past its code has had it found right under a bound
factor, and one that read "bound" read the truth: `bound` is never reset while the
process runs, so only a login that read "not bound" can have read too early, and
that one binds before it goes on.

*BindingIsSaved.* Unless the disk failed or the file was removed, a bound factor is
complete in `totp.json`, or some login has still to write it (before "open", or
with that file or the temporary one in its hands), or it is complete in the
temporary file and somebody has still to rename it. While anybody writes or renames,
the temporary file is absent, complete, or in the hands of a writer. When nobody
saves any more only the first case is left.

*ProxyDrains.* The counter of the wait group equals the number of loops and handlers
that run (`GroupInv`), so `CloseReturns` finds none, and a handler is only started
by a loop that is itself counted. That invariant gives each step of the proxy as
a step of `Drain` or none.

*AllAsked.* `tried` is exactly the resolvers of the turns so far, counted from
`first` modulo their number; at the last turn these are all of them.

*BinaryIsLeft, ReplacingIsAlone.* `Inv` says that the names on Unix lead to synced
content and on Windows one of both does, for the names and for what the disk has
of them (power loss goes from one to the other); that a temporary file has no
name yet and belongs to one process; and that on Windows every file a process runs
from still has a name. The last one is what makes the updaters exclude each
other: one that has moved the binary aside runs from it, so `.old` is held, and
the next one's rename fails.

*FlowsArePaced.* What a direction was let through in the present span and the
tokens left are at most a bucket and the limit times the ticks: the pacer moves
from the second to the first, a tick adds at most the limit, and a new span begins
with at most a bucket. A read fits the bucket because the bucket is never smaller
than the largest read (`NetstackAssumption`; 64 KiB in the code). *NothingIsTruncated.*
A copier of a connection that was not aborted ends only at the end of its source,
with nothing waiting and nothing in hand: the pacer does not end it, by the above.

*DisconnectIsFinal, WantedIsSupervised.* As long as requests of the two kinds do not
cross, the place of any request tells whether the tunnel is wanted (`Intents`). An
unwanted tunnel that is up then has somebody about to lower it: a disconnect, or a
supervisor between its `Tunnel.Up` and its second look at `desired` (`Undone`). The
current supervisor gives up only when the tunnel is unwanted, and while it is wanted
either there is one or a connect is about to arm it (`Watched`). A request that starts
beside none of the other kind, after a crossing, finds the three again: a connect makes
the tunnel wanted and will arm a supervisor, a disconnect makes it unwanted and will
lower it (`ConnectStep`, `DisconnectStep`).

*ServersStayRouted.* The servers are routed by the first step and are among the
addresses every refresh starts from, so pruning keeps them.

*StopIsClean.* A closed proxy takes no datagram and no connection; `stopCh` is
closed after the last handler is done, of connections too; the loop ends after that; routes are removed last. The
invariant is this chain, one conjunct per state of the Owner.

### Only model-checked

Every invariant and every property of steps that a run checks is also a theorem. What stays
with TLC is liveness (`Recovers`, `StaleSupervisorsEnd`, `Converges`,
`StopEnds`, `BlockEnds`, `OnlyClientsDelayClose`, `SocketsReturned`,
`RequestEndPassed`), since the prover handles neither fairness nor `ENABLED`, and
the counterexample runs, which are TLC's by nature. The theorems with a hypothesis
(faults that do not happen, versions with a weight) say nothing of
the other instances; section 5 says which of these the code does not satisfy.
`AckedIsDurable` is proved (`Durable`) and, on the instance, a consequence of
`ImplementsKeeper`.

## 5. What is not modelled, and what was seen without a run

### Abstractions

* *Manager*: names, descriptions, DNS lists, MTU, keepalive, time stamps, the
  mock driver; a second address family; the same prefix given to two kernel
  peers (the kernel moves it to the last one). A driver call takes effect or fails
  without one, except rate limits and drop rules, which may end in part; a
  `DeleteInterface` is cut off after its live side as a whole, not inside it.
  fsync and the bytes of the file: `Save` either replaces the file or does not.
* *Login*: password and code checking, cookies, the proxy headers a client's key is
  taken from, demo mode and a second factor that is switched off.
* *DnsProxy*: the bytes of queries and answers, sizes, the parsing of list entries.
  The client of a datagram gets its answer or not; nothing depends on it.
* *Netstack*: packets, the gVisor stack, the event channel and `WriteNotify` (below),
  the idle deadline of UDP as a length of time, the entries of the block list. Flows
  that start while the stack closes find it closed or not.
* *Update*: HTTP, archives, the checksum itself (a download that does not match ends
  like any failure), service managers other than as a restart that may fail.
* *ClientApp*: dry-run mode, statistics, measurements of the prober, the text of
  statuses, the observer called on changes. `StopMonitor` cancels the context
  within its step; the code does so right after releasing the mutex.
* *Whitelist*: CIDR rules, wildcard matching, names not listed (relayed), the
  DNS messages, the system's resolver configuration; its failure is folded into
  a proxy that does not start. No run lets routes or lookups fail
  (`ServersRouted` and `Converges` would not hold); the proof of `StopClears` does.

### Disagreements seen, without a run

Modelling brought up more places where code and comment part. They are
recorded here because a property of a passing run steers around them.

* *Disabled peer, same AllowedIPs.* `UpdatePeer` removes routes by comparing old and
  new lists (`manager.go:592`): disabling a peer without changing its list removes
  none of its routes.
* *Settings retry.* `UpdateSettings` fails to save; the administrator repeats it;
  memory already has the values, so nothing is found changed: success, and the
  devices never hear of it.
* *Two full tunnels.* Two interfaces with a full-tunnel peer share the policy rules;
  taking one down removes them for both.
* *Connect against Disconnect.* Each request runs in a goroutine of its own
  (`run_fyne.go:157`, `run_fyne.go:186`). A `Connect` is between `setDesired(true)` and
  `Tunnel.Up`; a `Disconnect` runs to its end; the `Connect` raises the tunnel without
  a second look at `desired` (`app.go:208`), against "the explicit 'the user wants the
  tunnel down' action" (`app.go:221`). The other way round, a `Connect` that runs to
  its end between `setDesired(false)` and `stopMonitor` of a `Disconnect` and sets
  `desired` loses its supervisor. Both are reachable in the model: without `~crossed`,
  TLC finds either in the instance of `client_two`. The next request that runs alone
  puts things right, which the two properties include.
* *A connection that goes on asking.* `handleTCP` of the client's DNS proxy
  (`dnsproxy.go:143`) never looks whether the proxy is closed, and each query starts
  a new deadline of 30 seconds: a client that keeps asking on its connection keeps
  `close`, `stop` and so `Tunnel.Down` waiting (`StopEnds` names it).
* *Refresh against a query.* The refresh of the split routing copies the names,
  a query is answered and its address routed, and the refresh removes that route;
  it comes back with the next refresh (`Converges`).
* *Half-close towards the client.* `closeWrite` (`netstack.go:720`) looks for a
  `*net.TCPConn`; the client's connection is one of the stack, so the end of an
  answer is passed on only when the whole relay ends (`Tells`). With it, a relay
  whose remote side stays silent outlives `Remove`.
* *A side that does not read.* `io.Copy` writes without a deadline (`netstack.go:736`,
  `netstack.go:741`): a peer that ended its side and does not read what it was sent keeps
  the relay and both sockets for as long as it likes (`SocketsReturned` asks both
  sides to read).
* *Packet against Close.* `WriteNotify` (`netstack.go:563`) sends on the channel that
  `Close` closes, without the flag and the `recover` events have.
* *Settings and flows under way.* Limits, forwarding and the block list are read once
  per flow: a flow that runs keeps what it found. A new stack (`ensure`) starts with
  forwarding and limits, and with the block list only after the next
  `ApplyBlacklist`. Peers without a limit are left out of the table, so one whose
  prefix lies inside that of a limited peer gets the limit of the latter.
* *`totp reset`.* "The next login will require re-enrollment." (`totp.go:43`,
  `docs/server.md:282`): not while a daemon runs, which keeps its binding in memory
  and saves nothing more.
* *Sweep.* `login_limiter.go:33` says "the oldest entries are swept first"; only
  expired entries are, and with none the table grows past its limit.
* *First logins that overlap* can leave a truncated `totp.json` under its name for a
  moment (`BindingSaved` speaks of the time after the last save); a daemon that ends
  then does not start again with the file. A failed save is only logged.
* *DNS proxy.* `Start` "returns an error only when neither protocol can bind"
  (`dnsproxy.go:70`): either one failing is an error. The index of the next upstream
  is an `int` made of a 32-bit counter, which is negative at times where `int` has
  32 bits; UDP reads the counter and never moves it. A TCP client that is idle
  delays `Close` (`OnlyClientsDelayClose`).
* *Self-update.* "Install atomically replaces target" (`update.go:209`): not on Windows,
  where the name is absent between two renames. Two updaters that overlap can leave
  the older of two releases. Without checksums a download that reaches the cap is
  installed as it was cut off.
* *Client settings.* Two setters save in either order, outside the lock
  (`config.go:81`): the file may end as the first of two values.
* *Stale key pair.* Importing a public key in `UpdatePeer` keeps the stored
  private key of the old pair (`manager.go:563`), which the client configuration
  then contains (`store/model.go:56` describes the pair).
* *Teardown before save.* `DeleteInterface` removes the device (`manager.go:398`),
  `UpdatePeer` and `DeletePeer` the routes of the peer (`manager.go:593`,
  `manager.go:629`) before the save, against "All mutations are persisted before being
  applied" (package comment): when the save fails, what the file still has is gone
  from the host until the next apply or start. `GainsAreSaved` is the half of the
  comment that holds.
* *Shared prefix.* `AddRoutes` (`link_iproute.go:109`) takes "File exists" for success:
  a prefix that another interface has is not installed for this one, and when the other
  gives it up nobody adds it until the next apply. `EnabledPeersRouted` says that the
  table has the prefix when an operation answers.
* *Stale fwmark and port.* `kernel.go` writes the mark only when it is positive:
  a device that once had a full-tunnel peer keeps the mark. The same for a port
  that is set back to 0. `AckedIsLive` compares ports only when one is configured.
* *Forwarding off.* `ip_forward` is set (`link_iproute.go:86`) and never unset, and
  nothing else on an OS stack drops transit. `docs/server.md:361` says that with
  forwarding off transit is dropped, and line 364 that a change takes effect at once:
  true of netstack, and of an OS stack only for switching on. `SettingsApplied` asks
  for what the code does: in netstack both directions, elsewhere what is switched on.
* *Token retry.* A token generated for a view stays in memory when its save
  fails (`manager.go:801`), and a repeated read shows it without saving.
  `AckedIsDurable` leaves reads out.
* *Status at rest.* Writers of the status overlap with each other; after an
  outage that meets a request the last status written can contradict the
  tunnel. No property is stated about `status`.
* *SetAutoReconnect(false)* only sets a flag: a supervisor that runs goes on.
  The program sets it before anything runs.
* *A lookup that fails for a moment* looks like a name without addresses, so the
  refresh removes its routes until the next one.

## 6. Plan

Done, in this order: `Store`, `Driver`, `Manager` as the core of the daemon;
`ClientApp`; `Whitelist`; then `Keeper` and its refinement by `Manager`, `Login`,
`DnsProxy` with `Drain`, `Update`, `Netstack`, each with its run and its proofs.

Next, the model:

1. `ConfigStore`: client settings, changed under the lock and saved outside it, with
   the file as the last of two saves.
2. An abstract switch (wanted, up, eventually equal) implemented by `ClientApp` as
   long as requests do not cross.
3. The event channel of the netstack device: `sendEvent` and `WriteNotify` against
   `Close`.
4. Host tools in detail: chain names that collide, rules flushed and refilled.
5. The links of the client tunnel: what `Up` leaves behind when a step of it fails.

Runs stay few: a counterexample run gives way when a later module needs its place.

Next, the proofs:

1. `ClientApp` as an implementation of the abstract switch.
2. The safety half of the liveness properties: what a flow, a proxy or a router has
   given back when it has ended.
