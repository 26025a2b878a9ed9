# HaoVPN: models, checks and proofs

HaoVPN is a TLS-based VPN: a server process with a web console and a SQLite
database, and a client for Windows (desktop, command line, service). This
directory holds TLA+ models of both, wherever the code is hard to test: what
several goroutines, connections, requests, engines or processes do to shared
state, what a failure or a restart leaves behind, and the arithmetic of prefixes
on which several parts must agree. Paths below are relative to `src/internal/`.

Each definition names the Go function it models where the name differs.
`PROJECT.json` has the line ranges (`map`), the hazards the properties are for,
what was found, and for every checked property a mutant of the code it catches.

## 1. Inventory

| part | state | operations | modules |
|---|---|---|---|
| session table (`sessionmgr`) | `sessions`, `byIP`, `vpnIndex`, `viaIndex`, one `AccountSession` per login, a reconnect grace | RegisterVPN, RemoveIfConn, KickUser, the disconnect handler | `SessionMgr`, `ConnLife` |
| packet routing (`sessionmgr/route*.go`) | none of its own | HandleInbound, RouteOutbound, sendToAccount, the checks of source and destination | `SessionTraffic`, `Prefixes` |
| LAN registry (`sessionmgr/register_lan.go`, `tunnel/lan_registry_*.go`) | `client_lan_registry`, `ExitLANs`, `ViaRoutes`, `session_stats` | handshake, sync, refusal, disconnect handler, kicks of members, restart | `LanRegistry` |
| handshake (`tunnel`) | the locals of `doHandshake`, of the client's `runRaw` | authenticate, address, registry, policy, register, answer; refusals and what the client makes of them | `SessionMgr`, `VPNAccount`, `Transport`, `LoginRetry` |
| transport (`transport`) | connection state, callbacks, send queue, decoder, heartbeat | reader, writer, heartbeat loop, Close, banner before TLS, reconnect loop | `Transport`, `ClientEngine` |
| tunnel cryptography (`crypto`) | send counter, replay filter | Encrypt, Decrypt | `ReplayWindow` |
| addresses (`ippool`, `vpnaccount`, `persist`) | `Pool.allocated`, `Pool.next`, `users`, `ip_allocations` | EnsureVPNIP, ReleaseOnDisconnect, lease cleaner, create / patch / delete, boot | `VPNAccount` |
| policy (`vpnaccount/peer_*`, `dns_*`, `enable.go`) | `peer_routes`, `peer_access`, `dns_servers`; the marks of `PeerPolicyApplier` | save, mark, Apply, change and disable; edits, migration and seeding of the tables; AllowedIPs | `PolicyPush`, `PolicyTables`, `Prefixes` |
| web authentication (`auth`, parts of `api`) | sessions, lockouts, accounts | login, requests, logout of an account, password and account changes | `WebAuth` |
| probe defence (`probedefense`) | events, `ip_blocks`, exemptions in table and memory | accept, reject, automatic and manual ban, unban, exempt, reload | `ProbeGuard` |
| flow monitor (`flowmon`) | shards of a flow table | ObservePacket, a listing | `FlowMon` |
| server process (`serverapp`, `logger`, `logstore`, `maintenance`) | what the boot has opened, what it changed on the machine, the log's queue | boot stages, signals, shutdown, Enqueue, writer, retention | `ServerLife` |
| client engine (`clientapp`) | state, reconnect loop, `activeConn`, kill switch, runtime | Start, onConnect, OnClose, Stop, HardRestart, applyPolicy | `ClientEngine`, `ClientPolicy` |
| desktop (`clientgui`) | operation queue, mounted engine, windows | login, logout, quit, reconnection, background tasks | `ClientGui` |
| client processes (`cmd`, `singleinstance`, `autostart`, `config`, `credentials`) | coordination port, service, `client.yaml`, saved credentials | start, take over, save, install, stop, kill | `ClientHost` |
| Windows adapters (`tun`, `netstack`, `winnet`) | addresses and flags of the adapter, NAT rule, shared adapters, remembered pair | open, move, share, prefer the VPN's source, tear down; choice of an egress | `NetShare`, `Prefixes` |
| prefixes (`netutil`) | | contain, merge, validate, probe | `Prefixes` |

How they interact. A TLS connection has one goroutine that reads it; the
handshake runs inside its first `onData` callback and ends in `RegisterVPN`.
`SetOnClose(RemoveIfConn)` is set *after* the registration. `RegisterVPN` has two
critical sections of `m.mu` with the closing of the displaced connection in
between. A session that leaves the table is reported to `OnDisconnect`
(`serverapp/boot_session.go`) *outside* the lock: that handler releases the
address, unregisters it from `vpnIndex` and clears the LAN registry. The TUN
goroutine and the readers of all connections look sessions up under the read lock
and use them after it; to route one packet takes up to six lookups, each under a read lock
of its own. The administrator's requests, the lease cleaner and the
handshakes each make several calls on pool, database and index, none of them
under a common lock. A saved policy reaches a session only by a kick: the client
reconnects and its handshake reads the database again. On the client, the reconnect
loop calls `onConnect`, which applies the policy under `rt.mu`; OnClose of a
connection, Stop from the UI and the loop's own end take `activeMu`, `r.mu` and
`rt.mu` in different orders. The desktop creates and stops engines in background
goroutines and queues what is asked for meanwhile; desktop, command line and
service compete for one port.

What makes each part correct, and by which property it is said:

* **table** (`SessionReachable`, `SessionIndexed`, `ViaIndexExact`, `NoZombieSession`,
  `RemovedForCause`, `DeadSessionLeaves`, `KickedConnCloses`, `RefinesConnLife`): its
  indexes agree with it; a late removal, kick or report of an old session does not
  touch the new one; nothing dead stays; a session is reported once.
* **routing** (`OwnFramesOnly`, `Isolation`, `PathsTrue`): a session decrypts only
  frames of its own connection; a client gets packets only from those that may reach
  it, also when addresses and sessions change hands between two lookups; the policy's prefixes mean the same to the client's routes and filters, the
  server's checks and the kill switch.
* **registry and statistics** (`LanRowsAgree`): rows, sessions and members' routes agree.
* **addresses** (`HeldDistinct`, `FixedReserved`, `OnlineIndexed`, `PoolTrue`): two
  accounts never hold one address; pool, table and index agree when nothing is under
  way, also after a restart at any point; fixed addresses and leases are kept.
* **policy** (`StaleIsPending`, `TablesAgree`): an account that is online with an
  obsolete policy is marked; the tables name only accounts that exist.
* **connection** (`AnswersTrue`, `PacketsOnce`, `DeadConnNoticed`, `RefusalsTold`): the
  client's idea of the handshake is the server's; no packet is delivered twice; a dead
  connection is noticed; a refusal is understood.
* **access** (`AdminAccess`, `BansHold`): sessions end with what they rest on; bans stay.
* **client** (`EnginesOwned`, `IntentServed`, `BusyEnds`, `LoggedOutUnshared`,
  `StoppedIsClean`, `StatusTrue`, `StopReturns`, `AppliedAsPolicy`, `PolicyUndone`): no
  engine without an owner; what the user asked for is done; a stopped engine leaves
  nothing; what is shown is what is.
* **machines** (`FlowsTrue`, `ExitsClean`, `EnginesAlone`, `FilesTrue`, `ShareTrue`,
  `SourceTrue`, `OutboundTrue`): processes leave the machine as they found it, one
  engine per machine, files that load, sharing that has an owner, the right adapter.

## 2. Modules

| module | what it is |
|---|---|
| `SessionMgr`, `SessionMgrProofs` | the table, the handshake, Close and its callback, KickUser, the reports; proofs |
| `ConnLife` | abstract: a session is new, online, left, reported, in this order, each once |
| `SessionTraffic`, `SessionTrafficProofs` | extends `SessionMgr` with the goroutines that carry packets; proofs, and those about `FlowMon` |
| `VPNAccount`, `VPNAccountProofs` | pool, `users`, `ip_allocations`, `vpnIndex` and all that moves an address; proofs |
| `PolicyPush`, `PolicyPushProofs` | saves, marks, Apply, kicks, against handshakes that read while they happen; proofs |
| `LanRegistry` | the reported networks of one account and the routes of one member that depend on them |
| `WebAuth`, `ProbeGuard`, `PolicyTables` | administrators' sessions; bans and exemptions; the tables behind a policy |
| `ServicesProofs` | proofs about `WebAuth`, `ProbeGuard`, `PolicyTables` and `LanRegistry` |
| `ReplayWindow` | abstract: one direction of a session as counters sealed, received, opened |
| `Transport` | one connection end to end with the filter in it; implements `ReplayWindow` |
| `LoginRetry` | refusals, from the server's error to the client's decision |
| `TransportProofs` | proofs about `ReplayWindow`, `Transport` and `LoginRetry` |
| `ClientEngine`, `ClientPolicy`, `ClientGui` | one engine and its locks; what it does to the system; the desktop around engines |
| `ClientProofs` | proofs about `ClientPolicy`, `ClientEngine` and `ClientGui` |
| `FlowMon`, `ServerLife`, `ClientHost`, `NetShare` | the flow table; the server process; the client's processes and files; the Windows network state |
| `MachineProofs` | proofs about `ServerLife`, `ClientHost` and `NetShare` |
| `Prefixes` | the arithmetic of prefixes in all the places that do it |
| `MC...` | instances for TLC. A run covers several modules that share no variable: `scene`, chosen in Init, says which one a behaviour is about |

**SessionMgr.** A connection performs one handshake and `RegisterVPN` builds one
session for it, so a session is named by its connection. `pc[c]` is the position
of the goroutine that reads `c`: `auth`, `ensure`, `registry`, `policy`, `load`
(the grace check), `lock` (first critical section), `drain`/`wait` (the victim's
connection), `mount` (second critical section), `setclose`, `check` (the state
check after `SetOnClose`), `sendok`, `switch`, `run`. `cst`, `cb` and `onClose`
follow `Conn.Close` and its callback, `kick` a `KickUser` that has taken a
session, `reports` counts calls of `OnDisconnect`. The constants are what varies
between deployments and accounts. Of its two assumptions `ConnAssumption` gives the sorts, and
`AddressAssumption` says when two connections have the same address: they are of one
account that is not `dynamic_session`, or one is of a dynamic account and the other of a fixed one.
The cursor of `Allocate` never returns to an address (ippool/pool.go:77), so what
a dynamic account gave back passes to nobody but a fixed account, which an administrator
places there (`PlaceOnAddress`). That no two accounts have an address at once is what
`HeldDistinct` of `VPNAccount` is about.

**SessionTraffic.** `rd[c]` is where the reader of `c` is inside `HandleInbound`
(lookup, decrypt, second lookup, the lookups of the routing, send, encrypt), `tun` the same for the
TUN goroutine. Each lookup of route_inbound.go:81-131 is a step: whether the sender is
somebody's via (`InboundIsVia`), who is online at the destination (`InboundReturn`, `InboundPeer`), whose
address it is (`InboundOwner`), whether the sender may reach that account (`InboundRights`), and the session
that advertises a LAN (`InboundVia`). `dst` and `checked` carry what an earlier lookup found to a later one. `fed` and `inbox` record whose frames a session decrypted and
whose packets it was sent. Reading `ps.Crypto` after the lock was released may
find nil: the panic that follows is an outcome (`GoSafe` contains it).

**VPNAccount.** One step per call on pool, database or index. `hs` is the
progress of a handshake, of its session, and of the disconnect handler; `admin`
and `cleaner` that of the administrator's request and of the lease cleaner;
`Restart` keeps the tables and rebuilds pool and index as `bootIPPool` does. The
session table is reduced to mount, refuse, displace and leave. `scene` says which
accounts exist, who logs in, which requests are sent. `Uncontended` is the
precondition of `HeldDistinct`: no requested address is in play (see findings).
Any call on the database may fail (`Failing`), and what happens then is what the caller does: go on, where the
error of RecordIPAllocation or ReleaseIPAllocation is discarded; end the request, where
UpdateVPNFields or DeleteUser fails after the address was released or rebound; or end half way with the server.
The addresses a failure has left half moved are `torn`, until a restart finds that
`users` and `ip_allocations` say the same of them (`Whole`). Everything the properties say
holds at the other addresses; that an address which a handshake or session holds is its account's in
the pool is said of torn addresses too.

**PolicyPush.** A policy is not kept as a value: of each copy (a handshake's, a
session's) the model knows whether something it was read from has been replaced
since (`stale`). A save replaces and then marks, in two steps; `Apply` is its
snapshot, directory query, online list, one step per kick (which may fail) and
`clearDone`. A copy is `lost` when it is stale and the code has forgotten it.

**LanRegistry.** `lanRows` is the table, `lanSess` what a session has in
memory, `lanHs` a handshake between two of its calls, `lanLeft` an ended session's
reader between `recordDisconnect` and the handler, `lanSync` a sync message, which is allowed
(`SyncAllowed`: a session of the via is there, and the lock is released), writes the rows
(`SyncRows`), reads them back (`SyncLoad`) and puts them into the session that is there by then (`SyncReload`),
and only then looks for members whose routes have gone.
`lanSlips` names the interleavings that the property has to except.

**WebAuth, ProbeGuard, PolicyTables.** A request is a record with the place it has
reached and what it has read; each database call and each critical section is
one step. Times are what is left of them. `waSess[t].late`, `pgLate`, `pgStale`
and `ptSlips` name exceptions.

**ReplayWindow, Transport.** `sendCounter` is what `Encrypt` has handed out, `last`
and `marked` are the filter of `Decrypt`, `got` is how often the packet of a counter
was delivered, `refused` the genuine packets that were refused. A packet that does
not open leaves the filter as it was (`Rollback`). `Transport` has both `Conn` of a connection: `sendQ`,
`net` (whole frames on the wire; half a frame waits in the Decoder and shows
nothing), `batch` (frames of one read still to be dispatched), `rd`, `quiet` (ticks
since the last heartbeat and the last read), `cb` (the callbacks that are set, which
the handshake replaces while frames arrive), `held` (counters handed out, not yet
queued). `cut` is a network that drops everything and tells nobody.

**LoginRetry.** An error is the sentinel `errors.Is` finds in it and the phrase of
its text that the classification knows. `lrCodes` says whether the server sends codes.

**ClientEngine.** `loop` is where the reconnect loop is, through `onConnect` and
`applyPolicy`; `stop[s]` where a caller of Stop is; `closing[c]` the once of a
connection's Close, with `activeMu` held across it. `slips` names exceptions.
**ClientPolicy**: `rt` is what the runtime counts on, `sys` what is installed; each
call to the system may fail, and `stage` may be cut by a cancelled context.
**ClientGui**: `queue`, `mounted`, `engine`, and `tasks`, the goroutines.

**NetShare.** `wintun` is the adapter (addresses, SkipAsSource, default route,
prefix), `share` what Windows shares, `pair` what the process remembers, `run` the
runtime of the running engine. Scripts fail, are killed when the context is
cancelled, and Windows adds 192.168.137.1 early, late or never. `slips` as above.

**Prefixes.** The operators are the functions: `AppendCIDRUnique`,
`desiredClientRoutes`, the upload filter, `DstAllowed`, the source check, the kill
switch's filters, `ResolveOutbound`. `Meant` and `Longest` are the reference
definitions they are compared with, by sets of addresses.

Type invariants (`TypeOK`, `..TypeOK`) are stated in every stateful module. Those of
`SessionMgr`, `SessionTraffic`, `VPNAccount`, `PolicyPush`, `ReplayWindow` and `Transport`
are proved; the proofs about the other services carry their own (`WaTypes`, `LanTypes`,
`TableTypes`, ...). TLC has checked the rest with each run's constants, but the
configurations list the properties only.

## 3. Runs

| run | module, cfg | what it asks | distinct states |
|---|---|---|---|
| `sessions` | MCSessionMgr, Sessions | indexes, causes, zombies, liveness, refinement of `ConnLife` | 59 k |
| `overlap` | MCSessionMgr, Overlap | violation: two handshakes of an account that overlap leave two live connections | |
| `frames` | MCSessionTraffic, Frames | frames of a displaced connection | 1.2 M |
| `isolation` | MCSessionTraffic, Isolation | who receives whose packets, while a via leaves and its address goes to a third account | 3.3 M |
| `nil_crypto` | MCSessionTraffic, NilCrypto | violation: a displacement clears `Crypto` under a packet | |
| `addresses` | MCVPNAccount, Addresses | pool, table, index and holders agree, with failing calls, a restart anywhere, the cleaner and the administrator at work | 4.8 M |
| `policy` | MCPolicyPush, Policy | who is stale is marked, whatever is saved while Apply runs | 5.0 M |
| `fresh_mark` | MCPolicyPush, FreshMark | violation: Apply deletes marks made while it runs | |
| `transport` | MCTransport, Transport | a connection with packets; a silent one on a network that breaks; the filter alone; a client that is refused | 0.4 M |
| `client` | MCClient, Client | the desktop's queue; an engine with two callers of Stop; policies applied, changed and undone | 0.5 M |
| `services` | MCServices, Services | LAN rows; accounts and sessions; logins and lockout; bans; tables | 2.1 M |
| `machine` | MCMachine, Machine | the flow table; the server process; the client's processes and files; the Windows network state; the prefixes of two accounts through edits, logins and advertised LANs; the egress for a LAN | 1.55 M |

Each takes between 20 seconds and 4 minutes with two workers.

Bounds and why they are enough.

* `SessionMgr`: two connections of one account. The hard cases are between an
  old and a new session of one account: displacement, a late Close, a kick of
  the old one. The proofs cover any number of connections and accounts.
* `SessionTraffic`: two connections, of one account with different addresses
  (`frames`), or three of three accounts (`isolation`): a `dynamic_session` account that is a via, the one with
  the route through it, and a fixed one that is placed on the via's address when the via has left.
  One packet at a time on each goroutine, any number in a behaviour. `Readers`, `Leavers`, `Kicked` and
  `Outbound` say whose frames, ends and kicks and whether packets from the TUN device are part of a run.
  `PlaceOnAddress` does not come between the calls of a release, and the account logs in
  afterwards; `VPNAccount` has every crossing. The proofs are for every value of the four.
* `VPNAccount`: three accounts, three handshakes, the addresses 1 to 4 with the
  gateway at 1, so that the pool is exhausted; one restart, and failing calls while no address is torn. `Probe` is 256 as in
  the code, which is the whole subnet here. The scenarios (`MCVPNAccount`) say who
  logs in and which requests are sent: the calm ones are within `Uncontended`, in the first
  a `dynamic_session` account logs in while a fixed one is created, in the fourth
  requests whose writes may fail are followed by others and by a restart; the busy ones have the
  cleaner, or requests that move and delete fixed accounts while they log in, with failing writes and
  without. A server that finds two fixed accounts at an address that `ip_allocations` gives to neither does not
  start (boot_ippool.go:40), and `Restart` is not taken.
* `PolicyPush`: two accounts (one that is marked and one that is not), one save,
  one change of an account and one Apply at a time; the proofs are for any number.
* `LanRegistry`: a via with one LAN and two connections, a member with one, one sync, a
  restart, and one of the other excepted interleavings per behaviour.
* `WebAuth`: two requests at a time, two tokens, one change of the password, two
  failures to a lock. `logins` has the clock and one session at a time, `accounts` the
  requests that change accounts and no clock. All requests come from one address, the
  case in which they share a lock.
* `ProbeGuard`: one address, which one event bans; a prefix that contains it may be
  exempt. Two requests of administrators cross, or one crosses a reject.
* `PolicyTables`: two accounts, two rows, two edits of different kinds under way,
  one of which may be the deletion of an account; an old database of two rows.
* `Transport`: up to three packets (`Limit`) from two goroutines, a window of one, a queue
  of one frame, two frames on the wire, a silence of one interval. A heartbeat behind one that is
  on its way is not sent again, and an interval is longer than the delivery of a
  frame (30 s and seconds in the code). Proved for any size.
* `LoginRetry`: 2 instead of 40 rejections of an account that is online, 2 instead of 8
  events before a ban; the counters do nothing in between.
* `ClientEngine`: two connections, one rejection, two callers of Stop. `ClientGui`: three
  engines (the mounted one, the one being stopped, the next), five clicks.
  `ClientPolicy`: one prefix which covers one of two gateways, two addresses, any
  sequence of policies.
* `FlowMon`: three flows of one account in two shards, two goroutines, a limit of two
  flows, four packets. `FlowTTL` 0: a flow expires with the next tick.
* `ServerLife`: every combination of history, required TUN and NAT; three log lines, a
  queue of one, one warning nested in another. What the boot changes on the machine is `forward` and `nat`:
  a Setup that fails may leave none, the first or both (rules and shared connections are one).
* `ClientHost`: two desktops, a command line and the service; four starts, two forms,
  five of both together.
* `NetShare`: two engines one after the other, two adapters, two LANs, two subnets, one
  change of the natural egress or of the pushed subnet. With fixed `local_lans` the path of
  `cleanupTUNAfterViaDisabled` with `hadVia` is not reached, and the adapter keeps its name.
* `Prefixes`: addresses of four bits, with a pool in the middle and private networks on
  both sides, rules that contain, touch and repeat each other, base and routes of up to
  two entries, a system of up to three routes. Containment is decided bit by bit: what
  can go wrong between three prefixes does with lengths 0 to 4.

Deadlock is switched off where connections and requests are finite and the system
may be idle for good. `PolicyPush` never stops, and is checked for deadlock.

Fairness. `SessionMgr!FairSpec`: weak fairness of the goroutine of each handshake, of
each Close and of each kick. `MCTransport`: of the reading, writing, heartbeat and
closing goroutine of each end, of the client's and the server's handshake. `MCClient`:
of the desktop's background tasks, the engine's reconnect loop, Closes, and a Stop that
has been called. Go schedules runnable goroutines, and none of them blocks for ever:
every TLS read and write has a deadline, the waits for `Done`, for the handshake's
answer and for the reconnect loop have timeouts. No fairness for users, clients,
administrators, packets, the network or failures.

## 4. What is proved

Every theorem is for all values of the constants that satisfy the named assumptions,
which TLC evaluates with those of the runs. TLC checked every property, and
the inductive invariants on the instances of the runs, before they were proved. The
proofs go action by action, with lemmas for what several actions have in common, and
each action by the conjuncts of the invariant that it can disturb.

**`SessionMgrProofs`** (`ConnAssumption`, `AddressAssumption`):

* `TypeCorrect`, `TableCorrect`: `IInv == TypeOK /\ TableInv` is inductive;
* `Reachable`, `Indexed`, `NoZombie`, `Reported`, `ForCause`: the properties
  `SessionReachable`, `SessionIndexed`, `NoZombieSession`, `ReportedOnce`,
  `RemovedForCause`;
* `ViaExact`: `ViaIndexExact`, from `IInv`: a step leaves the index and what it is made
  of alone, rebuilds it, or removes a session with its entries;
* `Refinement`: `SessionMgr` implements `ConnLife`.

The properties are not inductive on their own. `SessionIndexed`, for instance,
would be broken by a disconnect handler of an *old* session that unregisters the
address of the new one; that it cannot happen needs who still owes a report
(`OneReporter`), that an unmounted connection owes none (`Unmounted`), that a
current one owes none (`CurrentUnreported`), and the order of Close, `SetOnClose`
and the state check (`CallbackOrder`). `TableInv` is their conjunction with the
properties.

**`SessionTrafficProofs`** (the same assumptions): `FramesStayOwn` (`OwnFramesOnly`),
`Isolated` (`Isolation`, with each lookup of the routing a step of its own), and `TableCorrectWithTraffic`: with readers, the TUN goroutine
and readers that panic, the table keeps its properties. `TrafficInv` adds to `IInv` what
the lookups made so far have told a reader (`ReaderOK`): past the identity check it works for its own
session; the account whose rights it found was permitted, and has had the destination for its
address; the session it will send to is one `Isolation` permits. Rights do not change while a session
lives, so what was true at the lookup is true at the send; who *has* the address may change, and that
is the exception. Behind it: routes, of sessions and in the index, are managed routes (`RoutesManaged`), and an
address is indexed under an account that has had it, a session under its own address
(`Addressed`). In `TableInv`, `AddressHeld` says that an address is indexed under who is online at it,
or under nobody.

**`VPNAccountProofs`** (`Parameters`, `UsersAssumption`: there is a last id;
`AccountsAssumption`: at the first start fixed accounts have addresses of their own):
`AddressesTyped` without a condition; `AddressesApart` (`HeldDistinct`) and `OnlineFound`
(`OnlineIndexed`) under the condition the properties have, `Uncontended`;
`FixedKept` (`FixedReserved`, and `FixedInPool`: where a write failed too) and `PoolKept` (`PoolTrue`, at all
addresses but those where a discarded error has left the row behind) while requests only create accounts
(`OnlyCreates`). Every call on the database may fail in all of them, any number of times if the scenario says so. These conditions are about who does what and not about what the state
is: logins and their ends, leases, creations and restarts come in any order and number, and
restarts at any point. The cleaner and the requests that take an address away are outside, and
must be: §5 and §6 list what they break. The invariant is `AddrInv`; its core is `FreshAlone`: an
address that its holder may give back was taken since the last restart, so it lies
behind the cursor, and nobody else has come to use it. A row that a failed release
left active (`Stale`) is of such an address, and harmless until a restart. Every other address in use is
its account's in the pool (`HeldInPool`, `ActiveInPool`, `FixedInPool`).

**`PolicyPushProofs`**, for every set of accounts: `PolicyTyped`, `PolicyPending`
(`StaleIsPending`), `Inductive`. The strengthening is `ClearedIsFresh`: an account
that a running Apply is about to clear is up to date, or was marked again, or is
about to be. Two lemmas carry the cases: `SaveKeeps` (a save that marks everyone
whose policy it replaces) and `QuietKeeps` (a step that makes no copy stale).

**`TransportProofs`** (`ReplayAssumption`), for every window and limit: `FilterCorrect`.
`PacketsOnce` is `NeverTwice` (a packet is delivered at most once, and only if it was
sealed) and `RefusedForCause` (a genuine packet is refused only as a repetition, or when
one more than a window ahead of it was delivered). The strengthening is
`ReplayInv == ReplayTypeOK /\ FilterExact /\ RefusedForCause`; `FilterExact` relates the
filter's memory to what was delivered.

With `TransportAssumption` and `LoginRetryAssumption`, for queues, pipes and senders of any
size and number:

* `TransportImplements`: `Transport` with its handshake, loops and failures implements
  `ReplaySpec`, and through it `TransportPacketsOnce`. Every action of the connection either
  stutters or is one step of the filter; the invariant is that counters held by a sender,
  in a queue, on the wire or in a batch were sealed;
* `TransportTyped`, and `AnswersKept` (`AnswersTrue`): the client's idea of the handshake is
  the server's. `AnswersInv` follows the answer from queue to wire to batch (`AtMostOne`,
  `OneAnswer`) and says where the server's goroutine is when it has decided (`OneDecision`);
* `RefusalsKept` (`RefusalsTold`): which errors end the attempts is a matter of the errors alone,
  in lemmas about the chain from the server's error to the client's (`DialErrors`,
  `AnswerFatal`, `AnswerKept`); the state only remembers the last one.

**`ServicesProofs`**:

* `AccessKept` (`AdminAccess`, `WebAuthAssumption`), for any accounts, tokens and a finite set of requests at a
  time. What a login has read stays true, or the request that changes it is still about to end
  the account's sessions, or has crossed the login (`RowRead`); the guard of the last administrator
  was asked before a write (`Guarded`); the failures, together with the logins that may still
  fail, are bounded (`FailuresBounded`);
* `BansKept` (`BansHold`, `ProbeGuardAssumption`), for any addresses, exemptions and clerks, by `GuardInv`;
* `LanRowsKept` (`LanRowsAgree`, `LanAssumption`), for any connections and networks. Rows of a via are held by
  its session, a handshake or a handler that will clear them, or were written by a refused handshake, by a
sync that came too late, or before a restart (`RowsHeld`); what a sync read back and has not yet put into
the session differs from the rows only if another writer crossed it (`SyncIs`); session_stats lags
  behind the session only while the writer that will correct it is under way (`UpIsOnline`, `OnlineIsUp`);
* `TablesKept` (`TablesAgree`, `PolicyTablesAssumption`: accounts and addresses are told from what
  stands for others), for any number of editors and rows and an old database of any size. `PtInv`: rows
  and edits have the shape the handlers give them, an edit names accounts that exist or were deleted
  under it (`Named`), and per table what its checks leave (`OneRow`, `FileServed`, `ForSomebody`,
  `NoneHidden`, `AccessOK`). `RoutesKept` rests on `MigrateKeeps` (an account has the same routes in
  both forms of the table), and that on `FirstOfKey`: every old row has a first one with its key, by
  the well-foundedness of `<`.

**`ClientProofs`**:

* `AppliedKept` (`AppliedAsPolicy`) and `UndoneKept` (`PolicyUndone`), for any policies
  (`PolicyAssumption`: the names of what a failed call leaves are not routes). `PolInv`: the runtime knows what it has
  installed, or the failure is in `residue` (`RoutesKnown`, `DnsKnown`, `ViaKnown`); there is
  no record without a device (`DeviceThere`); and per stage what of the policy is installed
  (`Staged`: until the via exit is there, deferred routes may be an older policy's);
* `EngineClean` (`StoppedIsClean`) and `StatusKept` (`StatusTrue`), for any number of connections and
  callers of Stop (`EngineAssumption`). `EngInv` says what is clean by which callers are still before which
  statement: no caller before the loop's end, so the loop is gone or is one that Stop gave up on,
  in a place from which it starts nothing any more (`LoopStopped`, `LastPCs`); none before
  `closeDataplane`, so nothing is installed and no prefix is left that could be protected
  (`DataplaneClosed`); none before the kill switch's removal (`FiltersRemoved`). Behind it: an open
  connection is the loop's, and from `kept` on it is the one Stop closes (`OpenIsMine`);
* `OwnedKept` (`EnginesOwned`), `ServedKept` (`IntentServed`) and `UnsharedKept` (`LoggedOutUnshared`), for
  any number of engines and clicks (`GuiAssumption`). Of the mounted engine and those in the hands
  of goroutines, `OwnInv` says: an operation's task runs exactly while the queue is busy, it is the only one,
  nothing is mounted meanwhile, and it has the engine that still dials. Without "the only one" a queued
  logout could stop one engine while a restart mounts another. `SharedInv`: who set up ICS is up, and
  ICS that nobody of them explains was kept by `StopKeepICS`.

**`MachineProofs`**:

* `EndsClean` (`ExitsClean`, `LogAssumption`: the sizes of the log are numbers), for any number of lines, a queue of
  any length and warnings nested as deep as they come. A stage of the shutdown is reached when what the
  stages before it close is closed (`ClosedInOrder`), the machine is changed between two stages of
  the boot and two of the shutdown only (`MachineUndone`), and a line that `Close` owes is stored, given
  away or still in the queue (`Owed`). Before the stage of the NAT the machine is unchanged, and after
the Teardown it has no rules and no shared connection; forwarding stays on, and a server that fails
in between leaves what it has;
* `AloneKept` (`EnginesAlone`), for any accounts, starts and forms (`HostAssumption`: accounts and processes are
  told from nobody). In `AloneInv` a process listens on the port exactly while it is past its start
  (`PortHeld`), the SCM's word about the service is true of its process (`ServiceTold`), and an engine is in a
  process past its start (`EnginesPlaced`): a stop of the service that comes while it starts would
  otherwise leave a loop that dials without the port;
* `FilesKept` (`FilesTrue`): by `FilesInv` what the desktop that has the port works with is as good as
  client.yaml, until `Validate` has refused something;
* `ShareKept` (`ShareTrue`) and `SourceKept` (`SourceTrue`), for any adapters, LANs, subnets and addresses, under
  `NetAssumption`: the pool does not contain 192.168.137.1, the address Windows gives to ICS. Nothing in the
  code checks that; a server configured with it would hand it to a client. `ShareInv`: what is
  shared has an exit, is being preferred, or has the slip of the step that left it (`Explained`), and the
  pair the process remembers differs from the one that is shared only after `reuse_live` took another
  (`MisInv`), which is why a teardown ends the sharing it should. `SourceInv` is about an open
  device (`AddrOK`) and an exit over ICS (`MarkOK`); it needs `ShareInv` for who may touch the adapter.

`SessionTrafficProofs` also has `FlowsKept` (`FlowsTrue`, `FlowAssumption`), for any number of shards,
flows and goroutines: in `FlowInv`, whoever holds all the locks is alone with the table, and what
it has found is so until it writes (`AllHeld`, `FoundNone`, `RoomLeft`).

The exceptions that a property names (§5) are part of what is proved: nothing
else breaks it.

Only model-checked: liveness (`DeadSessionLeaves`, `KickedConnCloses`, `DeadConnNoticed`,
`BusyEnds`, `StopReturns`: fairness and ENABLED are beyond the prover); `FixedReserved` and
`PoolTrue` outside `OnlyCreates`, which hold for the scenarios of the run and not for
every one; and `Prefixes` (`PathsTrue`, `OutboundTrue`): what a prefix contains is a division by
`2^n`, and lists of prefixes are merged by a fold, and neither powers nor induction over a list is
within the prover's reach.

## 5. Findings

Three statements of the repository are refuted by runs that expect a violation:
`overlap` (`OneLiveConn`), `nil_crypto` (`NoNilCrypto`) and `fresh_mark`
(`FreshMarkKept`). The others were met where a property of a passing run
had to name an exception before it held, or where a run reaches what the text says
does not happen. An exception is a condition on the state, or a
member of a set of slips (`lanSlips`, `ptSlips`, `slips`, ...) that only the step at
fault adds to; everything else the property says is checked. `PROJECT.json` has each
finding in full, with what the repository says at that place.

| property | where | what the code does |
|---|---|---|
| `FixedReserved` | vpnaccount/delete.go:49 | deleting a dynamic account releases the address it once had, which may be a fixed account's by now |
| `FixedReserved` | vpnaccount/patch.go:43 | a patch or deletion whose write fails has already released the address: the account stays fixed on an address that is free |
| `PoolTrue` | vpnaccount/provision.go:180 | errors of RecordIPAllocation and ReleaseIPAllocation are discarded: pool and table differ until a restart |
| `Isolation` | sessionmgr/route_inbound.go:119 | the rights are those for the address's owner, the session is looked up later: the address may have passed to another account |
| `HeldDistinct` | vpnaccount/provision.go:175 | a requested address that a handshake takes meanwhile is released and bound again: two accounts use it |
| `AnswersTrue` | transport/server.go:67 | a request dispatched before `Attach` has set the callbacks is lost |
| `DeadConnNoticed` | transport/conn_loops.go:27 | the read deadline does not know of the heartbeat's pause |
| `StatusTrue` | clientapp/engine_connect.go:179 | the kill switch of a connection that was just lost is disabled by its own `onConnect` |
| `StatusTrue` | clientapp/engine_connect.go:195 | OnClose shows "reconnecting" although the loop is being stopped |
| `StatusTrue` | clientapp/engine_state.go:323 | the first rejection of an account that is still online ends the login |
| `StopReturns` | clientapp/engine_state.go:303 | the reconnect loop stops itself and waits for itself for 45 s |
| `StoppedIsClean` | clientapp/engine_lifecycle.go:158 | a second Stop returns while the loop is still running |
| `AppliedAsPolicy` | clientapp/runtime_policy.go:108 | a new address resets the adapter's DNS servers, which are then taken for installed |
| `AppliedAsPolicy` | clientapp/runtime_policy.go:268 | routes that are kept do not count: one failed addition is a hard failure |
| `IntentServed` | clientgui/reconnect_dns.go:108 | a quit that is queued behind a dispatched logout is not done |
| `LoggedOutUnshared` | clientapp/hard_restart.go:80 | an aborted hard restart leaves the sharing it kept on |
| `EnginesOwned` | clientgui/login.go:167 | an engine is stopped before it is started, and then started |
| `AdminAccess` | auth/login.go:76 | a login that checked the old password gets its session after the change |
| `BansHold` | persist/security_store.go:120 | a temporary ban replaces a permanent one |
| `BansHold` | probedefense/exempt.go:46 | two reloads that cross leave the older list in force |
| `LanRowsAgree` | serverapp/boot_session.go:44 | the handler of the old session clears the rows of the new one |
| `LanRowsAgree` | vpnaccount/peer_policy.go:85 | rows of a via that is not online give members routes |
| `LanRowsAgree` | tunnel/lan_registry_sync.go:55 | a sync that was allowed writes rows when the via is gone |
| `TablesAgree` | persist/dns_servers.go:142 | members and excludes replaced at once: hidden excludes stay |
| `TablesAgree` | persist/peer_access.go:142 | access in one direction only |
| `ExitsClean` | serverapp/engine.go:89 | `Fatal` skips the deferred teardown of address and NAT |
| `ExitsClean` | serverapp/engine.go:76 | a Setup that fails leaves its forwarding, rules and sharing behind |
| `ExitsClean` | logstore/logstore.go:137 | the warning about a full queue is queued itself |
| `EnginesAlone` | clientgui/tray_config.go:149 | the service the tray starts always finds the port taken and ends |
| `FilesTrue` | clientgui/login.go:122 | settings that were refused are saved by the next switch of the tray, and do not load |
| `ShareTrue` | netstack/ics_enable_windows.go:94 | sharing is reused and remembered with the wrong adapter |
| `ShareTrue` | clientapp/via_exit.go:134 | sharing enabled by a cancelled Setup has no owner |
| `SourceTrue` | tun/tun_windows.go:136 | the fallback sets /32 beside a live 192.168.137.1 |
| `PathsTrue` | clientapp/policy_diff.go:40 | a gateway whose /32 is among the prefixes gets no route |
| `OutboundTrue` | netutil/probe_cidr.go:17 | the egress for a /32 is looked up for its neighbour |

## 6. Seen while modelling

What the models reach or the reading showed, without a sentence of the repository that
says otherwise, or without a property that would tell. Candidates for a ticket each.

*Server.* The allocation cursor never wraps (ippool/pool.go:77): released addresses are
unusable until a restart. A refused handshake does not give back its address
(tunnel/server_handshake_session.go:31) and has already written the registry (:38). A
handshake that has read the row before a change of the account goes online with it after the kick
(vpnaccount/enable.go:21). A restart between the halves of a rebind leaves two active
rows (provision.go:212). `drainOldConn` waits for the Close of the displaced connection and
not for its reader (sessionmgr/register.go:190). When re-reading a saved DNS policy fails, or the second
insert of `AddPeerAccessPair` does, nobody is marked (dns_write.go:99). A sync that
crosses a registration leaves `ExitLANs` different from the rows. A
dynamic account that is made fixed at the address of its session is kicked, and the session's handler releases
the address that is fixed now. A deletion after a dynamic account became fixed leaves an address taken in the pool until the next restart.
Failed writes or a restart within a patch can leave two fixed accounts at one address of which
`ip_allocations` knows neither: the next start ends with an error (boot_ippool.go:40). Deleting a DNS row that
shadows an address of the yaml leaves the address unserved until a restart
(dns_seed.go:17). The migration trims prefixes and does not normalise them;
`PRAGMA foreign_keys` inside its transaction does nothing (migrate_peer_routes.go:45, :149).
Removing an exemption that comes from the yaml has no effect; events stay after an unban, and
without `record_events` there is no automatic ban; an exempt prefix does not lift the bans of its addresses.
`AccessError` (sessionmgr/stats.go:54) is no sentinel, and unreachable after
`VerifyTunnelLogin`. `Server.Close` closes only the listener (transport/server.go:76).
`Fatal` does not flush the history's queue. The flow tracker takes `now` before the lock
(flowmon/tracker.go:168): LastSeen may go back.

*Client.* An empty DNS list in a new policy leaves the old servers. `RestoreDNS` deletes its
snapshot before it resets. `runRaw` does not notice a closed connection.
`Engine.Start` assigns `e.reconnect` outside the lock (engine_lifecycle.go:94).
`RemoveKillSwitchRules` does nothing if the filter engine was never opened.
`isReconnecting` in `ShouldFailFastHandshake` is always false. The
automatic connection can stay switched on after a failed login (tray_config.go:62).
`Validate` looks at `c.Auth.Username` only (config/client.go:119), and the template's is empty, so
`ErrConfigCreated` never appears (bootstrap.go:17). An uninstall leaves the
credentials. A service that is starting counts as running. `ensureServiceConfig` does not
update the path that autostart/service.go:20 says it tries to. A script that completed
while its context was cancelled counts as done (winnet/ps_windows.go:27), `isWinNATUnavailable`
matches any "无效", `IPEnableRouter` is never switched off, and the metric of an egress ignores its adapter's.

## 7. Plan

Modelled, in this order: the session table and its proofs; packets; addresses; policy and its
proofs; the connection with the filter and their proofs; the client's engine, policy and
desktop; web sessions, bans, tables and registry; processes and the Windows network; prefixes.

Proofs followed: packets over the table's invariant, addresses, the handshake's
answer and the refusals, the services and the tables, the flow table, the client's engine
and policy, its desktop, the processes and the Windows network. Every safety property of a run but
the two of `Prefixes` is stated by a theorem.

Left, the most important first:

1. an abstract allocator (who holds which address) implemented by `VPNAccount`, from which
   `AddressAssumption` and `PlaceOnAddress` would follow;
2. several vias for one member, and the order of their routes;
3. the remaining migrations and the reload of `server.yaml`.

## 8. Not modelled

* The fields of messages and their encoding, TLS, the ciphers and key derivation (a packet
  opens or it does not), captcha and password hashing (a password is right or it is not),
  the recognition of a probe's signature (a connection is one event or none).
* Device I/O, MTU probing, the platforms other than Windows: system calls succeed or fail.
* Rate limits, throttles and byte counters; log rotation and format; exports, audit records and the console's
  queries, which only read.
* The desktop's shutdown gives up on `Engine.Stop` after 15 s and releases the coordination port
  (clientgui/app.go:294): in `ClientHost` the Stop of a desktop that quits has returned.
* Widgets, templates, scripts, documents, key and certificate generation; most of `server.yaml`,
  which is read once.

Hazards without a property. Two are in `PROJECT.json` with their notes (ippool/pool.go:77,
vpnaccount/enable.go:21: the models reach them, so no property holds). Four more belong to
steps the models contain or leave out on purpose:

* tunnel/server_handshake_session.go:31, an address allocated by a handshake that then fails: `VPNAccount`
  reaches it, and it is released by a restart or the next login only;
* vpnaccount/provision.go:212, the restart between the halves of a rebind: `Restart` may come there,
  and the account keeps two rows for good;
* vpnaccount/patch.go:46, a new address makes the routes of peers obsolete: `PolicyPush` models marks
  by account and not by address;
* vpnaccount/dns_write.go:99, a failure after the save: the saves of `PolicyPush` do not fail.
