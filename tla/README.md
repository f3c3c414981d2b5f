# Verification of local.vibe

`vibe` is a daemon that gives local development servers stable names:
`http://blog.vibe` reaches the server that listens on some port of this machine.
The daemon answers DNS for its top-level domain, proxies HTTP and HTTPS by host
name, starts and stops the servers it manages, persists its routes, bridges OAuth
callbacks, and shows the routes of paired machines.  It is one Go process: every
HTTP request runs on a goroutine of its own, every managed child has a goroutine
around `cmd.Wait` or a pid watcher, and timers, pollers and peer refreshes run
beside them.  What is hard about it is what these do to each other.

This directory holds TLA+ models of that behaviour, TLC configurations that check
them, and theorems proved with TLAPS.  Paths below are relative to the repository.

## The system

| Component | State | Operations | Interacts with | Correct when |
|---|---|---|---|---|
| Process manager (`internal/daemon/process.go`, `process_*.go`) | `procs`, `adopted`, the startup state of each child | `Start`, `Stop`, `Adopt`, `OwnsPID`, the `cmd.Wait` goroutine, the pid watcher | called by every handler; calls the exit handler | no live child is lost from the tables; each death is reported once |
| Managed route (`api.go`, `autostart.go`, `managed_exit.go`, `daemon.go`) | the route's atomics `Running`, `Ready`, `PID`, `LastFailure`; `autoStarting`; who holds the port | request, recovery, start, stop, register, deregister, readiness poll, exit handler | process manager, route table | one start at a time; a stop reaches the child; a death shows; a request never kills a managed server |
| Route table and timers (`routes.go`, `managed_timers.go`) | `routes`, `ttlTimers`, `idleTimers` | `Add`, `Remove`, their hooks, `armTTL`, `armIdle`, `idleCheck`, `watchTrackedPID` | every handler | a TTL route goes at its deadline and no other registration goes with it |
| Persistence (`persistence.go`) | `routes.json` | `saveStickyRoutes`, `loadStickyRoutes` | every handler that changes a route; daemon start | a finished change survives a restart; a crash never leaves half a file |
| Ports (`daemon.go` `findFreePort`, `api.go` `vibePortClaim`, `handleRepair`) | the ports routes claim | find, claim, repair | register, start, update, `vibe.json` | no two routes hold one port |
| OAuth bridge (`oauth_bridge.go`, `oauth_worktree.go`) | listeners per callback port | reconcile | register, update, start | the listeners are those the routes ask for |
| Peers (`peer_*.go`, `internal/peer`) | pinned peers, invite, per-peer route cache | pair, remove, refresh, list | config file, TLS | only paired machines are trusted; an invite is used once |
| TLS (`internal/cert`, `startTLS`, `reloadTLSCert`) | CA and leaf files, the served leaf | ensure, reload | every saved change of the table, every peer list | the served leaf names the routes; HTTPS opens; one CA is trusted |
| Daemon lifecycle (`cmd/daemon*.go`, `cmd/serve.go`, `daemon.go` `Start`) | HTTP port, pid file, socket path; what launchd or the Task Scheduler runs | start, stop, restart; boot, death, respawn | all of the daemon's parts begin and end with it | port, pid file and socket name the one daemon that serves; an agent's daemon comes back; a restart replaces |
| DNS server (`internal/dns`) | the read loop; a goroutine per query | read, answer, forward, drop | begun by `Start`; upstream resolver | every question is answered and every reply parses |
| Origin checks (`origin.go`) | none | decide | every API request | only own pages may call the API |
| Host set-up (`cmd/setup_*.go`, `uninstall_*.go`, `pf_darwin.go`, `dns_snapshot_windows.go`, `doctor.go`) | pf.conf, anchor, LaunchDaemon and LaunchAgent, resolver file, trust store; Windows adapters' DNS, snapshot, portproxy, task | setup, uninstall, `pf-apply`, doctor `--fix` | operating system, other software, the daemon | re-running is harmless; other lines are kept; the redirect comes back; uninstall restores and sticks |
| Worktrees (`worktree.go`, `internal/gitwt`) | routes with a parent | discover, adopt, prune | managed routes | a gone checkout leaves no child |
| Pages, bookmark proxy, log scan, CLI, skill installer | templates and text | - | - | - |

The behaviours that are hard to test, each at its line, are listed under `hazards`
in `PROJECT.json` with the properties that watch them.

## Modules

### ProcessManager, ChildSupervision, ProcessManagerProofs

`ProcessManager` is `process.go`.  `procs`, `adopted` and `state` are the fields and
the local variable of that name; `waiter` and `watch`/`pending` are the program
counters of the goroutine around `cmd.Wait` and of the pid watchers; `reply` and
`told` record what a `Start` call returned and of which child the exit handler was
called.  Each critical section of `pm.mu` is one action: `StartJoins`, `StartSpawns`,
`StartRefused`, `StartCommits` and `StartReportsExit` are the exits of `Start`,
`WaitReaps`, `WaitRecords`, `WaitNotifies` its goroutine, `Adopt`, `WatchSeesExit`,
`WatchNotifies`, `WatchFails` adoption, `Stop` is `Stop`.  `Exits` and `InitReaps` are
the operating system.  A child is `alive`, then a `zombie` that still answers signal 0
(so `processAlive` is true of it), then `dead` once somebody reaped it.

`ChildSupervision` states what callers rely on without any of this: a name gets a new
child only when none is serving it, and each child gets one truthful verdict.
`ProcessManager!Supervised` is the refinement.

### ManagedRoute, ManagedRouteProofs

One name, the route objects registered under it over time, and every goroutine that
touches them, composed with the process manager (`EXTENDS ProcessManager`; its actions
are conjoined into the handlers' steps).  `pc`, `op`, `obj` and `child` are a handler's
position and locals; `poll` and `exit` are the readiness pollers and the running exit
handlers.  `Begins` holds one action per entry point: a request that finds the route
stopped, its upstream failing or its port wrong, `handleStart`, `handleRegister`,
`handleStop`, `handleDeregister`, the idle timer.  `Recovers` is `recoverManagedRoute`,
`Starts` the start sequence the three starting handlers share (`preflightPort`,
`procs.Start`, the stores that follow), `Stops` the stopping one.  `holder` is the
process that listens on the route's registered port.

A step reads what it decides on and makes the stores that follow; stores whose order
other goroutines can observe are steps of their own: PID before Running; the exit
handler's check, Swap and clear; and what a recovery does to a route that says it runs
(`RecoverProbes`, `RecoverClears`, `RecoverUnmarks`).  `killPort` lists the listeners, asks
`OwnsPID` of each and signals in three steps (`KillPortScans`, `KillPortAsks`,
`KillPortSignals`), between which the process may die or become the manager's.
`Reconciles` ends a registration; where the listener of its callback port is refused, it takes
the child and the registration back (`Removes`).

### RouteTimers, RouteTimersProofs

One name of `RouteTable` and what ends its registration by itself.  `AddInserts` and
`Deletes` are the critical sections of `Add` and `Remove`; the hooks that follow them
outside the lock are `Cancels` (`onRouteRemoved`) and `Arms` (`onRouteAdded`: `armTTL`,
`armIdle`, `watchTrackedPID`).  `ttlTimer` and `idleTimer` are the entries of
`s.ttlTimers` and `s.idleTimers`; `ttlArmed` and `idleArmed` are the timers the runtime
will still fire, which is a different thing when an entry was overwritten.  A timer
that has fired, a watcher and `idleCheck` are actors of their own (`Wakes`), each with
the look-up and the removal as two steps.  A registration stands for its deadline and
its process too, so no clock is needed: `Elapses` says its time is up.

### RoutePersistence, RoutePersistenceProofs

`Changes` is any handler that changes a route and saves; a rename is a removal and an
addition.  `ChangesUnsaved` are the registrations that save nothing, temporary ones and those
that fail after they entered the table; `Tries` and `RollsBack` an update whose listener is
refused, which puts the route back as it was (but for the new command of a managed one) and
saves nothing either.  `Fleeting` are the values of temporary routes, which are never listed.
`Lists`, `CreatesTemp`, `WritesTemp`, `Renames`, `SaveFails` are `saveStickyRoutes`, `Replies`
the answer to the client; `Dies` and `Loads` are a crash or shutdown and the next daemon's
`loadStickyRoutes`.  `table` and `file` are the route table and `routes.json`.  `last`,
`acked`, `overlapped` and `alone` are history: who changed a name last, what was
acknowledged, which saves ran while another did, and the names whose last save did not.

### PortClaims, PortClaimsProofs

The ports of all routes, where the other modules have one route: `table` holds what each
route claims (primary, callback and reserved port), `listening` who listens on each
port, `pc` and `call` the calls in flight.  `RegisterChecks` ... `Accepts` is
`handleRegister`, `AdoptDiscovers` `handleAdoptWorktree`, `StartBegins` and `StartSyncs`
`handleStart` with `syncRouteFromVibeJSON`, `UpdateEdits` ... `Relists` `handleUpdate` with
its rename, `RepairFinds` and `RepairStores` `handleRepair`, `Deregisters`
`handleDeregister`.  They share `FindsFree`/`StoresPort` (`findFreePort` and the store of
its result), `Checks` (`checkVibePortCollisions`), `Launches` (preflight and spawn) and
`Wants`/`Applies` (`reconcileOAuthBridgeListeners`, whose listing is outside
`oauthBridgeMu` and whose listeners are inside).  The error paths are there: a
registration is taken out of the table again, an update goes back to the saved route, a
refused start keeps what it wrote.  Calls in flight are about different names, because
what two calls on one name do to each other is what ManagedRoute and RouteTimers are
about.  `overlapped`, `sole`, `refused` and `matched` are history.

### MacHost, WindowsHost, Host, Filtering, HostProofs

What `vibe setup` and `vibe uninstall` change, one action per step of the commands, any of
which may fail or be killed; `Host` composes the two systems the way the build tags do, so
a behaviour is of one of them.

`MacHost`: `file` is `/etc/pf.conf` as a sequence of kinds of lines, `others` the file as
somebody other than vibe last wrote it, `live` the ruleset in the kernel, `anchor`, `plist`
and `cfg` the redirect's ports in the anchor file, in the LaunchDaemon's arguments and in
`config.json`, `agent`, `dns`, `ca` the LaunchAgent, the resolver and the trust store, `proc`
the positions of a setup, an uninstall, a `doctor --fix` (one of these at a time) and of the
root job `pf-apply`, which runs beside each of them.
`patchPFConf`, `stripPFConf`, `InsertionPoint` are the functions of those names as operators;
`readPFConf` and `swapPFConf` are the two halves of a patch, `readToStrip` and `restorePFConf`
those of an uninstall, with macOS, other tools and VPNs (`DisturbPF`, `GuestReturns`) between
them.  Each step of an
uninstall may fail and is then passed over, a write leaving the file as it was or empty.
`EnsureCA` reuses the CA on disk; `DeleteByName` deletes one certificate of the name,
whichever, or none, because the error is dropped (`cert_darwin.go:20`).  History: `raced`,
vibe wrote over what it had not read, or cut a file short; `vouched`, a setup has trusted the
CA on disk; `clean`, the last command was an uninstall none of whose steps failed.

`WindowsHost`: `adapter` holds each adapter's link, address mode and DNS servers, `backup`
the snapshot file, `found` what the machine had before vibe (history), `upstream` the
resolver the daemon forwards to.  `backupAdapterDNS`, `configureDNS`, `restoreAdapterDNS`,
`verifyAndFixLoopbackDNS` go adapter by adapter; netsh may refuse each.

`Filtering!Without` is the loop both systems filter a list with (`stripPFConf`,
`stripLoopbackServers`), as a recursive function over the position, which HostProofs can
take apart where `SelectSeq` could not.  `StockAssumption` says that the files a machine
starts with load and hold none of vibe's lines, `WinAssumption` that a list set by hand is
not empty.

### PeerPairing, PeerSync, PeerProofs

`PeerPairing`: machines with an identity, `pins` in memory and on file (`saved`), an open
`invite`, and one pairing in flight per initiator, cut where the code lets go of a lock or
waits for the network: `Probes`, `Posts`, `Verified`, `Grants`, `Consumes`, `Confirmed`,
`Completes` are `pairWithPeer` and `handlePeerPair`.  Replies get lost and the initiator times
out (`GivesUp`) while the handler goes on; saves fail; daemons die and boot from their file;
machines are reinstalled with a new identity under the old name.  `Undoes` is what a removal
does to a pairing whose reply is still to come (`undone`): the removal is the later word.

`PeerSync` `EXTENDS` it with the watching machine's per-peer states: the sweep over a copied
list (`StartsSweep`, `ReadsState`, `Claims`, `Applies`, `Fails`), the throttle, removal while a
refresh is under way (`Forgets`), and `RelayTarget`, which peer `peerRouteFromCache` sends a
visit to.

### DaemonProcess, LeafReload, DnsServer, Daemon, DaemonProofs

`DaemonProcess`: `proc` says how far the process behind each pid is in `Server.Start`; `tcp`,
`pidfile` and `sock` are the port's holder, `daemon.pid` and where the socket path leads;
`managed` and `loaded` are launchd's or the Task Scheduler's view; `cli` and `old` the command
lines and the daemon each found when it began.  `Binds`, `WritesPid`, `RemovesSocket`,
`ListensOnSocket` are `Start` and its socket goroutine in order, `StopCommand`, `Starts`,
`SeesReady`, `WaitRunsOut` the commands.  `Server.Stop` is absent because nothing calls it:
a stopped daemon is killed by a signal it does not handle.  The pid file may not get
written, which `Start` ignores: `unnamed` are the daemons that happened to.

`LeafReload`: a `job` per goroutine inside `reloadTLSCert` (handlers, and `Boot`, the goroutine
of `startTLS`) goes through `tlsHostnames`, `peerRouteNames` (the names of the table, then under
another lock those of the peers' lists, `names` and `peers`), `GeneratesLeaf`, `WritesKey`,
`LoadsCert`, `LoadsKey`, `SwapsLeaf`, over `certFile` and `keyFile` that all share and a dead
daemon leaves behind.  `Setup` is a writer of the same pair in another process:
`EnsuresLeaf` makes one if the certificate on file cannot be read.  `covered` is history: the
names a reload that overlapped no other put into the leaf.

`DnsServer`: queries as what `handle` looks at, replies as header counts beside what the body
holds.  `Daemon` composes the three: what is in memory begins when a process serves and is
lost when it no longer does.

## What the runs check

All runs are exhaustive over their instance; together the passing ones take every
action.  Deadlock is checked except where commands, events or registrations run out by
construction (`timers`, `peers`, `daemon`) or a machine may simply rest (`host`).

| Run | Instance | Shows |
|---|---|---|
| `pm` | 2 names, 2 children, one of which cannot be watched | `NoStrandedChild`; the refinement `Supervised`; under fairness `DeathIsReported`, of spawned and of adopted children |
| `route_visits` | 2 requests, 1 child, adoption, watches that fail, a stranger on the port | `SingleFlight`, `MarkerHeld`, `VisitsNeverKill` |
| `route_client` | 1 client with every operation, 2 children, 2 registrations | `ReachableByStop` while goroutines of an earlier child or registration are still at work |
| `route_liveness` | 1 thread of visits, 2 children, 2 pollers, no adoption | `AutoStartReleased`, `DeathFlipsRoute` |
| `timers` | 2 TTL registrations, a tracked, an idle-governed and a plain one, 2 clients | `TtlIsCancellable`, `IdleIsGoverned`, `UndisturbedExpires` |
| `persist_writers` | 2 routes (one a worktree), 2 saved values and a temporary one, 2 handlers, refused updates, 1 crash | `TypeOK` (no temporary route gets into the file), `AloneIsKept` (`AloneIsDurable` and `AloneIsServed`) |
| `ports` | 2 routes, 2 clients, ports 1 and 2 in `findFreePort`'s range, 3 outside | `CallbackIsExclusive`, `ListenersMatchRoutes`, `BoundPortsAreDistinct` |
| `host` | macOS: 3 shapes of pf.conf, setup, uninstall and doctor, each beside the root job; Windows: 2 adapters, 2 lists of servers | `PfConfLoads`, `OthersLinesKept`, `UninstallSticks`, `TrustSurvivesReruns`, `GuestsLeftAlone`, `RedirectComesBack`; `NoDeadResolver`, `StaticServersReturn`, `NoLoopbackUpstream` |
| `peers` | 3 machines: two invite, two add, one does both and polls; a route and a bookmark; 4 commands, 1 fault | `AckedPinsAreDurable`, `PinsHaveACause`, `SpentCodesAreDead`, `RelaysReachTheSource`, `CachesCatchUp` |
| `daemon` | 2 pids, 2 command lines, 4 events, no autostart, an agent or a task; with an agent TLS (2 names, one of which a peer may list, 2 handlers, setup run again) or DNS (9 queries), 2 events | `FilesNameTheServer` (`PidFileNamesTheServer` and `SocketLeadsToTheServer`), `RestartIsFresh`, `AgentKeepsServing`; `CoveredNamesAreServed`, `LoneBootOpensHTTPS`; `RepliesParse`, `QueriesAreAnswered` |

`pm`, `timers` and `persist_writers` check their type invariants too; the other `TypeOK`s
document the variables, and those of Daemon and LeafReload are part of what is proved.

The bounds.  The hazards are races of two: two requests, a request and an exit handler,
two saves, two reloads, two calls that claim one port, two daemons at one port.  So two
threads, writers or clients, and two children (an earlier and a later one) or registrations
are enough for them; a third adds states and no new pair.  A start whose poller cannot run
waits (`Poller` bounds them): `route_liveness` has two, which may meet on one route, the other
runs of ManagedRoute one.  `route_client` gives every operation to one client and leaves concurrency to the goroutines it leaves behind, `route_visits` gives two requests
and one child; two clients with every operation and two children are out of TLC's reach.  In PortClaims the range
has two ports, so that it is exhausted by what two routes claim, and the port beyond it
is also the callback port everybody asks for; strangers bind that one, and servers that
move by themselves (`Roamed`) port 2.

`host` starts from Apple's pf.conf, from one that only loads with the anchor after
`dummynet`, and from one without translation rules; `MaxEvents` and `MaxTurns` bound failures,
disturbances and commands.  `peers` needs three machines for two pairings that overlap on
one invite and for pairings that go in a ring; invite and add, twice, are its four commands,
with one fault anywhere between; initiators are restarted by commands, other deaths are the
fault.  With every machine both inviting and adding (2.3 million states) the invariants hold
as well.  `daemon` counts commands, deaths, reuses of a pid, failed writes and
changes of names as events; four reach a stop and a restart over
a daemon that died, and the two left with TLS or DNS on are two overlapping reloads, or a
death between them.  With three pids and without TLS and DNS all of it holds as well.

### Fairness

`PmFairSpec`, and `FairSpec` of ManagedRoute and RouteTimers: weak fairness of what the Go
runtime runs by itself, that is goroutines that can take a step (a handler in flight,
the `cmd.Wait` goroutine, a watcher, a poller, an exit handler, the hooks of a call) and
timers that are due.  `MacFairness`: launchd runs the job it was told to run, to its end, and
the network goes on changing: `RunAtLoad` and `WatchPaths` (`pf_darwin.go`) promise a run at boot and at each
change, not that there is a next one, so `RedirectComesBack` says what happens on a machine that
is moved about or booted again.  PeerSync: the poll and the sweep on demand each go on, each
peer's throttle ends, a daemon that answers answers; peers that are down stay down for as
long as they like.  Daemon: a started process goes on with its boot, launchd gives a loaded agent a process (`KeepAlive`), the
resolver's goroutines run.  No fairness for requests, commands, children (they need not
exit, bind or answer to SIGTERM), strangers, time, faults, or for `WatchFails`, a watch the
operating system refuses.

### Where the code and its comments part

The violation runs each show one behaviour; `findings` in `PROJECT.json` quotes the line.

- `route_stale`: the exit handler's check that the exit is that of the route's process and
  its `Running.Swap(false)` are two steps; a restart between them is flipped to
  not-running although its child lives (`managed_exit.go`).
- `ports_sync`: an edit of `vibe.json` whose callback port cannot be bound is refused after
  it was written to the route (`sync_config.go`).

The models also show, with no run of their own, where a promise needs a condition.  The
passing properties state it: `UndisturbedExpires`, `AloneIsKept`, `ListenersMatchRoutes`,
`CoveredNamesAreServed`, `RelaysReachTheSource`, `CachesCatchUp`, `RestartIsFresh`,
`PidFileNamesTheServer`, `DeathFlipsRoute`, `OthersLinesKept`, `UninstallSticks`.

Routes: hooks run after the table's lock is released and go by name, so the hook of an
earlier removal can cancel the timer of a later TTL registration, which then never expires
(`routes.go`); of two saves that overlap, the one that listed first may rename last, and an
acknowledged change is missing from `routes.json` until the next save (`persistence.go`).
A refused update puts back the route it read when it began, over whatever another handler has done since.

That an exit "flips the route to not-running immediately" (`managed_exit.go:5`) needs
conditions.  A start that stores Running between an exit handler's Swap and its ClearPID leaves
the route running without a PID, which neither the exit handler nor `waitForReady`
(`api.go:1374`) ever looks at again; `DeathFlipsRoute` is therefore stated for a death met
while no handler is half way.  With `AdoptsOrphans`, a child that dies between `procs.Adopt`
and the route's stores leaves the route running with a dead PID, and `DeathFlipsRoute` fails.  A stop
that meets a start may erase the PID the start has stored (`api.go:1175`), and a poller that saw
its own child dead buries whatever the route holds when it gets to it, a live child of another
start included.  An adoption that races a start puts two children under one name, of which
`Stop` ends one and forgets both (`process.go:295`): `ReachableByStop` fails for two clients once the
adopting request goes on to store as running the child that a stop in between has just
forgotten.

An update that is refused because a listener cannot be opened rolls the route back but not the
listeners.

Ports: `handleUpdate` takes a new port as asked (`api.go:884`), `handleRepair` compares it
with primary ports only (`api.go:1247`), and `findFreePort` with an exhausted range takes what
the operating system has free (`daemon.go:761`): two routes may then claim one port, and the
next start of either is refused.  `BoundPortsAreDistinct` speaks of the routes whose claims
were checked since.

Timers: a timer that has fired looks its name up and removes it in two steps
(`managed_timers.go:67`), so it may remove a registration made in between.

Host: "Rewritten on every pf-apply so a port change in config.json takes effect without
re-running setup" (`pf_darwin.go:70`) is not what happens, because the ports are arguments in
the LaunchDaemon's plist; setup reads the TLS port, bakes it into that plist, and
then overwrites `daemon.tls` with 7443 (`setup_darwin.go:554`).  On Windows an uninstall
without a setup before it resets static DNS servers to DHCP, and so does a second setup
after a first whose snapshot failed; the backup is removed even where netsh refused; a setup
goes on over a snapshot that could not be written whole.  Adapters with an address from DHCP and
DNS servers set by hand are outside `StaticServersReturn`.  Several roots of vibe's name may be
trusted at once, as `uninstall_darwin.go:65` says itself: after the certificate directory was
wiped and a CA regenerated, or after a delete that failed, the old one stays trusted through
setups and an uninstall.  An edit of `/etc/pf.conf` made while a patch or an uninstall holds
its own copy is lost, and `OthersLinesKept` excuses that (`raced`).

Peers: states are kept by host name, so of two pins with one name (two machines, or one
reinstalled and paired again without a removal) the second is throttled by the first's
refresh on every poll ("polls every paired peer's route list", `peer_sync.go:41`) and a relay goes to
the first.  The sync loop starts only with a daemon that has a peer on file: a
first pairing is not polled until a restart.  Two pairings that overlap on one code both
succeed, and the later one's consume step may clear a newer invite.  After a save that
failed, a denied machine stays pinned until a restart, and a removed one returns with it.
An
acknowledgement whose pin was removed between the save of `handlePeerPair` and its answer is told
nevertheless; `AckedPinsAreDurable` takes the removal for the later word.

Daemon: pid file and socket always outlive the process; once its pid is reused
`isDaemonRunning` says yes, `start` does nothing, and `stop` signals the other program.  A
daemon forked before an agent or task was installed survives `stop` and `restart`, which
report success.  A `stop` while a daemon boots finds no pid file and misses it, and so does
every command if the pid file could not be written, which `Start` ignores (`daemon.go:140`).
`forkDaemon`'s comment has pid file and listener in the reverse order
(`daemon_darwin.go:68`; `Server.Start` binds first).

TLS: two reloads that overlap may swap in another order than they read names, or read each
other's files and fail; a name may then be missing from the leaf until the next change.
If it is the first reload that fails, HTTPS stays closed until a restart.  A setup run beside
them that makes a certificate of its own (`setup_darwin.go:513`) may cost all names until the
next change, or HTTPS until a restart.  Temporary routes and removals of a peer
trigger no reload at all ("for every registered route", `daemon.go:261`).

DNS: a reply to a query with QDCOUNT 2 echoes one question under the header's 2, where
`servfail`'s comment promises that they agree.  `RepliesParse` is stated for one question.

## What is proved

For every value of the constants, from the named assumptions of the modules (the
sentinel `None` is no member of the sets, clients ask for well-formed claims, sets of
registrations are disjoint, clients are not timers, stock files load) and nothing else,
except for two theorems, whose hypotheses are in their statements:

- `VisitsSpareChildren` has `Ops \subseteq {"visit"}`, because the property is about
  requests: a stop is there to kill.
- `StopReaches` has `~AdoptsOrphans \/ Serial`.  `AdoptsOrphans` is false on Windows, where a
  daemon takes its children with it and `adoptOrphan` is a no-op (`autostart_windows.go`);
  elsewhere `Serial` says that handlers follow one another, beside any interleaving of the
  goroutines around `cmd.Wait`, watchers, pollers and exit handlers that earlier ones left
  behind.  Where handlers run at once and orphans are adopted it is false, as "Where the code
  and its comments part" says.

| Theorem | States | Argument |
|---|---|---|
| `ProcessManagerProofs!PmTyping` | `PmSpec => []PmTypeOK` | inductive as it stands |
| `ProcessManagerProofs!Reachable` | `PmSpec => []NoStrandedChild` | `PmInv`: a map entry belongs to its name, and the startup state, the goroutine's position and the process's status determine each other (`PmLinks`); an entry is kept until its child is reaped or signalled (`EntryKept`), a zombie's too; without `EntryLink` a stale goroutine could delete another name's child |
| `ProcessManagerProofs!Verdicts` | `PmSpec => []OneVerdict` | from `PmInv`: `WaiterLink` ties `told` to `stRunning` and `reply` to the state |
| `ProcessManagerProofs!Implements` | `PmSpec => Supervised` | initial states map to initial states, and under `PmInv` every step is a step of ChildSupervision or a stutter, action by action |
| `ManagedRouteProofs!MrTyping` | `Spec => []TypeOK` | part of `MrInv` |
| `ManagedRouteProofs!OneAutoStart`, `MarkerIsHeld` | `Spec => []SingleFlight`, `Spec => []MarkerHeld` (the safety half of `AutoStartReleased`) | `MarkerLink`: the marker and the goroutine between `beginAutoStart` and `endAutoStart` determine each other; `OpLink`: a label tells the operation, so no error path leaves without `release` |
| `ManagedRouteProofs!HandlersStrandNone`, `RouteSupervised` | `Spec => []NoStrandedChild`, `Spec => Supervised` | every step of a handler is a step of the process manager or one more signal, `killPort`'s (`ManagerStep`); that goes to nobody the daemon still serves (`LetGo`), however old the scan, so both keep `PmInv` and simulate ChildSupervision |
| `ManagedRouteProofs!VisitsSpareChildren` | visits only: `Spec => []VisitsNeverKill` | the one signal on a visit's way is `killPort`'s: whom it has asked about and is about to signal was untracked then, so its child is reaped or signalled (`LetGo`, by `EntryKept`), and stays so |
| `ManagedRouteProofs!StopReaches` | `Spec => []ReachableByStop` | without adoption `SpawnedInv`: whatever a route, a handler or the table holds was spawned, so one entry says it all; with it `SerialInv`: the entries of `procs` and `adopted` are never both live (`EntriesLink`), what a running route names is in one of them (`RunningFound`), and so is what the one handler holds (`SerialLink`) |
| `RouteTimersProofs!TimersTyping` | `Spec => []TypeOK` | `IdleOnly`: `armIdle` looks the table up in one step and arms in another, so what it arms must be known to be idle-governed |
| `RouteTimersProofs!Cancellable` | `Spec => []TtlIsCancellable` | inductive as it stands: each hook stops the entry it replaces |
| `RouteTimersProofs!AlwaysGoverned` | `Spec => []IdleIsGoverned` | `Undisturbed`: until another call of the name is seen, only the client that made a registration owes it hooks; `Governed`: once it has paid, a timer will fire or has fired and will re-arm |
| `RouteTimersProofs!ExpiryIsDue` | `Spec => []Due`, the safety half of `UndisturbedExpires` | from `Undisturbed`: each step of a timer or watcher hands the removal on, to its next step or to the client that found the process gone |
| `RoutePersistenceProofs!PersistTyping` | `Spec => []TypeOK` | part of `PersistInv`: a listing leaves temporary routes out, and so do the file and what is loaded from it |
| `RoutePersistenceProofs!Durable`, `Served`, `Kept` | `Spec => []AloneIsDurable`, `[]AloneIsServed`, `[]AloneIsKept` | `PersistInv`: a save that overlapped none lists the latest change (`Alone`); once renamed, the file and every listing still to be renamed have it (`Landed`); so no later rename undoes it (`Settled`), across crashes (`Down`) |
| `PortClaimsProofs!Callbacks` | `Spec => []CallbackIsExclusive` | `Covered`: of two routes that share a callback port, one belongs to a call that wrote it and has not reconciled since (`Unsettled`), or to a refused one; a reconciliation that goes on has seen that there are none; `Apart`: calls in flight do not write each other's routes |
| `PortClaimsProofs!Listeners` | `Spec => []ListenersMatchRoutes` | `Tidy`: unless a call has yet to reconcile its change, or failed to, the listeners are those that the routes `Stand` for, an update under way counting with the port it would go back to; `Knows`: a reconciliation on its own opens and closes what the table asks for |
| `PortClaimsProofs!BoundPorts` | `Spec => []BoundPortsAreDistinct` | `Solo`: a call that nothing overlapped is the only one in flight, so what it compared (`Checked`) still holds when it stores |
| `HostProofs!FileStaysLoadable`, `OnlyOwnLinesMove` | `Spec => []PfConfLoads`, `[]OthersLinesKept` | a patched text is vetted before it is swapped in and a stripped one only loses lines; `Patched`: what a process is about to swap in, or the uninstall to write, differs from what it read by vibe's two lines alone; what is there by then, if not that, sets `raced` |
| `HostProofs!UninstallLasts` | `Spec => []UninstallSticks` | `UninstallInv`: each step that succeeds leaves nobody who could undo it: first the job, so nothing runs beside the command; then anchor and rules, so no reload brings rules back; then the lines |
| `HostProofs!TrustLasts` | `Spec => []TrustSurvivesReruns` | `TrustInv`: a CA that was vouched for is on disk, so `EnsureCA` reuses it, and whatever a delete by name hits, the same step adds it again or takes the voucher back |
| `HostProofs!ResolversAlive`, `ServersReturn`, `UpstreamIsElsewhere` | `Spec => []NoDeadResolver`, `[]StaticServersReturn`, `[]NoLoopbackUpstream` | `Snaps`: no backup holds a loopback server; `Remembers`: for an adapter set by hand it asks for what was found; `RestoreInv`: an adapter treated has what was asked for, or the uninstall was refused |
| `PeerProofs!Caused` | `Spec => []PinsHaveACause` | `Ends`: an initiator that waits and a responder at work still have the identities the pairing began with; `Promises`: past a position, the proof was verified and the pin saved |
| `PeerProofs!SpentAreDead` | `Spec => []SpentCodesAreDead` | `Codes`: a code is one machine's, and is spent only when its invite is closed |
| `PeerProofs!AcknowledgedStay` | `Spec => []AckedPinsAreDurable` | `Durable`: a pin users were told of is on file, and in memory while the daemon is up; one they were told is gone is in neither; `Backed`: what a pairing has stored stays listed and on file until its reply, unless a removal overtakes it, whatever pairings in the other direction do |
| `PeerProofs!RelaysGoHome` | `Spec => []RelaysReachTheSource` | `Honest`: a cached list has its source among the pins of its name; `Steady`: so has an answer on its way, until the state it was asked for is forgotten |
| `DaemonProofs!PidFileNames`, `SocketLeads`, `FilesName` | `Spec => []PidFileNamesTheServer`, `[]SocketLeadsToTheServer`, `[]FilesNameTheServer` | `Holder`: only the port's holder gets past `Binds`, and it writes the pid file before it serves, or is `unnamed`; `Socket`: only one that serves touches the path |
| `DaemonProofs!RestartReplaces` | `Spec => []RestartIsFresh` | `Remembered`: the daemon a command found still serves, so no process begun since has its pid; `Fresh` then survives every respawn and fork; `Unmanaged`: who could not write the pid file is out of reach only where no agent or task runs it |
| `DaemonProofs!CoveredStayServed` | `Spec => []CoveredNamesAreServed` | `Carried`: the covered names are in what every reload has read, and in the certificate it may still load, whoever wrote it (`CarriedBy`), so any load and any order of swaps keeps them; `Own`: a lone job loads what it wrote; `Alone`: it is the only one |
| `DaemonProofs!LoneBootSucceeds` | `Spec => []LoneBootOpensHTTPS` | `Matched`: a boot that overlapped neither a reload nor a setup finds certificate and key of one pair, whether it wrote them or a dead daemon left one half |
| `DaemonProofs!Parsed` | `Spec => []RepliesParse` | the header of each kind of reply agrees with its body, query by query |

Every invariant and action property of the passing runs is stated by a theorem of this
table (the `TypeOK`s of `pm`, `timers` and `persist_writers` among them).

Only model-checked: liveness, because fairness and `ENABLED` are beyond the prover
(`DeathIsReported`, `AutoStartReleased`, `DeathFlipsRoute`, `UndisturbedExpires`, `RedirectComesBack`,
`GuestsLeftAlone`, `CachesCatchUp`, `AgentKeepsServing`, `QueriesAreAnswered`), of which
`Verdicts`, `MarkerIsHeld` and `ExpiryIsDue` prove what can be said without it; the two violation
runs.

Induction is done by hand.  The library's induction theorems take an operator, which the
provers cannot instantiate, so HostProofs and PeerProofs state induction over sets: a set of naturals
that holds 0 and is closed under successor is all of them (`Upwards`), and so for
sequences (`SequencesUp`).

## What is not modelled, and why

- Reuse of a pid by the operating system, except of the daemon's own: a pid names one child.
- `kill_pid`/`kill_port` requests of the start page, which signal what the user confirmed.
- In PortClaims: restarts of the daemon (RoutePersistence has them), more than one reserved
  port per route, bookmarks (they claim no port) and the daemon's own two ports.
- Log scanning and the search of a process group for a listener: `RepairFinds` picks any
  port that meets their conditions.
- In Peers: the recovery of a managed route and the port repair inside `peerServeRoute`, which
  are those of a local visit; a torn write of the identity's two files.
- In Daemon: `Server.Stop`; `vibe dev`; the fork on Linux, which waits for the pid file alone; a
  socket that cannot be opened (Windows), after which the port serves alone; queries cut at
  4096 bytes.
- `origin.go` (a decision over two header values), the state that `oauth_worktree.go` wraps, the
  discovery of worktrees by git.
- Pages, the bookmark proxy's rewriting, the CLI, the configuration file, the skill
  installer: no state, or none that two actors share.

## Plan

Written, in this order: ProcessManager with ChildSupervision, then ManagedRoute on top of
it; RouteTimers; RoutePersistence; PortClaims; MacHost and WindowsHost with Host;
PeerPairing and PeerSync; DaemonProcess, LeafReload and DnsServer with Daemon.  Proofs follow
the modules they are about.

What is left: an abstract specification of pairing (a set of pinned pairs that only an
accepted invite extends) for PeerPairing to implement; several reserved ports per route in PortClaims; the state `oauth_worktree.go` wraps.
Proofs still worth having: that refinement; the safety halves of `DeathFlipsRoute` and
`QueriesAreAnswered`, as `ExpiryIsDue` is that of `UndisturbedExpires`; `TypeOK` of PortClaims,
PeerSync and Host by name.
