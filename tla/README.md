# Formal models of tundler

tundler runs one VPN tunnel per container ("pod") and offers it to crawlers as
an HTTP CONNECT proxy. `cmd/tundler-tunnel` is the long-lived process of a pod:
it logs in to a VPN provider, connects, holds the tunnel, rotates its exit IP,
heals it when it breaks, and leaves the process on purpose when it cannot. This
directory holds TLA+ models of that program, the TLC configurations that check
them and the TLAPS proofs about them. Paths below are relative to the
repository; `TT/` stands for `cmd/tundler-tunnel/`.

Run one model with `tlc -config PodSolo.cfg MCTunnelPod`, one proof module with
`tlapm TunnelPodProofs.tla`.

## 1. The system

### Components and their state

| Component | Code | State | Operations |
|---|---|---|---|
| State tracker | `TT/state.go` | state, exit IP, last rotation, rotation count | `Set`, `RecordTunnelUp`, `RecordRotation`, snapshots |
| Boot and hold | `TT/main.go` | phase of `main` | login loop, connect loop, start of the goroutines, hold until the signal context is done |
| Connect | `TT/connect.go` | `lastReloginUnix`, `recentlyFailed`, attempt | `connectTunnel`, `connectWithRetry`, `ensureLoggedIn`, two back-offs |
| Rotator | `TT/rotator.go` | `scheduledRotations` | timer loop, `rotateIfReady` |
| Control surface | `TT/server.go` | none | `/livez`, `/readyz`, `/status`, `POST /rotate` |
| Watchdog | `TT/main.go` | none | reconnects a Failed pod, or a Ready one whose dials fail |
| Wedge guard | `TT/main.go` | `nonReadySince` | exits a process that has been unready too long |
| Recycler, shutdown | `TT/recycler.go`, `TT/shutdown.go` | `shutdownDone` | recycle by age or count; `gracefulDisconnect` |
| Drain controller | `TT/drain.go` | none | sets the proxy's drain flag, waits for its tunnels |
| CONNECT proxy | `internal/proxy/proxy.go` | semaphore, open tunnels, drain flag, exit-IP header, dial health | one goroutine per connection (`handle`) |
| Fetch proxy | `internal/proxy/impersonate*.go` | HTTP/2 connection cache | `/fetch` with a browser's TLS fingerprint |
| Locations cache | `TT/locations_cache.go` | catalog, time of fetch | `get` |
| Egress probe | `TT/egress.go` | baseline | `verifyExitIPDiffers` |
| Notifier | `internal/notifier` | none | posts lifecycle events |
| Providers with a tunnel of their own | `internal/provider/{windscribe,ovpn,...}` | openvpn processes or `wg0`, routing rule, active location | `Login`, `Connect`, `Disconnect`, `Locations`, `Status` |
| Providers with a vendor daemon | `internal/provider/{expressvpn,pia,nordvpn,warp}` | the daemon's channel, session and tunnel; time of the last recovery; PIA: monitor, cool-down, login flag | the same, through the vendor's command line; restart of a wedged daemon |
| Proxy-chain providers | `internal/provider/{tunnelbear,psiphon}` | session, active edge; the dialer they install in the proxy | the same; there is no kernel tunnel |
| Container | `docker/` | network namespace, systemd | respawns the process |

### How they interact

`main` boots alone, except that the HTTP surface is served from the start. After
the first Ready it starts the rotator timer, the watchdog, the wedge guard and
the recycler. These, and every goroutine of an accepted `POST /rotate`, share
the state tracker and the provider **without a lock around their
read-decide-act sequences**. The tracker calls the proxy back
(`SetExitIP`) on every tunnel-up; the rotator reaches the proxy through the
drain controller; a proxy-chain provider installs in the proxy the function it
dials with, which the fetch proxy uses too; the proxy's dial health is one of
the watchdog's two reasons to reconnect; the locations cache stands between
`connectTunnel` and the provider; every exit path goes through `gracefulDisconnect`; systemd
respawns the process in the same container.

### What is hard

* several goroutines drive one provider, each after a check of the state that
  may be old when it acts;
* readiness (`/readyz`), the exit-IP header and the tunnel itself are three
  pieces of state, updated in three steps, that clients see as one;
* any provider call may fail, a connected tunnel may leak, the daemon may log
  out, at any point of boot, reconnect and rotation;
* throttles, debounces and back-offs stand between a failed pod and its
  recovery;
* exit paths race each other, and a signal races everything;
* the proxy counts tunnels and tokens along many early returns;
* a vendor daemon may stop answering commands while its tunnel goes on; each
  call fails then in its own way, and the restart that helps one caller ends
  what another has just set up;
* connections outlive the dialer they were made with.

### What makes each component correct

| Component | Property |
|---|---|
| Lifecycle | an unsettled state always has somebody driving it; a held pod settles; a healthy provider leads back to Ready; boot is exclusive |
| Rotation | unready for its whole length; never a location twice; readiness withdrawn before the tunnel |
| Header | at rest the header is the recorded exit IP, and a Ready pod that sends one exits there |
| Seen from outside | readiness, header and exit change in an order in which no client is routed to a pod that exits elsewhere than its header, if there is one, says |
| Shutdown | one disconnect per process, whichever paths race |
| Re-login throttle | logins at least a throttle apart, one thread per reservation |
| Wedge guard | a genuine wedge ends the process in bounded time, a recovering pod is spared |
| Locations cache | no empty catalog after boot; a good one is not lost to a daemon that has gone silent, if the provider tells an error from an answer |
| OpenVPN and WireGuard providers | a Connect reports only its own tunnel; nothing it or a crash leaves behind blocks the next one; a Disconnect leaves nothing |
| Vendor daemons | a wedged one is restarted, by one caller at a time and not twice; a reported success has been one |
| Proxy-chain | a pod without an edge refuses, never dials by itself, and does not stay refusing |
| Proxy and drain | exact counters; a bounded number of connections; drain flag released; drains complete |

## 2. The modules

| Module | Models | Proofs |
|---|---|---|
| `TunnelPod` | tracker, boot, connect, rotation, watchdog, exits, as threads | `TunnelPodProofs` |
| `ConnectProxy` | `Server.handle`, its counters, the drain controller | `ConnectProxyProofs` |
| `WedgeGuard` | the wedge guard's ticker and clock | `WedgeGuardProofs` |
| `Relogin` | `ensureLoggedIn` with clock, load and compare-and-swap apart | `ReloginProofs` |
| `LocationsCache` | `locationsCache.get`, its two critical sections apart | `LocationsCacheProofs` |
| `DirectTunnel` | the ten providers that run openvpn or wg-quick themselves | `DirectTunnelProofs` |
| `DaemonTunnel` | the four providers that drive a vendor daemon, behind the catalog cache; extends `LocationsCache` | `DaemonTunnelProofs` |
| `ProxyChain` | TunnelBear, the dialer it installs, dial health, the watchdog beside a rotation; extends `ConnectProxy` | `ChainProofs` |
| `FetchProxy` | the fetch proxy's HTTP/2 cache over that dialer; extends `ProxyChain` | `ChainProofs` |
| `PodContract` | abstract: what a pod promises a client that looks at `/readyz`, header and exit; `TunnelPod` implements it while its drivers do not overlap | `TunnelPodProofs` |
| `LoginTurns` | abstract: what the re-login throttle promises; `Relogin` implements it | `ReloginProofs` |

Two modules are the abstract ones of a refinement besides `LoginTurns` and
`PodContract`:
`ConnectProxy`, whose provider is nothing but three phases of a rotation, is
implemented by `ProxyChain`, and `LocationsCache`, whose callers are idle or
inside, by `DaemonTunnel`. Their variables are the detailed modules' own, so the
mapping is the identity; that every step of the detailed module is a step of the
abstract one or leaves its variables alone is a theorem (section 4), and
invariants move up by it. Neither is checked alone any more: `chain` and
`daemon` check their properties in the composition.

The `MC*` modules extend these for TLC; constants are given in the `.cfg` files.
A definition whose comment begins with "Mutant" is a plausible bug of the
definition below it. It is not part of the model; it shows that a property
would notice.

### TunnelPod

A goroutine is a thread with a program counter. A label names the *next* call
that another thread can observe: a write of the tracker, a call of the provider,
the reading of a state it will act on. Nothing in the code makes two such calls
one atomic step, so neither does the model. The thread sets `Timers`, `Http`,
`Watchdogs`, `Guards` and `Recyclers` are constants: a configuration chooses who
takes part. For `Timers` and `Recyclers` an empty set is a feature turned off by
its environment variable; for `Http`, `Watchdogs` and `Guards` it only leaves a
thread out that the run is not about (nobody posts, nothing is to be healed or
guarded).

| Label | Code | Label | Code |
|---|---|---|---|
| `boot`, `login`, `loginwait` | login loop of `main` | `check` | `rotateIfReady` reads the state |
| `start` | `Set(Connecting)` | `drain`, `rotating` | `Set(Draining)` and drain, `Set(Rotating)` |
| `auth`, `relogin` | `ensureLoggedIn` | `teardown` | the rotation's `Disconnect` |
| `connect` | `pickLocation`, `prov.Connect` | `next` | the caller's reaction to an error, or its loop head |
| `verify`, `leak` | exit-IP contract, `Disconnect` on a leak | `log`, `giveup`, `surrender` | `RecordRotation`, `Set(Failed)` |
| `record`, `announce` | `RecordTunnelUp` and its listener | `recycle` | `Set(Draining)` before a recycle |
| `ready` | `Set(Ready)` | `release`, `disconnect`, `exit` | `gracefulDisconnect`, `os.Exit` |

An exit IP is named by its location; it is `Down` when neither the provider nor
the probe has told it (no IP in the status, and the contract skipped or
soft-passed), and then the pod is Ready without a header, as
`expressvpn.go:183-186` accepts. Time is abstracted to what the code
compares it with: `reloginRecent` (60 s since the last re-login) and
`rotationRecent` (the debounce). `outage` is an environment switch: while it is
on, provider calls may fail, the tunnel may drop, the daemon may log out; it
never comes back on once off, which is enough for the liveness properties to
speak of "once the provider works". Recycle counters stop at the limit they are
compared with.

`PodContract` has three variables, which `TunnelPod` gives it as `state = "Ready"`,
the header and the provider's session. Its `Prepare` is everything a pod does out
of sight, `Publish` the end of a connect (`TT/connect.go:295-297`), `Withdraw`
the `Set(Draining)` or `Set(Connecting)` before a teardown or a connect, `Lose` a
tunnel that drops or an exit path that disconnects, `Respawn` the next process.

### ConnectProxy

A connection is one run of `handle`, with the phases its deadlines delimit. A
rotation is the part of it the proxy sees: drain, teardown, reconnect. The
counters are variables of their own, moved exactly where the code moves them.

### DirectTunnel

Nine providers start `openvpn --daemon`, poll the routing table until a route
leads through `tun0`, and end it with `pkill`; two (Surfshark is both) call
`wg-quick`. Their files are near copies of each other, so they are one state
machine and a record of switches per provider; `Init` chooses one from the
constant `Fleet`:

| Switch | Providers |
|---|---|
| `catalog`: `"embedded"` list as a fall-back; `"file"`; `"sticky"`, a failed load is remembered; `"api"`, fetched, kept an hour | Windscribe, CyberGhost; OVPN, IPVanish, PureVPN, VeePN, FastVPN, Mullvad; ProtonVPN; Surfshark |
| `kills`: ends openvpn when the poll runs out | Windscribe, VeePN |
| `locked`: bookkeeping in one critical section; `live`: `Status` asks the kernel | `locked`, not `live`: Windscribe, VeePN; the others the opposite |
| `nested`: inside WARP, by routing rules | FastVPN |

Two callers use it: the driver, which connects and disconnects one call at a
time, and an exit path with its own context. The overlap of several drivers is
`TunnelPod`'s subject. openvpn processes, `wg0`, the routing rule and the config
file are the kernel's or the disk's and outlive the calls; a crash loses the
bookkeeping, and systemd's respawn ends the processes of the unit but leaves
`wg0` and the rule. `at` and `Session` are the truth that the bookkeeping
(`server`, `active`) is held against; `clean` is a history variable. A command
is one step: that a signal hits a command half-way is modelled for `wg-quick`
only. A location nobody serves fails as a missing list does.

`TunnelPod` assumes that a `Connect` that succeeds exits at the location it was
given. `CleanConnectReaches` proves it for these providers when no openvpn was
about; `openvpn_switch` shows that a reconnect without a `Disconnect` breaks it.

### DaemonTunnel

Four providers send commands to a daemon they do not own. As in `DirectTunnel`
they are one state machine and a record of switches; a command is one step.
`daemon` is the command channel: `"up"`, `"loading"` (no catalog yet),
`"partial"` (status answered, login not), `"wedged"`, `"starting"`. It may wedge
at any time of an outage and no provider call but a restart helps it; `link` and
`account` live on beside it. `Words` stands for the catalogs that the text of an
error makes: a silent daemon's command line still prints, PIA and NordVPN ignore
the error and split the text (`pia.go:255`, `nordvpn.go:82`, `exec.go:82-95`), and
the cache stores it. What follows is the provider's `Connect`: PIA's begins with
`ensureDaemonResponsive`, so that the daemon is restarted, and its `set region`
fails quietly; NordVPN's connects to a word, which does nothing (`PickWord`).

| Switch | Values |
|---|---|
| `heals`: calls that begin with `ensureDaemonResponsive` | ExpressVPN all four; PIA all but `Locations`; NordVPN and WARP none |
| `session`: what `LoggedIn` makes of silence | ExpressVPN a yes, NordVPN and WARP a no; PIA reads a flag of the process |
| `waits`: how `Connect` learns of its tunnel | ExpressVPN polls the daemon and trusts a Connected seen once, PIA reads its monitor, WARP asks the other end, NordVPN asks once |
| `catalog` | ExpressVPN a placeholder until loaded, and nothing of an error; PIA and NordVPN whatever the command prints; WARP a constant |
| `names` | the connect command names the location and does nothing for one that is none: ExpressVPN, NordVPN; PIA's region is set by a command of its own, WARP has none |
| `hangs` | ExpressVPN's login alone can hang, and restarts the daemon then |
| `anonymous` | WARP's `Disconnect` deletes the registration |

A caller's place (`at`) is a step and the provider call it belongs to, so that
recovery (`probe`, `throttle`, `swap`, `restart`, `await`) is written once and
returns to where it was called from. `main` repeats the boot login until it
succeeds, then connects; the other callers start once it has. A reconnecting
caller connects when it likes, a rotating one disconnects first and has several
attempts. `holders`, the callers whose reading of `lastDaemonRecovery` is still
its value, stands for the compare-and-swap; `recent` for the throttle, 60 s for
ExpressVPN and 120 s for PIA. `ThrottlePasses` waits for a restart in progress,
for the daemon to start, and for callers that failed before the restart to read
the throttle: the container stops a unit within 10 s
(`docker/Dockerfile.tunnel:148`), nothing lies between a caller's failing probe
and that reading, and that the daemon starts in time is an assumption.
`overtaken` and `witnessed` are history variables, `holders` and
`saw` the values of local variables. PIA's two monitor streams are one, since
both come from the same daemon.

### ProxyChain and FetchProxy

`ConnectProxy`'s connections and rotations, with what its `Disconnect` and
`Reconnect` are for TunnelBear: session, server list, one forced login, dialer,
active edge, exit-IP contract. The watchdog only connects, when the state is
Failed or enough consecutive dials have failed. Rotation and watchdog overlap
freely, which the tracker prevents most of the time and `TunnelPod` shows it
does not always. A connection loads the dialer after the gate and keeps it; the
installed one is an edge's, the refusing one, or none, with which the proxy
would dial from the pod's own address.

`FetchProxy` adds requests to one host: reuse of the cached connection, a second
try on an error, dial, store. Connections have an edge they leave through.

### WedgeGuard, Relogin, LocationsCache

Each is a clock or a cache that `TunnelPod` abstracts. `WedgeGuard`
has discrete time and the pod changing between samples in every way; an
observer's stopwatches (`dark`, `bright`, `rested`), which the guard does not
see, say what it should have decided. `Relogin`
reads the clock, loads, swaps and logs in as four steps; mapped to `LoginTurns`,
the swap is the turn, `due` the last reservation and the throttle, and everything
else a stutter. `LocationsCache` gives the lock up for the provider call, as the
code does.

## 3. What the runs check

| Run | Configuration | Shows |
|---|---|---|
| `pod_solo` | timer and wedge guard | one driver at a time: header, readiness and tunnel stay in step through every failure, shutdown and respawn; the pod keeps `PodContract` |
| `pod_races` | timer, one `POST /rotate`, recycler, no baseline | what survives overlap: types, somebody drives, one disconnect, boot exclusive |
| `pod_live` | timer and watchdog, fairness | a held pod settles and recovers |
| `chain` | a rotation, a watchdog, two clients, capacity 1, fairness | counters, drain flag and drains over a dialer that comes and goes; a pod without an edge refuses, and does not stay so |
| `daemon` | four providers, boot and two callers, outages, fairness | who restarts a daemon and when; catalog never empty, nor replaced by an error where the provider checks for one; no pod stays behind a wedged daemon |
| `wedge` | period 3, threshold 8 | a wedge is caught in bounded time; a pod Ready for more than a period within the threshold is not ended |
| `relogin` | three threads | reservations apart, one thread each; implements `LoginTurns` |
| `direct` | five providers that cover the switches, outages, crashes, fairness | what calls leave behind, and that a pod recovers from it |
| `pod_exit_dangling` | violated | the second exit path ends the process under the first one's `Disconnect` |
| `openvpn_switch` | violated | a Connect on a connected pod reports a location traffic does not exit at |
| `pia_words` | violated | the words of a wedged PIA daemon's command line replace the good catalog |
| `fetch_old_exit` | violated | fetches go on through the edge of before a rotation, and while the pod is disconnected |

**Bounds.** `pod_solo` has three locations, one of them excluded, so that one
can fail and another be chosen, two attempts (a retry and a give-up) and a
recycle after one rotation. Every race the code can have needs two threads that
drive and one that observes; `pod_races` has three besides `main`. The racing
runs have one location and one attempt, since overlap and not choice is their
subject, and no recycle by count (`RecycleLimit` 0). Chain: two clients and
capacity 1, so that the limit turns one away; one rotation and one watchdog, so
that a Disconnect and a Connect cross; one edge, since what matters is whether
there is one; a threshold of 2, so that a success can come between failures. A
second rotation is past the time limit: that two drains overlap is covered by
`FlagReleased` and `NothingLeaks`, which hold for any number, but not for
`DrainCompletes`. Daemon: `main`, a reconnecting and a rotating caller, so that
two race for a recovery while a third is elsewhere; one catalog of regions and
the words of an error, since the properties are which of these, or nothing, there
is. `fetch_old_exit`: two edges and two
connections, one request. Relogin: three threads, a throttle of 3, a clock from
4 to 12. Direct: two locations, so that
old and new differ, and two openvpn processes, the one that holds `tun0` and one
beside it; with every process in use a new one replaces one without `tun0`. Its
five providers cover every value of every switch but `"embedded"`, whose
behaviours are those of a list that is there.

**Fairness.** The Go scheduler runs every runnable goroutine and provider calls
have timeouts, hence weak fairness of each thread's steps; the watchdog's ticker
keeps ticking, hence weak fairness of its tick *on a Failed pod* (on a Ready pod
it acts only if dials fail, which nothing guarantees); systemd respawns
(`Restart=always`); 60 seconds pass. In `direct`, commands return, an openvpn that was
told to go goes and one that can reach its server connects, and a pod that is not connected
tries again (boot loop, rotation and watchdog do). In `daemon`, the same, and
a restarted daemon comes up and loads its catalog, the throttle and the cool-down
pass; nothing is assumed of the link, which may fail to come up for ever, nor
of a monitor's delivery. In `chain`, provider calls end; a service that is asked
infinitely often answers infinitely often, hence strong fairness of `SignIn` and
`ChooseEdge`; clients come, and some send good requests that find the gate open,
hence strong fairness of `PassGate`: the watchdog learns of a refusing dialer
only from the dials clients lose, and from recent ones (`TT/main.go:472`): the
silence window of two minutes is left out, since it only puts a reconnect off to
the next lost dials. The drain polls but need not time out.
Nothing is assumed of the timer, of `POST /rotate`, of the guard or the recycler,
of a drain's time-out or of clients. `CHECK_DEADLOCK FALSE` is used only where a system may stop: see the
`.cfg` files.

`Recovers` assumes that rotations come to rest as well as that the provider
works. Without that premise TLC finds a cycle in which the watchdog's reconnect
and a rotation that passed its check before it take each other's tunnel down for
ever. It takes a perfectly unlucky timer, but nothing in the code excludes it.

## 4. What is proved

For every value of the constants, from the named assumptions of the modules
(`ThreadAssumption`: the kinds of threads are disjoint; `ParameterAssumption`,
`CapacityAssumption`, `ConnsAssumption`: types and finiteness):

* **TunnelPod.** `TypeCorrect`, from `TypeInv`, which adds that a thread that
  has connected knows a location: a leak burns it. `BootExclusive`, from
  `BootInv`: goroutines are unborn until `main` spawns them (`Unspawned`), and
  while `main` boots the state is never Ready, so that `POST /rotate` starts
  nothing (`BootOwnsState`). `AlwaysDriven`: a step that unsettles the state
  takes its own thread into `Driving`, one that takes a thread out of `Driving`
  settles the state, and `Spawn`, which sets many counters at once, finds them
  unborn; it needs nothing of how threads overlap, which is why it holds under
  every race. `ShutdownOnce`. `FailedNotRetried`, from `Budget`: an attempt
  under way has not burnt its location yet, so the locations burnt stay below
  the attempts made; it rests on the lemma `BurnOne` about cardinalities.
  Some properties fail as soon as two drivers overlap (a timer, a `POST /rotate`
  and two locations are enough for TLC to refute them). They are proved of every
  behaviour in which none do, however many goroutines there are: `Spec /\
  []Serialized`, where `Serialized` says that of two threads past their check of
  the state, and not yet done, one is the other. `SerialInvariant`: the rotator
  waits for `main`'s boot (`Waiting`), a driver withdraws Ready before its first
  call of the provider (`Hidden`), and what it has connected, recorded and
  announced stays so until it publishes (`Carried`). From it `SerialHidesReady`,
  `SerialHeaderCurrent`, `SerialExitsAsAdvertised`, `SerialTeardown`, and
  `SerialKeepsContract`, the refinement of `PodContract`. So the check that is
  not atomic with what follows it (`TT/rotator.go:99`, `TT/main.go:424`) is all
  that stands between the code and these promises; a lock from check to settling
  would give them. A connect whose exit IP nobody can tell keeps them as well: it
  removes the header before it publishes. `SoloKeepsPromises`: a pod with one
  driver (`OneDriver`: a single goroutine rotates, or a watchdog reconnects and
  nobody rotates) has no overlap, so the hypothesis goes away.
  `UndisturbedExitReleases`: `ExitReleasesSession`, which `pod_exit_dangling`
  violates, holds of every behaviour without a second exit path, a connect that
  is still to come when the exit path has disconnected, and a provider out of
  reach at that moment; there is no fourth way to leave a session behind.
* **ConnectProxy.** `NothingLeaks`, from `CountInv`: three lemmas say what one
  move of one connection does to the cardinality of a set of phases.
  `TypeCorrect` (at most `Capacity` connections) and `FlagReleased` follow, and
  `DrainCutsNobody`: a drain that ends by its poll leaves no connection relaying.
  What the poll cannot see is a request past the gate; `DrainAdmitsNobody` bounds
  it: with one rotation at a time (`OneRotation`; two and TLC has a
  counterexample, since the first wait to end opens the gate) whoever is past
  the gate when a drain ends was past it when the drain began.
* **WedgeGuard.** `WedgesAreCaught`, from `Caught`, which relates the age of
  `nonReadySince` to how long the pod has really been dark. `RecoveringSpared`,
  from `Patient`: `nonReadySince` is never older than the last spell of Ready that
  was longer than a period, since a sample has fallen into that spell.
* **Relogin.** `NoLoginStorm`, from `Apart`: every reservation is at or before
  `lastRelogin`, and a thread's reading of it bounds what it may write. `OneLogin`
  adds that who may log in holds a reservation (`Reserved`). `ThrottleTakesTurns`:
  `Relogin` implements `LoginTurns` under the mapping of its `INSTANCE`.
* **LocationsCache.** `BootedNeverEmpty`, from `Filled`: after boot the cache is
  not empty, and every call in flight has seen as much.
* **DirectTunnel**, from `DirectAssumption` (callers differ, `Down` is nothing
  else, a provider that ends openvpn itself reads its bookkeeping and not the
  process list), for every fleet of providers. `TypeCorrect`, from `TypeInv`: a Connect
  under way knows its location (`Chosen`). `ReleaseInvariant` says by label what
  a call has started or taken down: no OpenVPN provider has a `wg0`, no WireGuard
  one a process (`Kinds`), a Connect that began with no openvpn about has started
  all there are (`Own`), after SIGTERM nobody starts one (`Told`). From it
  `DisconnectComplete`, `SigtermLeavesNone`, `StaleLinksCleared` and
  `CleanConnect`. `FailureClean`, from `Ended`: such a provider has recorded the
  server it started before its poll, so its `pkill` is never skipped.

* **ProxyChain, FetchProxy**, for any number of drivers, edges and connections,
  from the disjointness assumptions. `ChainImplementsProxy` and
  `FetchImplementsChain`: each module's steps are steps of the one below or leave
  it alone, so that `CountersExact` and `DrainFlagReleased` hold above as well
  (`ChainCountersExact`, `ChainFlagReleased`). `ChainTypeCorrect`, from
  `ChainTypes`: a driver about to install or claim a dialer knows its edge.
  `FailsClosed`: each driver's two writes are ordered so that the claim is later
  than the dialer and earlier withdrawn, hence with nobody between his two
  writes an edge's dialer has an active edge. `DialerFollowsActive`: the dialer is
  the active edge's, not only some edge's, in every behaviour in which no two
  drivers are between their two writes at once (`WritesApart`), from `Agreed`;
  overlap of any other kind does no harm. `FetchTypeCorrect` and
  `FetchNeverDirect` (no page from the pod's own address, also on connections
  that outlive their dialer), from `FetchInv` and, by the refinement,
  `ChainTypes`. `FollowsIfClosed`: `FetchFollowsDialer`, which `fetch_old_exit`
  refutes, holds if no connection is cached and no request dials whenever the
  dialer changes (`DialerMovesAlone`), from `Following`: closing them in `Connect`
  and `Disconnect` would be enough. `NewConnKept`.
* **DaemonTunnel**, for every fleet and any number of callers, from
  `DaemonAssumption` (a monitor goes with a login flag; the words of an error are
  one of the cache's catalogs). `DaemonImplementsCache`,
  hence `DaemonNeverEmpty`. `DaemonKeepsGoodCatalog`, from `Sound`: what the cache
  and the callers on their way to it hold is regions or nothing, of a provider
  that tells an error from an answer; the cache alone could not give it, since
  to it every non-empty answer is a catalog. `DaemonTypeCorrect`.
  `RecoveryExclusive`, from `Alone`: while somebody restarts, the throttle is
  young and whoever else still holds a reading of it holds an old one.
  `ProtocolSafe`, from `BootFirst`: before `main` has booted nobody else is in a
  call, and afterwards PIA's login flag is up for good (`Flagged`), so that only
  `main` ever sets a transport and there is nobody who could dial between its
  two commands. `SuccessReal`, from `Honest`: who polls has been shown the tunnel
  if it is up. Lemmas say by group of steps what a caller's step may do
  (`Calm...`, `Orderly...`, `Away`).

Only model-checked: liveness (`AlwaysSettles`, `Recovers`, `DrainCompletes`,
`RefusalHealed`, `WedgeHealed`, `Reconnects`), which is out of the prover's
reach.

## 5. Where code and comments part

Four runs end in a violation; `PROJECT.json` quotes the lines. Further
differences met while modelling, for which no run is kept:

* `TT/server.go:128-131` describes the debounce as time since a rotation
  *completed*; the stamp is written after Ready is published, so a `POST` in
  between starts a second rotation at once, and `:17-18` rules overlap out.
* `TT/rotator.go:56-59` counts relocations towards the recycle; the code counts
  fires of the timer, skipped ones included (`:66`).
* `TT/connect.go:161` speaks of the boot login as done before connect; the boot
  connect logs in again by itself when the session is lost between the two.
* `TT/rotator.go:108-111` and `TT/drain.go:47-48` promise not to cut a live
  request; a request past the gate whose `200` is not written yet is not counted
  (`internal/proxy/proxy.go:381`), so a drain may complete under it.
* `TT/main.go:481-484` speaks of a continuous wedge; the guard samples, so a pod
  that is Ready only between samples is taken for wedged, although `:491-492`
  says that a flaky but recovering watchdog never trips the guard. A pod that is
  Ready for longer than a period is safe, by `RecoveringSpared`; one with shorter
  spells is not.
* Rotator and watchdog each say that they stay out of another's way
  (`TT/rotator.go:76-78`, `TT/main.go:400-402`), but check the state and act on
  it later; both may drive the provider at once. `pod_races` has the overlap. A
  consequence: the tunnel-up listener runs outside the tracker's lock
  (`TT/state.go:145`), so two overlapping tunnel-ups may update tracker and
  header in opposite orders and leave them different at rest, which
  `TT/state.go:150-153` says cannot be.
* `TT/drain.go:20-21, 50-52` promise that nobody is let through to a tunnel that
  is being torn down; the flag is cleared when the wait ends, before
  `Disconnect`, so that clients pass the gate for the whole reconnect
  (`TT/drain.go:54`). `DisconnectedFailsClosed` is what protects them behind a
  proxy-chain provider.
* `TT/main.go:261`: a listener that fails ends the process with `log.Fatalf`,
  which runs no deferred call and no `gracefulDisconnect`, although
  `TT/shutdown.go:28-31` speaks of every exit path.
* `internal/proxy/proxy.go:222`: `recordDial` moves three atomics one at a time,
  and the watchdog reads them so; it may see a count without its time. It then
  decides a tick later.
* The notifier's snapshot is taken when the event is sent
  (`internal/notifier/notifier.go:172`), not when it happened.
* `fastvpn.go:594-596` wants a rotation's window to exit through WARP; a Connect
  that fails after `setupNestedRouting` leaves the rule by which the main table
  wins until the next `Disconnect`.
* Seven of the nine OpenVPN providers leave openvpn running when their poll runs
  out, so a pod that fails without a `Disconnect` in between collects processes,
  and one of them may take `tun0` later, for its own location.
* `TT/connect.go:316-318` doubles without bound before it caps: from attempt 35
  on the product wraps and the wait is no longer capped from above by the
  intended rule. `ROTATION_RETRY_MAX` is far below that.

Of the vendor daemons and proxy chains, likewise read from the code:

* PIA's `LoggedIn` is a flag of the process, so that a session the daemon has
  lost goes unnoticed until the process ends. The comment that the next `Login`
  tries the transport again is untrue from then on as well: it is not called.
* PIA shows its monitor's last value, which a wedged or restarted daemon leaves
  in place; a `Connect` may report the tunnel of before, and the exit-IP contract
  is what catches it. `SuccessWitnessed` excludes PIA for this reason. After
  enough failures the monitor is given up for good, which is slower but right;
  each respawn until then leaves a goroutine behind (`pia/monitor.go:153`).
* ExpressVPN's `recoverDaemon` speaks of a wait of up to 30 s after a restart;
  its 15 probes of a silent daemon take their own time-outs besides
  (`expressvpn.go:120-132`), which is more than the throttle of 60 s: a daemon
  that takes longer than that to start is restarted by another caller while the
  first still waits. The model assumes that it starts in time.
* PIA's and NordVPN's `Locations` ignore the error of the command and return what
  it has printed (`pia.go:255`, `nordvpn.go:82`). The words are cached and served
  for a TTL (`TT/locations_cache.go:76-79`), long after the daemon has recovered,
  and after boot they replace a good catalog. PIA's `set region` then fails
  quietly and `Connect` goes to the region of before, which the tracker records
  under a line of the error. NordVPN's `connect` fails, so the pod
  has no tunnel until the TTL has passed. `expressvpn.go:56-62` describes this
  very failure; only ExpressVPN guards against it.
* NordVPN ignores an error of `connect` and asks once; NordVPN and WARP have no
  recovery, so a wedged daemon is the wedge guard's after the boot connect, and
  nobody's before.
* WARP's `Disconnect` deletes the registration, and a deletion that fails leaves
  the identity in use for the next connect; one that succeeds makes it log in
  again, which the re-login throttle may refuse for a minute.
* TunnelBear: a `Disconnect` between the two writes of a `Connect` leaves an
  active edge over the refusing dialer, and two Connects may leave the edge of
  one active over the dialer of the other. Only dials that clients lose heal the
  former (`RefusalHealed`), nothing the latter before the next rotation.
  `ensureSession` logs in outside its lock, so two callers may log in at once
  (`tunnelbear.go:111`).
* Psiphon: of two overlapping Connects one may start its subprocess before the
  other has stored its own, which is then nobody's and keeps the local port
  (`psiphon.go:204-219`).
* Fetch proxy: a client's own cancel, like any error, closes the connection all
  its requests share (`impersonate_transport.go:77`); two first requests both
  dial and the earlier connection is overwritten, not closed (`:139`); the second
  try may send a body that the first has consumed. Its dials are not recorded,
  so the watchdog is blind to a pod that only fetches, and the drain flag does
  not concern it.

## 6. What is not modelled, and why

`PROJECT.json` has one entry per component and one per hazard, with the reason.

* No state a model would say anything about: HTTP parsing, TLS fingerprints, URL
  filters, the splice of bytes, the command runner, the boot jitter, and the
  batch jobs (`proton-updater`, catalog scripts, installers), which run once, in
  order, and keep nothing.
* Times: the two back-offs are formulas for a wait; the models let a retry
  happen at any time.
* The notifier: one goroutine per event, nobody waits for it.
* `Login` and `Logout` of the providers in `DirectTunnel` check an environment
  variable and set a flag; nobody calls any provider's `Logout`.
* WARP's managed enrolment and NordVPN's settings before a login.
* Psiphon: its subprocess interleaves as `DirectTunnel` has it for openvpn, its
  dialer as `ProxyChain` has it.
* `log.Fatalf` as an exit path, and a crash of the process under a vendor daemon:
  `DaemonTunnel` starts in every state a crash can leave the daemon in, but ends
  with the process. `DirectTunnel` has crashes and respawns, `TunnelPod` exits and
  respawns.

What would come next: an abstract provider contract which `DirectTunnel` and
`DaemonTunnel` implement and `TunnelPod` is composed with; Psiphon.
