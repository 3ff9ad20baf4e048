----------------------------- MODULE DirectTunnel -----------------------------
(***************************************************************************)
(* The providers that build their tunnel themselves instead of asking a    *)
(* vendor's daemon: nine start openvpn (internal/provider/{windscribe,     *)
(* veepn,ovpn,cyberghost,ipvanish,protonvpn,purevpn,fastvpn,surfshark}),   *)
(* two call wg-quick (mullvad, surfshark).  They are one program with a    *)
(* few switches, so they are one module with a record of switches each.    *)
(*                                                                         *)
(* Two goroutines use the provider: the driver, which connects and         *)
(* disconnects (boot, watchdog and rotations, one call at a time), and an  *)
(* exit path with its Disconnect.  openvpn processes, interfaces and       *)
(* routing rules outlive the calls that made them, some even the process.  *)
(***************************************************************************)
EXTENDS Naturals, FiniteSets

CONSTANTS Driver, Exiter, \* the two callers
          Daemons,        \* openvpn processes told apart; past them one is forgotten
          Locations,
          Down,           \* no location, no process, no interface
          Fleet,          \* the providers a pod may run
          Outages         \* the outside world may fail

Callers == {Driver, Exiter}

\* catalog: where the server list comes from and what a failed load leaves;
\* kills:   Connect ends openvpn when its poll runs out;
\* locked:  activeServer and activeLocation change in one critical section;
\* live:    Status asks the kernel instead of the bookkeeping;
\* nested:  openvpn rides inside WARP, by policy-routing rules.
Switches == [tunnel  : {"openvpn", "wireguard"},
             catalog : {"embedded", "file", "sticky", "api"},
             kills : BOOLEAN, locked : BOOLEAN, live : BOOLEAN, nested : BOOLEAN]

Windscribe == [tunnel |-> "openvpn", catalog |-> "embedded", kills |-> TRUE,
               locked |-> TRUE, live |-> FALSE, nested |-> FALSE]
VeePN      == [Windscribe EXCEPT !.catalog = "file"]
OVPN       == [tunnel |-> "openvpn", catalog |-> "file", kills |-> FALSE,
               locked |-> FALSE, live |-> TRUE, nested |-> FALSE]
IPVanish   == OVPN
PureVPN    == OVPN
CyberGhost == [OVPN EXCEPT !.catalog = "embedded"]
ProtonVPN  == [OVPN EXCEPT !.catalog = "sticky"]
FastVPN    == [OVPN EXCEPT !.nested = TRUE]
Surfshark  == [OVPN EXCEPT !.catalog = "api"]
SurfsharkWireGuard == [Surfshark EXCEPT !.tunnel = "wireguard"]
Mullvad    == [OVPN EXCEPT !.tunnel = "wireguard"]

Providers == {Windscribe, VeePN, OVPN, IPVanish, PureVPN, CyberGhost, ProtonVPN,
              FastVPN, Surfshark, SurfsharkWireGuard, Mullvad}

ASSUME DirectAssumption ==
  /\ Driver # Exiter
  /\ Down \notin Locations \cup Daemons
  /\ Fleet \subseteq Switches
  /\ \A q \in Fleet : q.kills => ~q.live
  /\ Outages \in BOOLEAN

VARIABLES
  p,         \* the provider of this pod
  catalog,   \* the package's server cache: "none", "loaded" or "broken"
  config,    \* the location the config file on disk leads to
  phase, at, \* per openvpn process: its phase, and the location it was started for
  tun0,      \* the openvpn process that holds tun0 and the default route
  wg0,       \* the location of the WireGuard interface
  rule,      \* FastVPN's "main table beats WARP" routing rule is installed
  server,    \* activeServer, activeRelay or activeSlug, by its location
  active,    \* activeLocation
  loc,       \* the location the driver connects to
  clean,     \* history: no openvpn was around when the driver's Connect began
  outage, cancelled, alive,
  pc

book    == <<server, active>>
daemons == <<phase, at, tun0>>
kernel  == <<daemons, wg0, rule>>
call    == <<loc, clean>>
world   == <<p, outage, cancelled, alive>>
vars    == <<catalog, config, kernel, book, call, world, pc>>

Phases == {"none", "starting", "up", "spare", "dying"}

\* What the driver's last call came to.
Rest == {"fresh", "connected", "failed", "released"}
ConnectLabels == {"load", "write", "nest", "spawn", "poll", "kill", "cleanup",
                  "up", "mark", "mark2", "status"}
DisconnectLabels == {"pkill", "await", "clear", "clear2"}
Labels == Rest \cup ConnectLabels \cup DisconnectLabels \cup {"idle", "exit"}

WireGuard == p.tunnel = "wireguard"

\* `ip route get 8.8.8.8` answers "dev tun0", or `wg show wg0` answers at all.
Routed == IF WireGuard THEN wg0 # Down
          ELSE tun0 # Down /\ (p.nested => rule)

\* The location traffic really exits at.
Session == IF WireGuard THEN wg0 ELSE IF tun0 = Down THEN Down ELSE at[tun0]

\* openvpn processes that nobody has told to go.
Untold == {d \in Daemons : phase[d] \in {"starting", "up", "spare"}}

Goto(c, l) == pc' = [pc EXCEPT ![c] = l]

\* A command run under the caller's context does nothing once that is done;
\* gracefulDisconnect brings a context of its own.
Runs(c) == c = Exiter \/ ~cancelled

\* What depends on the outside world may fail in an outage.
MayFail == outage \/ cancelled

-----------------------------------------------------------------------------
Init ==
  /\ p \in Fleet
  /\ catalog = "none" /\ config = Down
  /\ phase = [d \in Daemons |-> "none"] /\ at = [d \in Daemons |-> Down]
  /\ tun0 = Down /\ wg0 = Down /\ rule = FALSE
  /\ server = Down /\ active = Down
  /\ loc = Down /\ clean = TRUE
  /\ outage = Outages /\ cancelled = FALSE /\ alive = TRUE
  /\ pc = [c \in Callers |-> IF c = Driver THEN "fresh" ELSE "idle"]

-----------------------------------------------------------------------------
\* Connect.  Nothing asks whether a tunnel is up already.

BeginConnect(l) ==
  /\ alive /\ pc[Driver] \in Rest
  /\ loc' = l
  /\ clean' = (\A d \in Daemons : phase[d] = "none")
  /\ Goto(Driver, "load")
  /\ UNCHANGED <<catalog, config, kernel, book, world>>

\* Surfshark's list alone is fetched under the caller's context.
CatalogMayFail ==
  CASE p.catalog = "embedded" -> FALSE
    [] p.catalog = "api" -> MayFail
    [] OTHER -> outage

\* Mutant: openvpn is started with the config file that happens to be there.
CatalogLoadedUnwritten ==
  /\ alive /\ pc[Driver] = "load" /\ catalog # "broken"
  /\ catalog' = "loaded"
  /\ Goto(Driver, IF WireGuard THEN "cleanup" ELSE "spawn")
  /\ UNCHANGED <<config, kernel, book, call, world>>

CatalogLoaded ==
  /\ alive /\ pc[Driver] = "load" /\ catalog # "broken"
  /\ catalog' = "loaded"
  /\ Goto(Driver, "write")
  /\ UNCHANGED <<config, kernel, book, call, world>>

\* Mutant: every provider remembers a failed load.
CatalogMissingForGood ==
  /\ alive /\ pc[Driver] = "load"
  /\ catalog = "broken" \/ (catalog = "none" /\ CatalogMayFail)
  /\ catalog' = "broken"
  /\ Goto(Driver, "failed")
  /\ UNCHANGED <<config, kernel, book, call, world>>

\* A list that cannot be loaded ends the call before it has changed anything.
\* ProtonVPN alone remembers the failure.
CatalogMissing ==
  /\ alive /\ pc[Driver] = "load"
  /\ catalog = "broken" \/ (catalog = "none" /\ CatalogMayFail)
  /\ catalog' = IF p.catalog = "sticky" THEN "broken" ELSE catalog
  /\ Goto(Driver, "failed")
  /\ UNCHANGED <<config, kernel, book, call, world>>

\* FastVPN's Connect begins with warpUp.
TransportMissing ==
  /\ alive /\ pc[Driver] = "load" /\ p.nested /\ MayFail
  /\ Goto(Driver, "failed")
  /\ UNCHANGED <<catalog, config, kernel, book, call, world>>

AfterWrite == IF WireGuard THEN "cleanup" ELSE IF p.nested THEN "nest" ELSE "spawn"

\* Mutant: a config file that is there is left as it is.
WriteConfigOnce ==
  /\ alive /\ pc[Driver] = "write"
  /\ config' = IF config = Down THEN loc ELSE config
  /\ Goto(Driver, AfterWrite)
  /\ UNCHANGED <<catalog, kernel, book, call, world>>

WriteConfig ==
  /\ alive /\ pc[Driver] = "write"
  /\ config' = loc
  /\ Goto(Driver, AfterWrite)
  /\ UNCHANGED <<catalog, kernel, book, call, world>>

\* resolveRemotes and setupNestedRouting, which deletes the rule before it
\* adds it again.
SetupNestedRouting ==
  /\ alive /\ pc[Driver] = "nest"
  /\ \/ ~cancelled /\ rule' = TRUE /\ Goto(Driver, "spawn")
     \/ MayFail /\ rule' \in {rule, FALSE} /\ Goto(Driver, "failed")
  /\ UNCHANGED <<catalog, config, daemons, wg0, book, call, world>>

FreeDaemons ==
  IF \E d \in Daemons : phase[d] = "none" THEN {d \in Daemons : phase[d] = "none"}
                                          ELSE Daemons \ {tun0}

\* openvpn --daemon: a process reads the config file and sets out to connect,
\* whatever other openvpn processes there are.
StartDaemon ==
  /\ alive /\ pc[Driver] = "spawn"
  /\ \/ /\ ~cancelled
        /\ \E d \in FreeDaemons :
             /\ phase' = [phase EXCEPT ![d] = "starting"]
             /\ at' = [at EXCEPT ![d] = config]
        /\ Goto(Driver, "poll")
     \/ /\ MayFail /\ Goto(Driver, "failed")
        /\ UNCHANGED <<phase, at>>
  /\ UNCHANGED <<catalog, config, tun0, wg0, rule, book, call, world>>

PollSucceeds ==
  /\ alive /\ pc[Driver] = "poll" /\ Routed
  /\ Goto(Driver, "mark")
  /\ UNCHANGED <<catalog, config, kernel, book, call, world>>

\* Mutant: no provider ends openvpn when its poll runs out.
PollRunsOutLeaving ==
  /\ alive /\ pc[Driver] = "poll" /\ ~Routed
  /\ outage \/ \A d \in Daemons : phase[d] # "starting"
  /\ Goto(Driver, "failed")
  /\ UNCHANGED <<catalog, config, kernel, book, call, world>>

\* The last poll finds no route.  A server within reach answers before that.
PollRunsOut ==
  /\ alive /\ pc[Driver] = "poll" /\ ~Routed
  /\ outage \/ \A d \in Daemons : phase[d] # "starting"
  /\ Goto(Driver, IF p.kills THEN "kill" ELSE "failed")
  /\ UNCHANGED <<catalog, config, kernel, book, call, world>>

\* pkill -SIGTERM openvpn: by name, so every one of them; the command returns
\* before they are gone.
TellAll ==
  phase' = [d \in Daemons |-> IF phase[d] = "none" THEN "none" ELSE "dying"]

KillDaemons ==
  /\ alive /\ pc[Driver] = "kill"
  /\ IF Runs(Driver) THEN TellAll ELSE UNCHANGED phase
  /\ Goto(Driver, "failed")
  /\ UNCHANGED <<catalog, config, at, tun0, wg0, rule, book, call, world>>

\* Mutant: a leftover wg0 is not looked for.
CleanupSkipped ==
  /\ alive /\ pc[Driver] = "cleanup"
  /\ Goto(Driver, "up")
  /\ UNCHANGED <<catalog, config, kernel, book, call, world>>

CleanupStaleWireGuard ==
  /\ alive /\ pc[Driver] = "cleanup"
  /\ wg0' = IF Runs(Driver) THEN Down ELSE wg0
  /\ Goto(Driver, "up")
  /\ UNCHANGED <<catalog, config, daemons, rule, book, call, world>>

\* wg-quick up returns with interface and routes in place; it refuses to run
\* when wg0 exists, and leaves it half-made when its context ends it.
WgQuickUp ==
  /\ alive /\ pc[Driver] = "up"
  /\ \/ ~cancelled /\ wg0 = Down /\ wg0' = config /\ Goto(Driver, "mark")
     \/ outage /\ UNCHANGED wg0 /\ Goto(Driver, "failed")
     \/ wg0 # Down /\ UNCHANGED wg0 /\ Goto(Driver, "failed")
     \/ cancelled /\ wg0 = Down /\ wg0' \in {Down, config} /\ Goto(Driver, "failed")
  /\ UNCHANGED <<catalog, config, daemons, rule, book, call, world>>

\* The bookkeeping of a success: in one critical section, or activeServer
\* without a lock and then activeLocation under it.
MarkServer ==
  /\ alive /\ pc[Driver] = "mark"
  /\ server' = loc
  /\ IF p.locked THEN active' = loc /\ Goto(Driver, "status")
                 ELSE UNCHANGED active /\ Goto(Driver, "mark2")
  /\ UNCHANGED <<catalog, config, kernel, call, world>>

MarkLocation ==
  /\ alive /\ pc[Driver] = "mark2"
  /\ active' = loc
  /\ Goto(Driver, "status")
  /\ UNCHANGED <<catalog, config, kernel, server, call, world>>

\* Connect returns Status.
Status ==
  /\ alive /\ pc[Driver] = "status"
  /\ Goto(Driver, IF (IF p.live THEN Routed ELSE server # Down)
                    THEN "connected" ELSE "failed")
  /\ UNCHANGED <<catalog, config, kernel, book, call, world>>

-----------------------------------------------------------------------------
\* Disconnect.

BeginDisconnect ==
  /\ alive /\ pc[Driver] \in Rest
  /\ Goto(Driver, "pkill")
  /\ UNCHANGED <<catalog, config, kernel, book, call, world>>

\* Mutant: nothing is done for a provider that says it is not connected.
TakeDownIfActive(c) ==
  /\ alive /\ pc[c] = "pkill"
  /\ IF Runs(c) /\ active # Down
       THEN IF WireGuard THEN wg0' = Down /\ UNCHANGED phase
                         ELSE TellAll /\ UNCHANGED wg0
       ELSE UNCHANGED <<phase, wg0>>
  /\ Goto(c, IF WireGuard THEN "clear" ELSE "await")
  /\ UNCHANGED <<catalog, config, at, tun0, rule, book, call, world>>

\* Mutant: an exit path uses the context that the signal has cancelled.
TakeDownCancelled(c) ==
  /\ alive /\ pc[c] = "pkill"
  /\ IF ~cancelled
       THEN IF WireGuard THEN wg0' = Down /\ UNCHANGED phase
                         ELSE TellAll /\ UNCHANGED wg0
       ELSE UNCHANGED <<phase, wg0>>
  /\ Goto(c, IF WireGuard THEN "clear" ELSE "await")
  /\ UNCHANGED <<catalog, config, at, tun0, rule, book, call, world>>

TakeDown(c) ==
  /\ alive /\ pc[c] = "pkill"
  /\ IF Runs(c)
       THEN IF WireGuard THEN wg0' = Down /\ UNCHANGED phase
                         ELSE TellAll /\ UNCHANGED wg0
       ELSE UNCHANGED <<phase, wg0>>
  /\ Goto(c, IF WireGuard THEN "clear" ELSE "await")
  /\ UNCHANGED <<catalog, config, at, tun0, rule, book, call, world>>

\* The wait for the route to go ends after two seconds whether it has gone or
\* not; then FastVPN removes its rules.
TeardownNestedRouting(c) ==
  /\ alive /\ pc[c] = "await"
  /\ rule' = (rule /\ ~Runs(c))
  /\ Goto(c, "clear")
  /\ UNCHANGED <<catalog, config, daemons, wg0, book, call, world>>

\* Where a Disconnect ends.
Returned(c) == IF c = Driver THEN "released" ELSE "exit"

ClearServer(c) ==
  /\ alive /\ pc[c] = "clear"
  /\ server' = Down
  /\ IF p.locked THEN active' = Down /\ Goto(c, Returned(c))
                 ELSE UNCHANGED active /\ Goto(c, "clear2")
  /\ UNCHANGED <<catalog, config, kernel, call, world>>

ClearLocation(c) ==
  /\ alive /\ pc[c] = "clear2"
  /\ active' = Down
  /\ Goto(c, Returned(c))
  /\ UNCHANGED <<catalog, config, kernel, server, call, world>>

-----------------------------------------------------------------------------
\* The process.

\* An exit path: SIGTERM cancels the driver's context, the guard and the
\* recycler do not.
BeginExit ==
  /\ alive /\ pc[Exiter] = "idle"
  /\ cancelled' \in BOOLEAN
  /\ Goto(Exiter, "pkill")
  /\ UNCHANGED <<catalog, config, kernel, book, call, p, outage, alive>>

Exit ==
  /\ alive /\ pc[Exiter] = "exit"
  /\ alive' = FALSE
  /\ UNCHANGED <<catalog, config, kernel, book, call, p, outage, cancelled, pc>>

\* The process dies at any point: a panic, the OOM killer, log.Fatalf.
Crash ==
  /\ alive
  /\ alive' = FALSE
  /\ UNCHANGED <<catalog, config, kernel, book, call, p, outage, cancelled, pc>>

\* systemd ends what is left of the unit's processes and starts it again, in
\* the same network namespace.
Respawn ==
  /\ ~alive
  /\ alive' = TRUE /\ cancelled' = FALSE
  /\ catalog' = "none"
  /\ phase' = [d \in Daemons |-> "none"] /\ at' = [d \in Daemons |-> Down]
  /\ tun0' = Down
  /\ server' = Down /\ active' = Down
  /\ loc' = Down /\ clean' = TRUE
  /\ pc' = [c \in Callers |-> IF c = Driver THEN "fresh" ELSE "idle"]
  /\ UNCHANGED <<config, wg0, rule, p, outage>>

-----------------------------------------------------------------------------
\* openvpn and the world.

\* The first to connect gets tun0 and the default route, the others a device
\* of their own whose routes exist already.
DaemonConnects(d) ==
  /\ phase[d] = "starting"
  /\ IF tun0 = Down THEN phase' = [phase EXCEPT ![d] = "up"] /\ tun0' = d
                    ELSE phase' = [phase EXCEPT ![d] = "spare"] /\ UNCHANGED tun0
  /\ UNCHANGED <<catalog, config, at, wg0, rule, book, call, world, pc>>

DaemonGoes(d) ==
  /\ phase[d] = "dying" \/ (outage /\ phase[d] # "none")
  /\ phase' = [phase EXCEPT ![d] = "none"]
  /\ at' = [at EXCEPT ![d] = Down]
  /\ tun0' = IF tun0 = d THEN Down ELSE tun0
  /\ UNCHANGED <<catalog, config, wg0, rule, book, call, world, pc>>

\* Surfshark's list is fetched again when it is an hour old.
CatalogExpires ==
  /\ alive /\ p.catalog = "api" /\ catalog = "loaded" /\ pc[Driver] \in Rest
  /\ catalog' = "none"
  /\ UNCHANGED <<config, kernel, book, call, world, pc>>

OutageEnds ==
  /\ outage
  /\ outage' = FALSE
  /\ UNCHANGED <<catalog, config, kernel, book, call, p, cancelled, alive, pc>>

-----------------------------------------------------------------------------
ConnectStep ==
  \/ CatalogLoaded \/ CatalogMissing \/ TransportMissing \/ WriteConfig
  \/ SetupNestedRouting \/ StartDaemon \/ PollSucceeds \/ PollRunsOut
  \/ KillDaemons \/ CleanupStaleWireGuard \/ WgQuickUp \/ MarkServer
  \/ MarkLocation \/ Status

DisconnectStep(c) ==
  TakeDown(c) \/ TeardownNestedRouting(c) \/ ClearServer(c) \/ ClearLocation(c)

Next ==
  \/ \E l \in Locations : BeginConnect(l)
  \/ ConnectStep
  \/ BeginDisconnect
  \/ \E c \in Callers : DisconnectStep(c)
  \/ BeginExit \/ Exit \/ Crash \/ Respawn
  \/ \E d \in Daemons : DaemonConnects(d) \/ DaemonGoes(d)
  \/ CatalogExpires \/ OutageEnds

Spec == Init /\ [][Next]_vars

\* Calls return, told processes go, started ones connect, systemd respawns,
\* and a pod that is not connected tries again (boot loop and watchdog).
Fairness ==
  /\ WF_vars(ConnectStep)
  /\ \A c \in Callers : WF_vars(DisconnectStep(c))
  /\ WF_vars(pc[Driver] # "connected" /\ \E l \in Locations : BeginConnect(l))
  /\ \A d \in Daemons : WF_vars(DaemonConnects(d)) /\ WF_vars(DaemonGoes(d))
  /\ WF_vars(Exit) /\ WF_vars(Respawn)

FairSpec == Spec /\ Fairness

-----------------------------------------------------------------------------
\* The values the variables range over; an openvpn process has a location and
\* tun0 an owner that has connected.
TypeOK ==
  /\ p \in Fleet
  /\ catalog \in {"none", "loaded", "broken"}
  /\ config \in Locations \cup {Down}
  /\ phase \in [Daemons -> Phases]
  /\ at \in [Daemons -> Locations \cup {Down}]
  /\ \A d \in Daemons : phase[d] = "none" <=> at[d] = Down
  /\ tun0 \in {d \in Daemons : phase[d] \in {"up", "dying"}} \cup {Down}
  /\ wg0 \in Locations \cup {Down}
  /\ rule \in BOOLEAN
  /\ server \in Locations \cup {Down} /\ active \in Locations \cup {Down}
  /\ loc \in Locations \cup {Down} /\ clean \in BOOLEAN
  /\ outage \in BOOLEAN /\ cancelled \in BOOLEAN /\ alive \in BOOLEAN
  /\ pc \in [Callers -> Labels]

\* "Connect starts or switches a VPN tunnel" (interface.go:41): when Connect
\* takes its tunnel for up, traffic exits at the location it was asked for.
ConnectReaches ==
  [][pc'[Driver] = "mark" /\ pc[Driver] # "mark" => Session' = loc]_vars

\* The same for a Connect that began with no openvpn about: then the route it
\* finds is its own, whatever earlier calls, crashes and exit paths did.
CleanConnectReaches ==
  [][pc'[Driver] = "mark" /\ pc[Driver] # "mark" /\ clean => Session' = loc]_vars

\* Of the providers that end openvpn themselves, a failed Connect that began
\* with none about leaves none behind that could take tun0 later.  (An exit
\* path beside it may clear the bookkeeping that Status reads.)
FailureLeavesNothing ==
  p.kills /\ clean /\ pc[Exiter] = "idle" /\ pc[Driver] = "failed" => Untold = {}

\* A Disconnect of the driver leaves nothing up, installed or recorded, also
\* when an earlier Connect has failed or an exit path runs beside it.
DisconnectReleases ==
  pc[Driver] = "released" /\ ~cancelled =>
    Untold = {} /\ wg0 = Down /\ ~rule /\ server = Down /\ active = Down

\* After SIGTERM the exit path's Disconnect has the last word: no openvpn that
\* the driver started before, meanwhile or after it survives untold.
SigtermReleases == cancelled /\ pc[Exiter] = "exit" => Untold = {}

\* wg-quick up never meets an interface that an earlier process, crash or
\* failed contract has left behind.
StaleLinkCleared == alive /\ pc[Driver] = "up" /\ ~cancelled => wg0 = Down

\* Nothing that failures, crashes and interrupted calls leave behind keeps a
\* pod disconnected once the outside world works and nobody disconnects it;
\* ProtonVPN remembers a failed load until the process ends.
Reconnects ==
  <>[](/\ ~outage /\ alive /\ pc[Exiter] = "idle"
       /\ pc[Driver] \notin DisconnectLabels /\ p.catalog # "sticky")
    => []<>(pc[Driver] = "connected")
=============================================================================
