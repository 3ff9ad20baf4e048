----------------------------- MODULE DaemonTunnel -----------------------------
(***************************************************************************)
(* The providers that drive a vendor's daemon through its command line:    *)
(* internal/provider/{expressvpn,pia,nordvpn,warp}.  The daemon, its       *)
(* tunnel and its session outlive the process; its command channel may     *)
(* wedge while the tunnel goes on.  Two of the providers restart a wedged  *)
(* daemon, under a throttle; one of them watches it through a monitor.     *)
(*                                                                         *)
(* The callers are those of the locations cache, which stands in front of  *)
(* the provider: main until it has connected, then watchdog and rotations. *)
(* Each runs connectTunnel: session, catalog, Connect.  A command is one   *)
(* step.                                                                   *)
(***************************************************************************)
EXTENDS LocationsCache

CONSTANTS Fleet,        \* the providers a pod may run
          Rotators,     \* the callers that rotate; the others reconnect
          Outages,      \* the daemon and the service may fail
          Words         \* what the text of an error makes, taken for a catalog

\* heals:   the calls that begin with ensureDaemonResponsive;
\* session: LoggedIn asks `status` and takes silence for a yes, asks for the
\*          account and takes silence for a no, or reads a process flag;
\* waits:   Connect polls the daemon, a monitor's values, the egress, or
\*          asks once;
\* catalog: a placeholder until the daemon has loaded it, whatever the command
\*          prints, or a constant;
\* names:   the connect command names the location and fails for one that is
\*          none; PIA's has been set apart, and fails alone;
\* hangs:   the login call can hang alone, and its time-out restarts;
\* anonymous: Disconnect deletes the registration.
Switches == [heals : SUBSET {"enter", "account", "regions", "dial"},
             session : {"status", "account", "flag"},
             waits : {"poll", "monitor", "once", "trace"},
             catalog : {"loading", "daemon", "constant"},
             names : BOOLEAN, hangs : BOOLEAN, anonymous : BOOLEAN]

ExpressVPN == [heals |-> {"enter", "account", "regions", "dial"},
               session |-> "status", waits |-> "poll", catalog |-> "loading",
               names |-> TRUE, hangs |-> TRUE, anonymous |-> FALSE]
PIA        == [heals |-> {"enter", "account", "dial"},
               session |-> "flag", waits |-> "monitor", catalog |-> "daemon",
               names |-> FALSE, hangs |-> FALSE, anonymous |-> FALSE]
NordVPN    == [heals |-> {}, session |-> "account", waits |-> "once",
               catalog |-> "daemon", names |-> TRUE, hangs |-> FALSE,
               anonymous |-> FALSE]
WARP       == [NordVPN EXCEPT !.waits = "trace", !.catalog = "constant",
                              !.names = FALSE, !.anonymous = TRUE]

ASSUME DaemonAssumption ==
  /\ Fleet \subseteq Switches
  /\ \A p \in Fleet : p.waits = "monitor" => p.session = "flag"
  /\ Rotators \subseteq Callers
  /\ Outages \in BOOLEAN
  /\ Words \in Catalogs

\* The catalogs that are lists of regions.
Regional == Catalogs \ {Words}

VARIABLES
  provider,  \* the provider of this pod
  daemon,    \* its command channel
  link,      \* its tunnel, as `connectionstate` would have it
  account,   \* it has a session, or a registration
  protocol,  \* its transport is the wanted one
  at,        \* per caller: its next step and the provider call this belongs to
  recent,    \* lastDaemonRecovery is younger than the throttle
  holders,   \* callers whose reading of lastDaemonRecovery is still its value
  loggedIn,  \* PIA's flag
  cooldown,  \* PIA's rateLimitedUntil is ahead
  stream,    \* PIA's monitor subprocess: "off", "live" or "dead"
  shown,     \* the monitor's last value is Connected, with an IP
  fallback,  \* the monitor is given up: fallbackActive
  saw,       \* callers whose poll has seen Connected: sawConnected
  witnessed, \* history: the tunnel was up during the caller's Connect
  overtaken, \* history: somebody restarted the daemon since it failed them
  outage

outside  == <<daemon, link, account, protocol>>
throttle == <<recent, holders, overtaken>>
monitor  == <<stream, shown, fallback>>
process  == <<loggedIn, cooldown>>
polls    == <<saw, witnessed>>
world    == <<provider, outage>>
dvars    == <<vars, outside, at, throttle, process, monitor, polls, world>>

Logins == {"enter", "account"}

Idle == <<"idle", "none">>
Again == <<"start", "none">>

\* Where a caller can be.
Recovery == {"throttle", "swap", "restart", "await"}
Guarded == Logins \cup {"regions", "dial"}
Positions ==
  {Idle, Again, <<"list", "none">>, <<"listed", "regions">>}
  \cup ({"start", "setprotocol", "check", "signin"} \X Logins)
  \cup (({"probe"} \cup Recovery) \X Guarded)
  \cup (Recovery \X {"reenter", "abandon"})
  \cup ({"act"} \X (Guarded \cup {"drop", "rotate"}))
  \cup ({"poll", "ip", "won"} \X {"dial"})

At(c, step, calls) == at[c][1] = step /\ at[c][2] \in calls
Move(c, to) == at' = [at EXCEPT ![c] = to]
Keep(c, step) == Move(c, <<step, at[c][2]>>)

\* `status`, `connect` and the like are answered; a command to a wedged daemon
\* ends in the CLI's own time-out.
Answers == daemon \in {"up", "loading", "partial"}

Monitored == provider.waits = "monitor"

\* An attempt is over without a tunnel.  A rotation has more of them.
GiveUp(c) ==
  \/ Move(c, Idle)
  \/ c \in Rotators /\ Move(c, Again)

\* A provider call begins with ensureDaemonResponsive, or with itself.
Begin(call) == <<IF call \in provider.heals THEN "probe" ELSE "act", call>>

\* Mutant: back into the call that has hung.
ResumeHeedless(c) == Keep(c, "act")

\* Where recovery returns to.  The one that follows a hung login has lost the
\* login already.
Resume(c) ==
  CASE at[c][2] = "reenter" -> Move(c, <<"start", "enter">>)
    [] at[c][2] = "abandon" -> GiveUp(c)
    [] OTHER -> Keep(c, "act")

\* The daemon is left as it is.
GoOn(c) == Resume(c) /\ overtaken' = overtaken \ {c}

\* The boot login is repeated until it succeeds; any other one is
\* ensureLoggedIn's and ends the attempt if it fails.
LoginFails(c) ==
  IF at[c][2] = "enter" THEN Move(c, <<"start", "enter">>) ELSE GiveUp(c)
LoginSucceeds(c) == Move(c, IF at[c][2] = "enter" THEN Idle ELSE <<"list", "none">>)

DaemonInit ==
  /\ Init
  /\ provider \in Fleet
  /\ daemon \in {"up", "starting", "wedged"}
  /\ link \in IF daemon = "starting" THEN {"down"} ELSE {"down", "up"}
  /\ account \in BOOLEAN
  /\ protocol \in IF Monitored THEN BOOLEAN ELSE {TRUE}
  /\ at = [c \in Everyone |-> IF c = Boot THEN <<"start", "enter">> ELSE Idle]
  /\ recent = FALSE /\ holders = {} /\ overtaken = {}
  /\ loggedIn = FALSE /\ cooldown = FALSE
  /\ stream = "off" /\ shown = FALSE /\ fallback = FALSE
  /\ saw = {} /\ witnessed = {}
  /\ outage = Outages

-----------------------------------------------------------------------------
\* ensureDaemonResponsive and recoverDaemon.

Probe(c) ==
  /\ at[c][1] = "probe"
  /\ IF Answers THEN Resume(c)
     ELSE Keep(c, "throttle")
  /\ UNCHANGED <<vars, outside, throttle, process, monitor, polls, world>>

\* lastDaemonRecovery is read: too young, and the caller goes on as it is.
Throttle(c) ==
  /\ at[c][1] = "throttle"
  /\ IF recent THEN GoOn(c) /\ UNCHANGED holders
     ELSE Keep(c, "swap") /\ holders' = holders \cup {c} /\ UNCHANGED overtaken
  /\ UNCHANGED <<vars, outside, recent, process, monitor, polls, world>>

\* Mutant: a Store in place of the CompareAndSwap.
SwapBlindly(c) ==
  /\ at[c][1] = "swap"
  /\ Keep(c, "restart") /\ recent' = TRUE /\ holders' = {}
  /\ UNCHANGED <<vars, outside, overtaken, process, monitor, polls, world>>

\* The compare-and-swap; who loses it leaves the recovery to the winner.
Swap(c) ==
  /\ at[c][1] = "swap"
  /\ IF c \in holders
       THEN /\ Keep(c, "restart")
            /\ recent' = TRUE /\ holders' = {} /\ UNCHANGED overtaken
       ELSE GoOn(c) /\ UNCHANGED <<recent, holders>>
  /\ UNCHANGED <<vars, outside, process, monitor, polls, world>>

\* systemctl restart.  The session is on disk and survives; the tunnel and the
\* monitor's subprocess do not.
Restart(c) ==
  /\ at[c][1] = "restart"
  /\ Keep(c, "await")
  /\ daemon' = "starting" /\ link' = "down"
  /\ stream' = IF stream = "live" THEN "dead" ELSE stream
  /\ overtaken' = (overtaken \ {c}) \cup
       {d \in Everyone \ {c} : at[d][1] \in {"throttle", "swap", "restart"}}
  /\ UNCHANGED <<vars, account, protocol, recent, holders, process, shown, fallback,
                 polls, world>>

RestartFails(c) ==
  /\ outage /\ at[c][1] = "restart"
  /\ GoOn(c)
  /\ UNCHANGED <<vars, outside, recent, holders, process, monitor, polls, world>>

\* The wait for the daemon ends when it answers, or after 15 polls.
AwaitEnds(c) ==
  /\ at[c][1] = "await"
  /\ Resume(c)
  /\ UNCHANGED <<vars, outside, throttle, process, monitor, polls, world>>

\* The throttle outlasts a restart (the container stops a unit within 10 s),
\* the daemon's start, and what the callers it overtook have left to do
\* between their failed probe and the reading of the throttle.
ThrottlePasses ==
  /\ recent /\ recent' = FALSE
  /\ daemon # "starting" /\ overtaken = {}
  /\ \A c \in Everyone : at[c][1] # "restart"
  /\ UNCHANGED <<vars, outside, at, holders, overtaken, process, monitor, polls, world>>

-----------------------------------------------------------------------------
\* Login.

\* PIA does not even ask its daemon while its API has it on a cool-down.
LoginStarts(c) ==
  /\ At(c, "start", Logins)
  /\ IF cooldown THEN LoginFails(c) ELSE Move(c, Begin(at[c][2]))
  /\ UNCHANGED <<vars, outside, throttle, process, monitor, polls, world>>

LoggedIn ==
  CASE provider.session = "status" -> account \/ ~Answers
    [] provider.session = "account" -> account /\ Answers
    [] OTHER -> loggedIn

\* Mutant: the state is not looked at.
EnsureProtocolLive(c) ==
  /\ Monitored /\ At(c, "act", Logins)
  /\ Keep(c, IF protocol THEN "check" ELSE "setprotocol")
  /\ UNCHANGED <<vars, outside, throttle, process, monitor, polls, world>>

\* ensureProtocol reads protocol and state; it sets the transport of a
\* disconnected daemon only.
EnsureProtocol(c) ==
  /\ Monitored /\ At(c, "act", Logins)
  /\ Keep(c, IF protocol \/ ~Answers \/ link # "down" THEN "check" ELSE "setprotocol")
  /\ UNCHANGED <<vars, outside, throttle, process, monitor, polls, world>>

\* On any other state the command wedges the daemon.
SetProtocol(c) ==
  /\ at[c][1] = "setprotocol"
  /\ Keep(c, "check")
  /\ protocol' = (protocol \/ (Answers /\ link = "down"))
  /\ daemon' = IF Answers /\ link # "down" THEN "wedged" ELSE daemon
  /\ UNCHANGED <<vars, link, account, throttle, process, monitor, polls, world>>

CheckAccount(c) ==
  /\ At(c, IF Monitored THEN "check" ELSE "act", Logins)
  /\ IF LoggedIn THEN LoginSucceeds(c) ELSE Keep(c, "signin")
  /\ UNCHANGED <<vars, outside, throttle, process, monitor, polls, world>>

\* The login succeeds; PIA sets its flag and starts its monitor, once.
SignIn(c) ==
  /\ at[c][1] = "signin" /\ daemon \in {"up", "loading"}
  /\ LoginSucceeds(c)
  /\ account' = TRUE
  /\ loggedIn' = (loggedIn \/ provider.session = "flag")
  /\ stream' = IF Monitored /\ stream = "off" THEN "live" ELSE stream
  /\ UNCHANGED <<vars, daemon, link, protocol, throttle, cooldown, shown, fallback,
                 polls, world>>

\* The service refuses; PIA remembers a rate limit.
SignInRefused(c) ==
  /\ outage /\ at[c][1] = "signin" /\ Answers
  /\ LoginFails(c)
  /\ cooldown' \in {cooldown, Monitored}
  /\ UNCHANGED <<vars, outside, throttle, loggedIn, monitor, polls, world>>

\* Mutant: a login that times out is an error like any other.
SignInHangsUnhealed(c) ==
  /\ at[c][1] = "signin" /\ daemon \notin {"up", "loading"}
  /\ LoginFails(c)
  /\ UNCHANGED <<vars, outside, throttle, process, monitor, polls, world>>

\* The login times out.  ExpressVPN takes this for a wedge that its probe
\* cannot see, restarts the daemon, and fails the login all the same.
SignInHangs(c) ==
  /\ at[c][1] = "signin" /\ daemon \notin {"up", "loading"}
  /\ IF provider.hangs
       THEN Move(c, <<"throttle", IF at[c][2] = "enter" THEN "reenter" ELSE "abandon">>)
       ELSE LoginFails(c)
  /\ UNCHANGED <<vars, outside, throttle, process, monitor, polls, world>>

CooldownEnds ==
  /\ cooldown /\ cooldown' = FALSE
  /\ UNCHANGED <<vars, outside, at, throttle, loggedIn, monitor, polls, world>>

-----------------------------------------------------------------------------
\* connectTunnel: the session, the catalog, Connect.

\* ensureLoggedIn, whose throttle (Relogin.tla) may also turn the caller away.
CheckSession(c) ==
  /\ at[c] \in {Again} \cup (IF c \in Rotators THEN {} ELSE {Idle})
  /\ booted <=> c # Boot
  /\ Move(c, IF LoggedIn THEN <<"list", "none">> ELSE <<"start", "account">>)
  /\ UNCHANGED <<vars, outside, throttle, process, monitor, polls, world>>

\* The cache answers, or Locations is called.
List(c) ==
  /\ at[c][1] = "list"
  /\ ReadCache(c)
  /\ Move(c, IF pc'[c] = "returned" THEN <<"listed", "regions">> ELSE Begin("regions"))
  /\ UNCHANGED <<outside, throttle, process, monitor, polls, world>>

\* Mutant: the error of the command is not looked at.
UnguardedCatalog == IF daemon \in {"up", "partial"} THEN Regional ELSE {Words}

\* ExpressVPN's Locations, at the end of its retries: neither the placeholder
\* nor the text of an error is a catalog.
LoadedCatalog == IF daemon \in {"up", "partial"} THEN Regional ELSE {Empty}

\* PIA's and NordVPN's: what the command prints, and a CLI whose daemon is
\* silent prints that it has timed out.
PrintedCatalog == IF Answers THEN Regional ELSE {Words}

Offer ==
  CASE provider.catalog = "constant" -> Regional
    [] provider.catalog = "loading"  -> LoadedCatalog
    [] OTHER                         -> PrintedCatalog

Regions(c) ==
  /\ At(c, "act", {"regions"})
  /\ \E a \in Offer : Fetch(c, a)
  /\ Keep(c, "listed")
  /\ UNCHANGED <<outside, throttle, process, monitor, polls, world>>

StoreRegions(c) ==
  /\ at[c][1] = "listed"
  /\ Store(c)
  /\ UNCHANGED <<outside, at, throttle, process, monitor, polls, world>>

\* The catalog has words that the connect command will refuse.
Misleads(c) == provider.names /\ got[c] = Words

\* "0 available" ends the attempt.  (A rotation that has failed on all there
\* are, as it soon has on the words of an error, ends one attempt later than
\* GiveUp may end it.)
PickLocation(c) ==
  /\ at[c][1] = "listed" /\ ~Misleads(c)
  /\ Pick(c)
  /\ IF got[c] = Empty THEN GiveUp(c) ELSE Move(c, Begin("dial"))
  /\ UNCHANGED <<outside, throttle, process, monitor, polls, world>>

\* Connect with a word: its command does nothing, and the status is asked.
PickWord(c) ==
  /\ at[c][1] = "listed" /\ Misleads(c)
  /\ Pick(c)
  /\ Move(c, <<"poll", "dial">>)
  /\ witnessed' = IF link = "up" THEN witnessed \cup {c} ELSE witnessed
  /\ UNCHANGED <<outside, throttle, process, monitor, saw, world>>

Lose(c) ==
  /\ UNCHANGED booted /\ Finish(c)
  /\ GiveUp(c)
  /\ saw' = saw \ {c} /\ witnessed' = witnessed \ {c}

\* WARP registers by itself when it finds no registration, or gives up.
Register(c) ==
  /\ provider.anonymous /\ At(c, "act", {"dial"}) /\ ~LoggedIn
  /\ \/ /\ Answers
        /\ account' = TRUE
        /\ UNCHANGED <<at, vars, polls>>
     \/ /\ outage \/ ~Answers
        /\ Lose(c) /\ UNCHANGED account
  /\ UNCHANGED <<daemon, link, protocol, throttle, process, monitor, world>>

\* The connect command.  A daemon that is connected may stay so for a while;
\* one without a session, or without an answer, does nothing.
Dial(c) ==
  /\ At(c, "act", {"dial"}) /\ (provider.anonymous => LoggedIn)
  /\ link' \in IF ~Answers \/ ~account THEN {link}
               ELSE IF link = "up" THEN {"up", "connecting"} ELSE {"connecting"}
  /\ Keep(c, "poll")
  /\ witnessed' = IF link' = "up" /\ ~Monitored THEN witnessed \cup {c} ELSE witnessed
  /\ UNCHANGED <<vars, daemon, account, protocol, throttle, process, monitor, saw, world>>

Win(c) == Move(c, <<"won", "dial">>) /\ saw' = saw \ {c} /\ UNCHANGED <<vars, witnessed>>

\* Connected?, asked of the daemon: ExpressVPN, and PIA once its monitor is
\* given up ...
PollState(c) ==
  /\ provider.waits = "poll" \/ (Monitored /\ fallback)
  /\ at[c][1] = "poll" /\ Answers /\ link = "up"
  /\ Keep(c, "ip")
  /\ saw' = IF Monitored THEN saw ELSE saw \cup {c}
  /\ UNCHANGED <<vars, outside, throttle, process, monitor, witnessed, world>>

\* ... and then the IP: without one the poll goes on.
PollIP(c) ==
  /\ at[c][1] = "ip"
  /\ IF Answers /\ link = "up" THEN Win(c) ELSE Keep(c, "poll") /\ UNCHANGED <<vars, polls>>
  /\ UNCHANGED <<outside, throttle, process, monitor, world>>

\* PIA reads the monitor's values.
PollMonitor(c) ==
  /\ Monitored /\ ~fallback
  /\ at[c][1] = "poll" /\ shown
  /\ Win(c)
  /\ UNCHANGED <<outside, throttle, process, monitor, world>>

\* WARP asks the other end whether traffic comes through the tunnel.
PollTrace(c) ==
  /\ provider.waits = "trace"
  /\ at[c][1] = "poll" /\ link = "up"
  /\ Win(c)
  /\ UNCHANGED <<outside, throttle, process, monitor, world>>

\* NordVPN's command returns when the daemon is done, and is asked once.
AskOnce(c) ==
  /\ provider.waits = "once"
  /\ at[c][1] = "poll" /\ (Answers => link # "connecting")
  /\ IF Answers /\ link = "up" THEN Win(c) ELSE Lose(c)
  /\ UNCHANGED <<outside, throttle, process, monitor, world>>

\* Mutant: at the deadline the daemon is trusted to have connected.
DeadlineTrusting(c) ==
  /\ provider.waits # "once" /\ at[c][1] = "poll"
  /\ Win(c)
  /\ UNCHANGED <<outside, throttle, process, monitor, world>>

\* The poll runs out: ExpressVPN trusts a Connected it has seen, PIA takes one
\* more Status.
LastWord(c) ==
  CASE provider.waits = "poll" -> c \in saw
    [] Monitored -> IF fallback THEN Answers /\ link = "up" ELSE shown
    [] OTHER -> FALSE

Deadline(c) ==
  /\ provider.waits # "once" /\ at[c][1] = "poll"
  /\ IF LastWord(c) THEN Win(c) ELSE Lose(c)
  /\ UNCHANGED <<outside, throttle, process, monitor, world>>

\* The exit-IP contract holds and the tunnel is recorded; main has booted.
Settle(c) ==
  /\ at[c][1] = "won"
  /\ Move(c, Idle)
  /\ booted' = TRUE /\ Finish(c)
  /\ witnessed' = witnessed \ {c}
  /\ UNCHANGED <<outside, throttle, process, monitor, saw, world>>

\* It does not hold: the tunnel is dropped again.
Leak(c) ==
  /\ at[c][1] = "won"
  /\ Move(c, <<"act", "drop">>)
  /\ UNCHANGED booted /\ Finish(c)
  /\ witnessed' = witnessed \ {c}
  /\ UNCHANGED <<outside, throttle, process, monitor, saw, world>>

\* A rotation takes the tunnel down and connects.
Rotate(c) ==
  /\ booted /\ c \in Rotators /\ at[c] = Idle
  /\ Move(c, <<"act", "rotate">>)
  /\ UNCHANGED <<vars, outside, throttle, process, monitor, polls, world>>

\* Disconnect.  PIA's waits for what it is shown, but not for ever.
Drop(c) ==
  /\ At(c, "act", {"drop", "rotate"})
  /\ IF at[c][2] = "drop" THEN GiveUp(c) ELSE Move(c, Again)
  /\ link' = IF Answers THEN "down" ELSE link
  /\ account' = (account /\ ~(provider.anonymous /\ Answers))
  /\ UNCHANGED <<vars, daemon, protocol, throttle, process, monitor, polls, world>>

-----------------------------------------------------------------------------
\* PIA's monitor.

\* A subprocess prints the value at its start and every change; a daemon that
\* does not answer leaves it silent, and its last value in place.
Deliver ==
  /\ stream = "live" /\ Answers
  /\ shown' = (link = "up") /\ shown' # shown
  /\ UNCHANGED <<vars, outside, at, throttle, process, stream, fallback, polls, world>>

StreamEnds ==
  /\ outage /\ stream = "live"
  /\ stream' = "dead"
  /\ UNCHANGED <<vars, outside, at, throttle, process, shown, fallback, polls, world>>

\* A respawn that delivers a value ...
Respawn ==
  /\ stream = "dead" /\ Answers /\ ~fallback
  /\ stream' = "live" /\ shown' = (link = "up")
  /\ UNCHANGED <<vars, outside, at, throttle, process, fallback, polls, world>>

\* ... or is the last of enough that die without one within the window: the
\* monitor is given up for good.  (What is respawned after that is not read.)
MonitorGivenUp ==
  /\ stream = "dead" /\ ~Answers /\ ~fallback
  /\ fallback' = TRUE /\ shown' = FALSE
  /\ UNCHANGED <<vars, outside, at, throttle, process, stream, polls, world>>

-----------------------------------------------------------------------------
\* The daemon.

\* Its command channel wedges, wholly or, for ExpressVPN, for logins.
Wedge ==
  /\ outage /\ Answers
  /\ daemon' \in {"wedged"} \cup (IF provider.hangs THEN {"partial"} ELSE {})
  /\ UNCHANGED <<vars, link, account, protocol, at, throttle, process, monitor, polls, world>>

\* It comes up; ExpressVPN's offers a placeholder until its catalog is loaded.
DaemonStarts ==
  /\ daemon = "starting"
  /\ daemon' = IF provider.catalog = "loading" THEN "loading" ELSE "up"
  /\ UNCHANGED <<vars, link, account, protocol, at, throttle, process, monitor, polls, world>>

CatalogLoads ==
  /\ daemon = "loading" /\ daemon' = "up"
  /\ UNCHANGED <<vars, link, account, protocol, at, throttle, process, monitor, polls, world>>

SessionLost ==
  /\ outage /\ account /\ account' = FALSE
  /\ UNCHANGED <<vars, daemon, link, protocol, at, throttle, process, monitor, polls, world>>

\* The tunnel comes up whether or not the command channel answers.
LinkUp ==
  /\ link = "connecting" /\ daemon # "starting"
  /\ link' = "up"
  /\ witnessed' = witnessed \cup
       {c \in Everyone : ~Monitored /\ at[c][1] \in {"poll", "ip"}}
  /\ UNCHANGED <<vars, daemon, account, protocol, at, throttle, process, monitor, saw, world>>

LinkLost ==
  /\ outage /\ link # "down"
  /\ link' \in {"connecting", "down"} \ {link}
  /\ UNCHANGED <<vars, daemon, account, protocol, at, throttle, process, monitor, polls, world>>

OutageEnds ==
  /\ outage /\ outage' = FALSE
  /\ UNCHANGED <<vars, outside, at, throttle, process, monitor, polls, provider>>

CatalogExpires ==
  /\ Expire
  /\ UNCHANGED <<outside, at, throttle, process, monitor, polls, world>>

Recover(c) == \/ Probe(c) \/ Throttle(c) \/ Swap(c) \/ Restart(c) \/ RestartFails(c)
              \/ AwaitEnds(c)

Login(c) == \/ LoginStarts(c) \/ EnsureProtocol(c) \/ SetProtocol(c) \/ CheckAccount(c)
            \/ SignIn(c) \/ SignInRefused(c) \/ SignInHangs(c)

Connect(c) == \/ List(c) \/ Regions(c) \/ StoreRegions(c) \/ PickLocation(c)
              \/ PickWord(c) \/ Register(c) \/ Dial(c) \/ PollState(c) \/ PollIP(c)
              \/ PollMonitor(c) \/ PollTrace(c) \/ AskOnce(c) \/ Deadline(c)
              \/ Settle(c) \/ Leak(c) \/ Drop(c)

Work(c) == Recover(c) \/ Login(c) \/ Connect(c)

Environment ==
  \/ Deliver \/ StreamEnds \/ Respawn \/ MonitorGivenUp
  \/ Wedge \/ DaemonStarts \/ CatalogLoads \/ SessionLost \/ LinkUp \/ LinkLost
  \/ OutageEnds \/ CatalogExpires \/ ThrottlePasses \/ CooldownEnds

DaemonNext ==
  \/ \E c \in Everyone : Work(c) \/ CheckSession(c) \/ Rotate(c)
  \/ Environment

DaemonSpec == DaemonInit /\ [][DaemonNext]_dvars

\* Calls have time-outs; boot loop, watchdog and rotations try again as long as
\* there is no tunnel; a restarted daemon comes up; time passes.
Retry(c) == (at[c] = Idle => link # "up") /\ CheckSession(c)

DaemonFairness ==
  /\ \A c \in Everyone : WF_dvars(Work(c)) /\ WF_dvars(Retry(c))
  /\ WF_dvars(DaemonStarts) /\ WF_dvars(CatalogLoads)
  /\ WF_dvars(CooldownEnds) /\ WF_dvars(ThrottlePasses)

FairDaemonSpec == DaemonSpec /\ DaemonFairness

-----------------------------------------------------------------------------
\* The values the variables range over, a caller's step and call together.
DaemonTypeOK ==
  /\ TypeOK
  /\ provider \in Fleet
  /\ daemon \in {"up", "loading", "partial", "wedged", "starting"}
  /\ link \in {"down", "connecting", "up"}
  /\ account \in BOOLEAN /\ protocol \in BOOLEAN
  /\ at \in [Everyone -> Positions]
  /\ recent \in BOOLEAN
  /\ holders \subseteq Everyone
  /\ loggedIn \in BOOLEAN /\ cooldown \in BOOLEAN
  /\ stream \in {"off", "live", "dead"} /\ shown \in BOOLEAN
  /\ fallback \in BOOLEAN
  /\ saw \subseteq Everyone /\ witnessed \subseteq Everyone /\ overtaken \subseteq Everyone
  /\ outage \in BOOLEAN

\* Nobody restarts a daemon that somebody else has restarted since it failed
\* to answer them (expressvpn.go:103-114, pia.go:48-61): the restart would end
\* the tunnel the other's attempt has just brought up.
RecoveryNotOvertaken ==
  \A c \in Everyone : at[c][1] = "restart" => c \notin overtaken

\* The transport is set on a disconnected daemon only (pia.go:117-124): on any
\* other the command wedges it.  The state is read one command earlier.
ProtocolSetWhenIdle ==
  \A c \in Everyone : at[c][1] = "setprotocol" => link = "down"

\* A Connect that reports a tunnel was during its call over one: the trust in a
\* Connected seen earlier (expressvpn.go:173-185) does not report a tunnel that
\* never was.  Not so for a monitor's values, which may be of an earlier one.
SuccessWitnessed ==
  ~Monitored => \A c \in Everyone : at[c][1] = "won" => c \in witnessed

\* The daemon is wedged, or deaf to logins, and there is no tunnel; it serves
\* again, or there is one.
Wedged == daemon = "wedged" /\ link # "up" /\ "dial" \in provider.heals
Healthy == daemon \in {"up", "loading"} \/ link = "up"
DeafToLogin == daemon = "partial" /\ link # "up" /\ ~account

\* A pod without a tunnel does not stay behind a wedged daemon: somebody's call
\* restarts it (expressvpn.go:252-257, 328-337, pia.go:147-150), however many
\* callers keep each other from it and whatever the cache holds.
WedgeHealed == (~outage /\ (Wedged \/ DeafToLogin)) ~> Healthy

\* A daemon that goes silent costs the pod no catalog (locations_cache.go:34-37):
\* where a provider tells an error from an answer, nothing but regions replaces
\* the regions in the cache, whoever refreshes it and whenever the daemon wedges.
GoodCatalogKept ==
  [][provider.catalog # "daemon" => ((cached \in Regional) => (cached' \in Regional))]_dvars

\* The same of all providers.
WedgeKeepsCatalog == [][(cached \in Regional) => (cached' \in Regional)]_dvars
=============================================================================
