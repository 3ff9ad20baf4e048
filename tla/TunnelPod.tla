------------------------------ MODULE TunnelPod ------------------------------
(***************************************************************************)
(* The lifecycle of one tundler-tunnel process (cmd/tundler-tunnel): the   *)
(* state tracker, the provider session it drives, and every goroutine that *)
(* drives it - main's boot and hold, the watchdog, the rotator timer, the  *)
(* goroutines of POST /rotate, the wedge guard and the recycler.           *)
(*                                                                         *)
(* A goroutine is a thread with a program counter.  A label names the next *)
(* call the thread makes that another thread can observe: a write of the   *)
(* tracker, a call of the provider, a lock.  Nothing in the code makes two *)
(* of those calls one atomic step, so neither does the model.              *)
(***************************************************************************)
EXTENDS Naturals, FiniteSets

CONSTANTS Main,         \* the main goroutine
          Timers,       \* runRotator: empty when periodic rotation is disabled
          Http,         \* goroutines that POST /rotate may start
          Watchdogs,    \* runWatchdog
          Guards,       \* runWedgeGuard
          Recyclers,    \* runRecycler: empty when RECYCLE_AFTER_SECONDS = 0
          Locations,    \* the provider's catalog
          Excluded,     \* EXCLUDED_LOCATIONS
          Down,         \* "no location": no session, no exit IP, no header
          MaxAttempts,  \* ROTATION_RETRY_MAX
          RecycleLimit, \* RECYCLE_AFTER_ROTATIONS, 0 = off
          BaselineKnown,\* the pre-VPN egress probe of main succeeded
          Outages       \* the provider may fail

Rotators   == Timers \cup Http
Spawned    == Timers \cup Watchdogs \cup Guards \cup Recyclers
Connectors == {Main} \cup Rotators \cup Watchdogs
Exiters    == {Main} \cup Timers \cup Guards \cup Recyclers
Threads    == {Main} \cup Http \cup Spawned

ASSUME ThreadAssumption ==
  /\ Main \notin Http \cup Spawned
  /\ Timers \cap (Http \cup Watchdogs \cup Guards \cup Recyclers) = {}
  /\ Http \cap (Watchdogs \cup Guards \cup Recyclers) = {}
  /\ Watchdogs \cap (Guards \cup Recyclers) = {}
  /\ Guards \cap Recyclers = {}

ASSUME ParameterAssumption ==
  /\ Down \notin Locations \cup Excluded
  /\ IsFiniteSet(Locations)
  /\ MaxAttempts \in Nat
  /\ RecycleLimit \in Nat
  /\ BaselineKnown \in BOOLEAN
  /\ Outages \in BOOLEAN

State == {"Booting", "LoggingIn", "Connecting", "Ready", "Draining",
          "Rotating", "Failed"}

\* The states in which the watchdog and the rotator feel free to act.
Settled == {"Ready", "Failed"}

VARIABLES
  state,           \* StateTracker.state
  exitIP,          \* StateTracker.currentExitIP, named by its location, or Down
  rotationRecent,  \* last_rotation completed less than minTimeBetweenRotations ago
  rotationCount,   \* StateTracker.rotationCountTotal, capped at RecycleLimit
  headerIP,        \* proxy.Server.exitIP: the x-tundler-exit-ip header, or none
  session,         \* the location the provider's tunnel is up at, or Down
  auth,            \* the provider's daemon is logged in
  reloginRecent,   \* lastReloginUnix is less than reloginThrottleSec ago
  outage,          \* the provider may fail from now on
  cancelled,       \* the signal context is done
  shutdownDone,    \* package variable of shutdown.go
  alive,           \* the process exists
  scheduled,       \* runRotator's scheduledRotations, capped at RecycleLimit
  loc,             \* per thread: the location it is connecting to, and once that
                   \* has passed, the exit IP it found
  failed,          \* per thread: connectWithRetry's recentlyFailed
  attempt,         \* per thread: connectWithRetry's attempt
  pc

tracker  == <<state, exitIP, rotationRecent, rotationCount>>
provider == <<session, auth, outage>>
process  == <<cancelled, shutdownDone, alive>>
locals   == <<loc, failed, attempt>>
vars     == <<tracker, headerIP, provider, reloginRecent, process, scheduled,
              locals, pc>>

BootLabels    == {"boot", "login", "loginwait"}
ConnectLabels == {"start", "auth", "relogin", "connect", "verify", "leak",
                  "record", "announce", "ready", "next"}
RotateLabels  == {"check", "drain", "rotating", "teardown", "log", "giveup",
                  "surrender"}
ExitLabels    == {"release", "disconnect", "exit"}
Labels        == BootLabels \cup ConnectLabels \cup RotateLabels \cup ExitLabels
                   \cup {"unborn", "idle", "spawn", "hold", "recycle"}

\* The labels of main before it has published Ready for the first time.
Booting == BootLabels \cup ConnectLabels

\* The labels at which a thread still has a settled state to publish, or is
\* on its way out of the process.
Driving == BootLabels \cup ConnectLabels \cup ExitLabels
             \cup {"rotating", "teardown", "giveup", "surrender"}

Goto(t, l) == pc' = [pc EXCEPT ![t] = l]

\* A provider call fails in an outage, and when its context is done.
MayFail == outage \/ cancelled

-----------------------------------------------------------------------------
\* A process starts from scratch; what the provider holds is not its own.

BootPc == [t \in Threads |-> IF t = Main THEN "boot"
                             ELSE IF t \in Http THEN "idle" ELSE "unborn"]

Init ==
  /\ state = "Booting" /\ exitIP = Down /\ headerIP = Down
  /\ rotationRecent = FALSE /\ rotationCount = 0 /\ scheduled = 0
  /\ session = Down /\ auth = FALSE /\ outage = Outages
  /\ reloginRecent = FALSE
  /\ cancelled = FALSE /\ shutdownDone = FALSE /\ alive = TRUE
  /\ loc = [t \in Threads |-> Down]
  /\ failed = [t \in Threads |-> {}]
  /\ attempt = [t \in Threads |-> 0]
  /\ pc = BootPc

\* systemd respawns the process in the same container, or kubelet replaces the
\* container and the provider's daemon with it.
Restart ==
  /\ ~alive
  /\ \/ UNCHANGED <<session, auth>>
     \/ session' = Down /\ auth' = FALSE
  /\ state' = "Booting" /\ exitIP' = Down /\ headerIP' = Down
  /\ rotationRecent' = FALSE /\ rotationCount' = 0 /\ scheduled' = 0
  /\ reloginRecent' = FALSE
  /\ cancelled' = FALSE /\ shutdownDone' = FALSE /\ alive' = TRUE
  /\ loc' = [t \in Threads |-> Down]
  /\ failed' = [t \in Threads |-> {}]
  /\ attempt' = [t \in Threads |-> 0]
  /\ pc' = BootPc
  /\ UNCHANGED outage

-----------------------------------------------------------------------------
\* main: the boot login.

BootLogin ==
  /\ alive
  /\ pc[Main] \in {"boot", "loginwait"}
  /\ state' = "LoggingIn"
  /\ Goto(Main, "login")
  /\ UNCHANGED <<exitIP, rotationRecent, rotationCount, headerIP, provider,
                 reloginRecent, process, scheduled, locals>>

LoginSucceeds ==
  /\ alive /\ pc[Main] = "login"
  /\ auth' = TRUE
  /\ Goto(Main, "start")
  /\ UNCHANGED <<tracker, headerIP, session, outage, reloginRecent, process,
                 scheduled, locals>>

LoginFails ==
  /\ alive /\ pc[Main] = "login" /\ MayFail
  /\ Goto(Main, IF cancelled THEN "release" ELSE "loginwait")
  /\ UNCHANGED <<tracker, headerIP, provider, reloginRecent, process,
                 scheduled, locals>>

\* The retry loops of login and connect leave their back-off when ctx is done.
BootCancelled ==
  /\ alive /\ cancelled
  /\ pc[Main] \in {"loginwait", "next"}
  /\ Goto(Main, "release")
  /\ UNCHANGED <<tracker, headerIP, provider, reloginRecent, process,
                 scheduled, locals>>

\* main starts its goroutines, then holds the tunnel until ctx is done.
Spawn ==
  /\ alive /\ pc[Main] = "spawn"
  /\ pc' = [t \in Threads |-> IF t = Main THEN "hold"
                              ELSE IF t \in Spawned THEN "idle" ELSE pc[t]]
  /\ UNCHANGED <<tracker, headerIP, provider, reloginRecent, process,
                 scheduled, locals>>

HoldEnds ==
  /\ alive /\ cancelled /\ pc[Main] = "hold"
  /\ Goto(Main, "release")
  /\ UNCHANGED <<tracker, headerIP, provider, reloginRecent, process,
                 scheduled, locals>>

-----------------------------------------------------------------------------
\* connectTunnel, and one iteration of connectWithRetry.

BeginConnect(t) ==
  /\ alive /\ pc[t] = "start"
  /\ state' = "Connecting"
  /\ Goto(t, "auth")
  /\ UNCHANGED <<exitIP, rotationRecent, rotationCount, headerIP, provider,
                 reloginRecent, process, scheduled, locals>>

\* ensureLoggedIn: nothing to do, or throttled, or this thread logs in.
EnsureLoggedIn(t) ==
  /\ alive /\ pc[t] = "auth"
  /\ \/ auth /\ Goto(t, "connect") /\ UNCHANGED reloginRecent
     \/ ~auth /\ reloginRecent /\ Goto(t, "next") /\ UNCHANGED reloginRecent
     \/ ~auth /\ ~reloginRecent /\ Goto(t, "relogin") /\ reloginRecent' = TRUE
  /\ UNCHANGED <<tracker, headerIP, provider, process, scheduled, locals>>

Relogin(t) ==
  /\ alive /\ pc[t] = "relogin"
  /\ \/ auth' = TRUE /\ Goto(t, "connect")
     \/ MayFail /\ Goto(t, "next") /\ UNCHANGED auth
  /\ UNCHANGED <<tracker, headerIP, session, outage, reloginRecent, process,
                 scheduled, locals>>

\* Mutant: recentlyFailed is not excluded.
CandidatesForgotten(t) == Locations \ Excluded

Candidates(t) == Locations \ (Excluded \cup failed[t])

\* pickLocation finds nothing: all is excluded, or the catalog came back empty.
\* A rotation gives up at once; connectTunnel returns the error to its caller.
NoLocation(t) ==
  /\ alive /\ pc[t] = "connect"
  /\ MayFail \/ Candidates(t) = {}
  /\ Goto(t, IF t \in Rotators THEN "giveup" ELSE "next")
  /\ UNCHANGED <<tracker, headerIP, provider, reloginRecent, process,
                 scheduled, locals>>

ConnectSucceeds(t) ==
  /\ alive /\ pc[t] = "connect"
  /\ \E l \in Candidates(t) :
       /\ loc' = [loc EXCEPT ![t] = l]
       /\ session' = l
  /\ Goto(t, "verify")
  /\ UNCHANGED <<tracker, headerIP, auth, outage, reloginRecent, process,
                 scheduled, failed, attempt>>

\* Only a rotation remembers the locations that failed it.
Burn(t, l) == IF t \in Rotators THEN [failed EXCEPT ![t] = @ \cup {l}] ELSE failed

\* Mutant: a failed connect is taken for a success.
ConnectFailsUnnoticed(t) ==
  /\ alive /\ pc[t] = "connect" /\ MayFail
  /\ \E l \in Candidates(t) : loc' = [loc EXCEPT ![t] = l]
  /\ session' \in {session, Down}
  /\ Goto(t, "verify")
  /\ UNCHANGED <<tracker, headerIP, auth, outage, reloginRecent, process,
                 scheduled, failed, attempt>>

ConnectFails(t) ==
  /\ alive /\ pc[t] = "connect" /\ MayFail
  /\ \E l \in Candidates(t) : failed' = Burn(t, l)
  /\ session' \in {session, Down}
  /\ Goto(t, "next")
  /\ UNCHANGED <<tracker, headerIP, auth, outage, reloginRecent, process,
                 scheduled, loc, attempt>>

\* verifyExitIPDiffers passes when the addresses differ, when there is no
\* baseline, and when the probe itself fails.  In the last two it has seen no
\* address; if the provider reports none either, there is none to record.
VerifyPasses(t) ==
  /\ alive /\ pc[t] = "verify"
  /\ \/ session # Down /\ UNCHANGED loc
     \/ /\ MayFail \/ ~BaselineKnown
        /\ loc' \in {loc, [loc EXCEPT ![t] = Down]}
  /\ Goto(t, "record")
  /\ UNCHANGED <<tracker, headerIP, provider, reloginRecent, process,
                 scheduled, failed, attempt>>

\* ... and fails on the baseline address: traffic does not use the tunnel.
VerifyLeaks(t) ==
  /\ alive /\ pc[t] = "verify" /\ BaselineKnown
  /\ session = Down \/ outage
  /\ Goto(t, "leak")
  /\ UNCHANGED <<tracker, headerIP, provider, reloginRecent, process,
                 scheduled, locals>>

\* prov.Disconnect: its error is ignored by every caller.
DisconnectOutcome(mayFail) ==
  session' \in (IF mayFail THEN {Down, session} ELSE {Down})

LeakDisconnect(t) ==
  /\ alive /\ pc[t] = "leak"
  /\ DisconnectOutcome(MayFail)
  /\ failed' = Burn(t, loc[t])
  /\ Goto(t, "next")
  /\ UNCHANGED <<tracker, headerIP, auth, outage, reloginRecent, process,
                 scheduled, loc, attempt>>

\* Mutant: RecordTunnelUp publishes Ready, before the listener has run.
RecordTunnelReady(t) ==
  /\ alive /\ pc[t] = "record"
  /\ exitIP' = loc[t]
  /\ state' = "Ready"
  /\ Goto(t, "announce")
  /\ UNCHANGED <<rotationRecent, rotationCount, headerIP, provider,
                 reloginRecent, process, scheduled, locals>>

\* RecordTunnelUp updates the tracker under its lock ...
RecordTunnelUp(t) ==
  /\ alive /\ pc[t] = "record"
  /\ exitIP' = loc[t]
  /\ Goto(t, "announce")
  /\ UNCHANGED <<state, rotationRecent, rotationCount, headerIP, provider,
                 reloginRecent, process, scheduled, locals>>

\* Mutant: an address that nobody could tell leaves the header as it is.
TunnelUpKeepsHeader(t) ==
  /\ alive /\ pc[t] = "announce"
  /\ headerIP' = IF loc[t] = Down THEN headerIP ELSE loc[t]
  /\ Goto(t, "ready")
  /\ UNCHANGED <<tracker, provider, reloginRecent, process, scheduled, locals>>

\* ... and calls the listener, proxySrv.SetExitIP, after it has released it.
\* Without an address the proxy sends no header.
TunnelUpListener(t) ==
  /\ alive /\ pc[t] = "announce"
  /\ headerIP' = loc[t]
  /\ Goto(t, "ready")
  /\ UNCHANGED <<tracker, provider, reloginRecent, process, scheduled, locals>>

PublishReady(t) ==
  /\ alive /\ pc[t] = "ready"
  /\ state' = "Ready"
  /\ Goto(t, CASE t = Main -> "spawn" [] t \in Rotators -> "log"
               [] OTHER -> "idle")
  /\ loc' = [loc EXCEPT ![t] = Down]
  /\ UNCHANGED <<exitIP, rotationRecent, rotationCount, headerIP, provider,
                 reloginRecent, process, scheduled, failed, attempt>>

-----------------------------------------------------------------------------
\* A connect attempt has failed; what follows depends on the caller.

\* connectInitialWithRetry tries again, for ever.
BootRetry ==
  /\ alive /\ pc[Main] = "next" /\ ~cancelled
  /\ Goto(Main, "start")
  /\ loc' = [loc EXCEPT ![Main] = Down]
  /\ UNCHANGED <<tracker, headerIP, provider, reloginRecent, process,
                 scheduled, failed, attempt>>

\* Mutant: the watchdog returns on an error without Set(Failed).
WatchdogFailsSilently(w) ==
  /\ alive /\ w \in Watchdogs /\ pc[w] = "next"
  /\ Goto(w, "idle")
  /\ loc' = [loc EXCEPT ![w] = Down]
  /\ UNCHANGED <<tracker, headerIP, provider, reloginRecent, process,
                 scheduled, failed, attempt>>

WatchdogFails(w) ==
  /\ alive /\ w \in Watchdogs /\ pc[w] = "next"
  /\ state' = "Failed"
  /\ Goto(w, "idle")
  /\ loc' = [loc EXCEPT ![w] = Down]
  /\ UNCHANGED <<exitIP, rotationRecent, rotationCount, headerIP, provider,
                 reloginRecent, process, scheduled, failed, attempt>>

\* Mutant: one attempt too many.
NextAttemptOffByOne(r) ==
  /\ alive /\ r \in Rotators /\ pc[r] = "next"
  /\ IF attempt[r] <= MaxAttempts
       THEN attempt' = [attempt EXCEPT ![r] = @ + 1] /\ Goto(r, "start")
       ELSE Goto(r, "giveup") /\ UNCHANGED attempt
  /\ loc' = [loc EXCEPT ![r] = Down]
  /\ UNCHANGED <<tracker, headerIP, provider, reloginRecent, process,
                 scheduled, failed>>

\* The loop head of connectWithRetry.
NextAttempt(r) ==
  /\ alive /\ r \in Rotators /\ pc[r] = "next"
  /\ IF attempt[r] < MaxAttempts
       THEN attempt' = [attempt EXCEPT ![r] = @ + 1] /\ Goto(r, "start")
       ELSE Goto(r, "giveup") /\ UNCHANGED attempt
  /\ loc' = [loc EXCEPT ![r] = Down]
  /\ UNCHANGED <<tracker, headerIP, provider, reloginRecent, process,
                 scheduled, failed>>

-----------------------------------------------------------------------------
\* The watchdog: its tick finds the pod Failed, or Ready with failing dials.

\* Mutant: the watchdog looks after a Ready pod only.
WatchdogTickReady(w) ==
  /\ alive /\ w \in Watchdogs /\ pc[w] = "idle"
  /\ state = "Ready"
  /\ Goto(w, "start")
  /\ UNCHANGED <<tracker, headerIP, provider, reloginRecent, process,
                 scheduled, locals>>

WatchdogTick(w) ==
  /\ alive /\ w \in Watchdogs /\ pc[w] = "idle"
  /\ state \in Settled
  /\ Goto(w, "start")
  /\ UNCHANGED <<tracker, headerIP, provider, reloginRecent, process,
                 scheduled, locals>>

-----------------------------------------------------------------------------
\* Rotation: runRotator, POST /rotate and rotateIfReadyWithDeps.

\* Every fire counts as a scheduled relocation, also one that is skipped.
TimerFires(r) ==
  /\ alive /\ r \in Timers /\ pc[r] = "idle"
  /\ IF RecycleLimit > 0 /\ scheduled >= RecycleLimit
       THEN Goto(r, "recycle") /\ UNCHANGED scheduled
       ELSE /\ Goto(r, "check")
            /\ scheduled' = IF scheduled < RecycleLimit THEN scheduled + 1
                                                        ELSE scheduled
  /\ UNCHANGED <<tracker, headerIP, provider, reloginRecent, process, locals>>

\* Mutant: rotateHandler does not look at the state.
PostRotateAnyState(h) ==
  /\ alive /\ h \in Http /\ pc[h] = "idle"
  /\ ~rotationRecent
  /\ Goto(h, "drain")
  /\ UNCHANGED <<tracker, headerIP, provider, reloginRecent, process,
                 scheduled, locals>>

\* rotateHandler answers 202 and starts a goroutine only from Ready, and not
\* within the debounce window; every other case changes nothing.
PostRotate(h) ==
  /\ alive /\ h \in Http /\ pc[h] = "idle"
  /\ state = "Ready" /\ ~rotationRecent
  /\ Goto(h, "check")
  /\ UNCHANGED <<tracker, headerIP, provider, reloginRecent, process,
                 scheduled, locals>>

\* Mutant: a rotation goes straight to its Disconnect.
CheckStateHasty(r) ==
  /\ alive /\ pc[r] = "check"
  /\ Goto(r, IF state \in Settled THEN "teardown" ELSE "idle")
  /\ UNCHANGED <<tracker, headerIP, provider, reloginRecent, process,
                 scheduled, locals>>

CheckState(r) ==
  /\ alive /\ pc[r] = "check"
  /\ Goto(r, IF state \in Settled THEN "drain" ELSE "idle")
  /\ UNCHANGED <<tracker, headerIP, provider, reloginRecent, process,
                 scheduled, locals>>

\* Set(Draining), then the wait for the proxy's tunnels (ConnectProxy.tla).
Drain(r) ==
  /\ alive /\ pc[r] = "drain"
  /\ state' = "Draining"
  /\ Goto(r, "rotating")
  /\ UNCHANGED <<exitIP, rotationRecent, rotationCount, headerIP, provider,
                 reloginRecent, process, scheduled, locals>>

Rotating(r) ==
  /\ alive /\ pc[r] = "rotating"
  /\ state' = "Rotating"
  /\ Goto(r, "teardown")
  /\ UNCHANGED <<exitIP, rotationRecent, rotationCount, headerIP, provider,
                 reloginRecent, process, scheduled, locals>>

Teardown(r) ==
  /\ alive /\ pc[r] = "teardown"
  /\ DisconnectOutcome(MayFail)
  /\ Goto(r, "next")
  /\ UNCHANGED <<tracker, headerIP, auth, outage, reloginRecent, process,
                 scheduled, locals>>

RecordRotation ==
  /\ rotationRecent' = TRUE
  /\ rotationCount' = IF rotationCount < RecycleLimit THEN rotationCount + 1
                                                      ELSE rotationCount

\* What a rotation keeps between two calls ends with the call.
Forget(r) ==
  /\ failed' = [failed EXCEPT ![r] = {}]
  /\ attempt' = [attempt EXCEPT ![r] = 0]

\* Success is recorded after Ready has been published.
RotationSucceeded(r) ==
  /\ alive /\ pc[r] = "log"
  /\ RecordRotation
  /\ Forget(r)
  /\ Goto(r, "idle")
  /\ UNCHANGED <<state, exitIP, headerIP, provider, reloginRecent, process,
                 scheduled, loc>>

\* Mutant: a failed rotation returns without Set(Failed).
RotationFailedSilently(r) ==
  /\ alive /\ pc[r] = "giveup"
  /\ RecordRotation
  /\ Forget(r)
  /\ Goto(r, "idle")
  /\ UNCHANGED <<state, exitIP, headerIP, provider, reloginRecent, process,
                 scheduled, loc>>

RotationFailed(r) ==
  /\ alive /\ pc[r] = "giveup"
  /\ RecordRotation
  /\ Forget(r)
  /\ Goto(r, "surrender")
  /\ UNCHANGED <<state, exitIP, headerIP, provider, reloginRecent, process,
                 scheduled, loc>>

\* Mutant: a rotation that has given up leaves the state as it is.
SurrenderUnset(r) ==
  /\ alive /\ pc[r] = "surrender"
  /\ Goto(r, "idle")
  /\ UNCHANGED <<tracker, headerIP, provider, reloginRecent, process,
                 scheduled, locals>>

Surrender(r) ==
  /\ alive /\ pc[r] = "surrender"
  /\ state' = "Failed"
  /\ Goto(r, "idle")
  /\ UNCHANGED <<exitIP, rotationRecent, rotationCount, headerIP, provider,
                 reloginRecent, process, scheduled, locals>>

-----------------------------------------------------------------------------
\* The ways out of the process.

\* The wedge guard trips (its clock is WedgeGuard.tla).
WedgeTrips(g) ==
  /\ alive /\ g \in Guards /\ pc[g] = "idle"
  /\ state # "Ready"
  /\ Goto(g, "release")
  /\ UNCHANGED <<tracker, headerIP, provider, reloginRecent, process,
                 scheduled, locals>>

\* The lifetime is over and the tick finds the pod Ready.
LifetimeReached(c) ==
  /\ alive /\ c \in Recyclers /\ pc[c] = "idle"
  /\ state = "Ready"
  /\ Goto(c, "recycle")
  /\ UNCHANGED <<tracker, headerIP, provider, reloginRecent, process,
                 scheduled, locals>>

Recycle(c) ==
  /\ alive /\ pc[c] = "recycle"
  /\ state' = "Draining"
  /\ Goto(c, "release")
  /\ UNCHANGED <<exitIP, rotationRecent, rotationCount, headerIP, provider,
                 reloginRecent, process, scheduled, locals>>

\* Mutant: shutdownDone is set and never read.
TakeShutdownAlways(e) ==
  /\ alive /\ pc[e] = "release"
  /\ shutdownDone' = TRUE
  /\ Goto(e, "disconnect")
  /\ UNCHANGED <<tracker, headerIP, provider, reloginRecent, cancelled, alive,
                 scheduled, locals>>

\* gracefulDisconnect: whoever finds shutdownDone set goes on to exit at once;
\* its context is a fresh one, which a signal does not cancel.
TakeShutdown(e) ==
  /\ alive /\ pc[e] = "release"
  /\ shutdownDone' = TRUE
  /\ Goto(e, IF shutdownDone THEN "exit" ELSE "disconnect")
  /\ UNCHANGED <<tracker, headerIP, provider, reloginRecent, cancelled, alive,
                 scheduled, locals>>

ShutdownDisconnect(e) ==
  /\ alive /\ pc[e] = "disconnect"
  /\ DisconnectOutcome(outage)
  /\ Goto(e, "exit")
  /\ UNCHANGED <<tracker, headerIP, auth, outage, reloginRecent, process,
                 scheduled, locals>>

\* main returns; the others call os.Exit.
Exit(e) ==
  /\ alive /\ pc[e] = "exit"
  /\ alive' = FALSE
  /\ UNCHANGED <<tracker, headerIP, provider, reloginRecent, cancelled,
                 shutdownDone, scheduled, locals, pc>>

-----------------------------------------------------------------------------
\* The environment.

Sigterm ==
  /\ alive /\ ~cancelled
  /\ cancelled' = TRUE
  /\ UNCHANGED <<tracker, headerIP, provider, reloginRecent, shutdownDone,
                 alive, scheduled, locals, pc>>

TunnelDrops ==
  /\ outage /\ session # Down
  /\ session' = Down
  /\ UNCHANGED <<tracker, headerIP, auth, outage, reloginRecent, process,
                 scheduled, locals, pc>>

DaemonLogsOut ==
  /\ outage /\ auth
  /\ auth' = FALSE
  /\ UNCHANGED <<tracker, headerIP, session, outage, reloginRecent, process,
                 scheduled, locals, pc>>

OutageEnds ==
  /\ outage
  /\ outage' = FALSE
  /\ UNCHANGED <<tracker, headerIP, session, auth, reloginRecent, process,
                 scheduled, locals, pc>>

\* reloginThrottleSec and minTimeBetweenRotations run out.
ThrottleExpires ==
  /\ alive /\ reloginRecent
  /\ reloginRecent' = FALSE
  /\ UNCHANGED <<tracker, headerIP, provider, process, scheduled, locals, pc>>

DebounceExpires ==
  /\ alive /\ rotationRecent
  /\ rotationRecent' = FALSE
  /\ UNCHANGED <<state, exitIP, rotationCount, headerIP, provider,
                 reloginRecent, process, scheduled, locals, pc>>

-----------------------------------------------------------------------------
MainStep == BootLogin \/ LoginSucceeds \/ LoginFails \/ BootCancelled
              \/ BootRetry \/ Spawn \/ HoldEnds

ConnectStep(t) ==
  \/ BeginConnect(t) \/ EnsureLoggedIn(t) \/ Relogin(t) \/ NoLocation(t)
  \/ ConnectSucceeds(t) \/ ConnectFails(t) \/ VerifyPasses(t)
  \/ VerifyLeaks(t) \/ LeakDisconnect(t) \/ RecordTunnelUp(t)
  \/ TunnelUpListener(t) \/ PublishReady(t)

WatchdogStep(w) == WatchdogTick(w) \/ WatchdogFails(w)

RotateStep(r) ==
  \/ CheckState(r) \/ Drain(r) \/ Rotating(r) \/ Teardown(r)
  \/ NextAttempt(r) \/ RotationSucceeded(r) \/ RotationFailed(r)
  \/ Surrender(r)

ExitStep(e) == Recycle(e) \/ TakeShutdown(e) \/ ShutdownDisconnect(e) \/ Exit(e)

Environment == \/ Sigterm \/ TunnelDrops \/ DaemonLogsOut \/ OutageEnds
               \/ ThrottleExpires \/ DebounceExpires \/ Restart

Next ==
  \/ MainStep
  \/ \E t \in Connectors : ConnectStep(t)
  \/ \E w \in Watchdogs : WatchdogStep(w)
  \/ \E r \in Rotators : RotateStep(r)
  \/ \E r \in Timers : TimerFires(r)
  \/ \E h \in Http : PostRotate(h)
  \/ \E g \in Guards : WedgeTrips(g)
  \/ \E c \in Recyclers : LifetimeReached(c)
  \/ \E e \in Exiters : ExitStep(e)
  \/ Environment

Spec == Init /\ [][Next]_vars

\* The Go scheduler runs every runnable goroutine, provider calls are bounded
\* by their timeouts, the watchdog's ticker keeps ticking and acts on a Failed
\* pod, systemd respawns the process, and 60 seconds pass.  Nothing makes the
\* timer, /rotate, the guard, the recycler or the outside world act, nor the
\* watchdog act on a Ready pod.
Fairness ==
  /\ WF_vars(MainStep)
  /\ \A t \in Connectors : WF_vars(ConnectStep(t))
  /\ \A w \in Watchdogs : /\ WF_vars(state = "Failed" /\ WatchdogTick(w))
                           /\ WF_vars(WatchdogFails(w))
  /\ \A r \in Rotators : WF_vars(RotateStep(r))
  /\ \A e \in Exiters : WF_vars(ExitStep(e))
  /\ WF_vars(ThrottleExpires)
  /\ WF_vars(Restart)

FairSpec == Spec /\ Fairness

-----------------------------------------------------------------------------
\* The values the variables range over.
TypeOK ==
  /\ state \in State
  /\ exitIP \in Locations \cup {Down} /\ headerIP \in Locations \cup {Down}
  /\ rotationRecent \in BOOLEAN /\ rotationCount \in 0..RecycleLimit
  /\ session \in Locations \cup {Down}
  /\ auth \in BOOLEAN /\ outage \in BOOLEAN /\ reloginRecent \in BOOLEAN
  /\ cancelled \in BOOLEAN /\ shutdownDone \in BOOLEAN /\ alive \in BOOLEAN
  /\ scheduled \in 0..RecycleLimit
  /\ loc \in [Threads -> Locations \cup {Down}]
  /\ failed \in [Threads -> SUBSET Locations]
  /\ attempt \in [Threads -> 0..MaxAttempts]
  /\ pc \in [Threads -> Labels]

\* No orphaned lifecycle: whenever the state is one in which the watchdog and
\* the rotator stay out of the way (main.go:424, rotator.go:100), some thread
\* is still bound to settle it or to end the process - however rotations,
\* reconnects and recycles overlap.  Otherwise the pod would stay unready
\* until the wedge guard kills it.
DrivenUnlessSettled ==
  alive /\ state \notin Settled => \E t \in Threads : pc[t] \in Driving

\* Boot is exclusive: until main has published the first Ready, no rotation,
\* reconnect or exit path of another goroutine is under way, so nobody logs
\* in, connects or disconnects behind the back of the boot retry loops.
BootIsExclusive ==
  alive /\ pc[Main] \in Booting =>
    \A t \in Threads \ {Main} : pc[t] \in {"unborn", "idle"}

\* Within one rotation no location that failed is tried again, no excluded
\* one is ever used, and every attempt burns at most one location
\* (connect.go:245-247).
NoRetryOfFailedLocation ==
  \A r \in Rotators :
    /\ pc[r] \in {"verify", "leak", "record", "announce", "ready"} =>
         loc[r] \notin Excluded \cup failed[r]
    /\ Cardinality(failed[r]) <= attempt[r]

\* gracefulDisconnect tears the tunnel down at most once per process,
\* whichever exit paths race (shutdown.go:52): nobody is inside it before
\* shutdownDone is set, and never two at a time.
ShutdownDisconnectsOnce ==
  /\ \A e \in Exiters : pc[e] = "disconnect" => shutdownDone
  /\ \A e, f \in Exiters :
       pc[e] = "disconnect" /\ pc[f] = "disconnect" => e = f

\* /readyz stays 503 for the whole of a rotation (server.go:82-85).
RotationHidesReady ==
  \A r \in Rotators :
    pc[r] \in {"teardown", "start", "auth", "relogin", "connect", "verify",
              "leak", "record", "announce", "ready", "next"}
      => state # "Ready"

\* The pod never takes its own tunnel down while it advertises Ready, except
\* on the way out of the process.
TeardownOnlyUnready ==
  [][session # Down /\ session' = Down /\ state = "Ready" =>
       \/ TunnelDrops
       \/ ~alive
       \/ \E e \in Exiters : pc[e] = "disconnect"]_vars

\* At rest the x-tundler-exit-ip header is the recorded exit IP
\* (state.go:150-153).
HeaderIsCurrent ==
  (\A t \in Connectors : pc[t] # "announce") => headerIP = exitIP

\* A Ready pod exits nowhere but where its header says, if it sends one: never
\* under the name of an earlier tunnel, however the attempts before this one
\* ended (connect.go:295-296).  It sends none if neither provider nor probe has
\* told the address (connect.go:102-105, egress.go:136-144).
ReadyExitsAsAdvertised ==
  state = "Ready" /\ headerIP # Down => session \in {Down, headerIP}

\* Seen from outside the pod keeps PodContract: with one driver at a time its
\* readiness, its header and its exit change in the right order, through
\* retries, leaks, losses, shutdowns and respawns (connect.go:295-296,
\* rotator.go:105-112, server.go:82-85).
Contract == INSTANCE PodContract WITH
  ready <- state = "Ready", advertised <- headerIP, exit <- session

KeepsContract == Contract!Spec

\* Every exit path releases the provider session before the process goes away
\* (shutdown.go:28-31).
ExitReleasesSession == ~alive => session = Down

\* Whatever the provider does, a held pod that is not settled settles, or is
\* told to stop.
AlwaysSettles ==
  (state \notin Settled /\ pc[Main] = "hold")
    ~> (state \in Settled \/ cancelled \/ ~alive)

\* Once the provider works again, the pod is not stopped and rotations leave
\* it alone, it gets Ready again and again, whatever races have left behind:
\* no throttle, back-off or given-up login keeps it out (main.go:404-410,
\* connect.go:25-34).
Recovers ==
  <>[](/\ ~outage /\ ~cancelled
       /\ \A r \in Rotators : pc[r] = "idle") => []<>(state = "Ready")
=============================================================================
