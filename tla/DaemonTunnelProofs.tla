------------------------- MODULE DaemonTunnelProofs -------------------------
(***************************************************************************)
(* The providers that drive a vendor's daemon: the cache in front of them  *)
(* keeps its promises, nobody restarts a daemon behind another's back, the *)
(* transport is set on an idle daemon only, and a success is a tunnel -    *)
(* for any number of callers, and for any provider with such switches.     *)
(***************************************************************************)
EXTENDS DaemonTunnel, LocationsCacheProofs

\* connectTunnel and the daemon around it do nothing to the catalog cache that
\* cachedLocationsProvider.Locations does not.
THEOREM DaemonImplementsCache == DaemonSpec => Spec
<1>1. DaemonInit => Init
  BY DEF DaemonInit
<1>2. [DaemonNext]_dvars => [Next]_vars
  <2> SUFFICES ASSUME [DaemonNext]_dvars PROVE Next \/ UNCHANGED vars
    OBVIOUS
  <2>1. ASSUME NEW c \in Everyone, Recover(c) \/ Login(c)
        PROVE  UNCHANGED vars
    BY <2>1, Zenon DEF Recover, Login, Probe, Throttle, Swap, Restart, RestartFails, AwaitEnds,
      LoginStarts, EnsureProtocol, SetProtocol, CheckAccount, SignIn, SignInRefused,
      SignInHangs
  <2>2. ASSUME NEW c \in Everyone, Connect(c)
        PROVE  Step(c) \/ UNCHANGED vars
    <3>1. CASE List(c) \/ StoreRegions(c) \/ PickLocation(c) \/ PickWord(c)
      BY <3>1, Zenon DEF List, StoreRegions, PickLocation, PickWord, Step
    <3>7. CASE Regions(c)
      <4>1. PICK a \in Offer : Fetch(c, a)
        BY <3>7 DEF Regions
      <4>2. a \in Catalogs \cup {Empty}
        BY DaemonAssumption DEF Offer, LoadedCatalog, PrintedCatalog, Regional
      <4> QED
        BY <4>1, <4>2 DEF Step, FetchAny
    <3>2. CASE Register(c) \/ Dial(c)
      BY <3>2, Zenon DEF Register, Dial, Lose, Step
    <3>3. CASE PollState(c) \/ PollIP(c) \/ PollMonitor(c) \/ PollTrace(c)
      BY <3>3, Zenon DEF PollState, PollIP, PollMonitor, PollTrace, Win
    <3>4. CASE AskOnce(c) \/ Deadline(c)
      BY <3>4, Zenon DEF AskOnce, Deadline, Win, Lose, Step
    <3>5. CASE Settle(c) \/ Leak(c)
      BY <3>5, Zenon DEF Settle, Leak, Step
    <3>6. CASE Drop(c)
      BY <3>6, Zenon DEF Drop
    <3> QED
      BY <2>2, <3>1, <3>2, <3>3, <3>4, <3>5, <3>6, <3>7 DEF Connect
  <2>3. ASSUME NEW c \in Everyone, CheckSession(c) \/ Rotate(c)
        PROVE  UNCHANGED vars
    BY <2>3, Zenon DEF CheckSession, Rotate
  <2>4. CASE Environment
    BY <2>4, Zenon DEF Environment, Deliver, StreamEnds, Respawn, MonitorGivenUp, Wedge, DaemonStarts,
      CatalogLoads, SessionLost, LinkUp, LinkLost, OutageEnds, CatalogExpires,
      ThrottlePasses, CooldownEnds, Next
  <2>5. CASE UNCHANGED dvars
    BY <2>5 DEF dvars
  <2> QED
    BY <2>1, <2>2, <2>3, <2>4, <2>5 DEF DaemonNext, Work, Next
<1> QED
  BY <1>1, <1>2, PTL DEF DaemonSpec, Spec

\* Once a pod has booted, a wedged daemon leaves no caller without a catalog
\* (locations_cache.go:31-34).
THEOREM DaemonNeverEmpty == DaemonSpec => []NeverEmptyAfterBoot
  BY DaemonImplementsCache, BootedNeverEmpty, PTL

\* A caller is always at a step of the call it is in.
AtTypes == at \in [Everyone -> Positions]

LEMMA GiveUpMoves ==
  ASSUME NEW c \in Everyone, AtTypes, GiveUp(c) PROVE AtTypes'
BY DEF GiveUp, AtTypes, Move, Positions, Idle, Again

LEMMA ResumeMoves ==
  ASSUME NEW c \in Everyone, AtTypes, Resume(c),
         at[c][1] \in {"probe"} \cup Recovery
  PROVE  AtTypes'
<1> USE DEF AtTypes, Move, Keep
<1>1. CASE at[c][2] = "reenter"
  BY <1>1 DEF Resume, Positions, Logins
<1>2. CASE at[c][2] = "abandon"
  BY <1>2, GiveUpMoves DEF Resume
<1>3. CASE at[c][2] \notin {"reenter", "abandon"}
  <2>1. at[c][2] \in Guarded
    BY <1>3 DEF Positions, Recovery, Guarded, Logins, Idle, Again
  <2> QED
    BY <1>3, <2>1 DEF Resume, Positions
<1> QED
  BY <1>1, <1>2, <1>3

LEMMA LoginMoves ==
  ASSUME NEW c \in Everyone, AtTypes, LoginFails(c) \/ LoginSucceeds(c)
  PROVE  AtTypes'
<1>1. CASE LoginFails(c) /\ at[c][2] # "enter"
  BY <1>1, GiveUpMoves DEF LoginFails
<1>2. CASE LoginFails(c) /\ at[c][2] = "enter"
  BY <1>2 DEF LoginFails, AtTypes, Move, Positions, Logins
<1>3. CASE LoginSucceeds(c)
  BY <1>3 DEF LoginSucceeds, AtTypes, Move, Positions, Idle
<1> QED
  BY <1>1, <1>2, <1>3

LEMMA BeginPositions ==
  \A call \in Guarded : Begin(call) \in Positions
BY DEF Begin, Guarded, Positions, Logins

LEMMA AtInvariant == DaemonSpec => []AtTypes
<1>1. DaemonInit => AtTypes
  BY DEF DaemonInit, AtTypes, Positions, Idle, Logins
<1>2. AtTypes /\ [DaemonNext]_dvars => AtTypes'
  <2> SUFFICES ASSUME AtTypes, [DaemonNext]_dvars PROVE AtTypes'
    OBVIOUS
  <2> USE DEF Move, Keep, At
  <2>1. ASSUME NEW c \in Everyone, Recover(c) PROVE AtTypes'
    <3>1. CASE Probe(c)
      <4>1. Resume(c) \/ Keep(c, "throttle")
        BY <3>1 DEF Probe
      <4>2. at[c][1] = "probe"
        BY <3>1 DEF Probe
      <4>3. CASE Keep(c, "throttle")
        BY <4>2, <4>3 DEF AtTypes, Positions, Recovery, Guarded, Logins, Idle, Again
      <4> QED
        BY <4>1, <4>2, <4>3, ResumeMoves
    <3>2. CASE Throttle(c) \/ Swap(c) \/ RestartFails(c) \/ AwaitEnds(c)
      <4>1. Resume(c) \/ Keep(c, "swap") \/ Keep(c, "restart")
        BY <3>2 DEF Throttle, Swap, RestartFails, AwaitEnds, GoOn
      <4>2. at[c][1] \in Recovery
        BY <3>2 DEF Throttle, Swap, RestartFails, AwaitEnds, Recovery
      <4>3. CASE Keep(c, "swap") \/ Keep(c, "restart")
        BY <4>2, <4>3 DEF AtTypes, Positions, Recovery, Guarded, Logins, Idle, Again
      <4> QED
        BY <4>1, <4>2, <4>3, ResumeMoves
    <3>3. CASE Restart(c)
      BY <3>3 DEF Restart, AtTypes, Positions, Recovery, Guarded, Logins, Idle, Again
    <3> QED
      BY <2>1, <3>1, <3>2, <3>3 DEF Recover
  <2>2. ASSUME NEW c \in Everyone, Login(c) PROVE AtTypes'
    <3>1. CASE LoginStarts(c)
      <4>1. LoginFails(c) \/ Move(c, Begin(at[c][2]))
        BY <3>1 DEF LoginStarts
      <4>2. Begin(at[c][2]) \in Positions
        BY <3>1, BeginPositions DEF LoginStarts, Guarded
      <4> QED
        BY <4>1, <4>2, LoginMoves DEF AtTypes
    <3>2. CASE EnsureProtocol(c) \/ SetProtocol(c)
      BY <3>2 DEF EnsureProtocol, SetProtocol, AtTypes, Positions, Recovery, Guarded,
        Logins, Idle, Again
    <3>3. CASE CheckAccount(c)
      <4>1. LoginSucceeds(c) \/ Keep(c, "signin")
        BY <3>3 DEF CheckAccount
      <4>2. at[c][2] \in Logins
        BY <3>3 DEF CheckAccount
      <4> QED
        BY <4>1, <4>2, LoginMoves DEF AtTypes, Positions
    <3>4. CASE SignIn(c) \/ SignInRefused(c)
      BY <3>4, LoginMoves DEF SignIn, SignInRefused
    <3>5. CASE SignInHangs(c)
      <4>1. \/ LoginFails(c)
            \/ \E call \in {"reenter", "abandon"} : Move(c, <<"throttle", call>>)
        BY <3>5 DEF SignInHangs
      <4> QED
        BY <4>1, LoginMoves DEF AtTypes, Positions, Recovery
    <3> QED
      BY <2>2, <3>1, <3>2, <3>3, <3>4, <3>5 DEF Login
  <2>3. ASSUME NEW c \in Everyone, Connect(c) PROVE AtTypes'
    <3>1. CASE List(c)
      <4>1. <<"listed", "regions">> \in Positions /\ Begin("regions") \in Positions
        BY BeginPositions DEF Guarded, Positions
      <4> QED
        BY <3>1, <4>1 DEF List, AtTypes
    <3>2. CASE Regions(c)
      BY <3>2 DEF Regions, AtTypes, Positions
    <3>3. CASE PickLocation(c)
      <4>1. GiveUp(c) \/ Move(c, Begin("dial"))
        BY <3>3, Zenon DEF PickLocation
      <4>2. Begin("dial") \in Positions
        BY BeginPositions DEF Guarded
      <4> QED
        BY <4>1, <4>2, GiveUpMoves DEF AtTypes
    <3>4. CASE Register(c)
      <4>1. UNCHANGED at \/ GiveUp(c)
        BY <3>4, Zenon DEF Register, Lose
      <4> QED
        BY <4>1, GiveUpMoves DEF AtTypes
    <3>5. CASE Dial(c) \/ PollState(c)
      BY <3>5 DEF Dial, PollState, AtTypes, Positions, Recovery, Guarded, Logins, Idle, Again
    <3>6. CASE PollIP(c)
      <4>1. Win(c) \/ Keep(c, "poll")
        BY <3>6, Zenon DEF PollIP
      <4>2. at[c][1] = "ip"
        BY <3>6 DEF PollIP
      <4> QED
        BY <4>1, <4>2 DEF Win, AtTypes, Positions, Recovery, Guarded, Logins, Idle, Again
    <3>7. CASE PollMonitor(c) \/ PollTrace(c) \/ AskOnce(c) \/ Deadline(c)
      <4>1. Win(c) \/ Lose(c)
        BY <3>7, Zenon DEF PollMonitor, PollTrace, AskOnce, Deadline
      <4>2. CASE Win(c)
        BY <4>2 DEF Win, AtTypes, Positions
      <4>3. CASE Lose(c)
        BY <4>3, GiveUpMoves DEF Lose
      <4> QED
        BY <4>1, <4>2, <4>3
    <3>8. CASE Settle(c) \/ Leak(c)
      BY <3>8 DEF Settle, Leak, AtTypes, Positions, Idle
    <3>9. CASE Drop(c)
      <4>1. GiveUp(c) \/ Move(c, Again)
        BY <3>9 DEF Drop
      <4> QED
        BY <4>1, GiveUpMoves DEF AtTypes, Positions
    <3>10. CASE StoreRegions(c)
      BY <3>10 DEF StoreRegions, AtTypes
    <3>11. CASE PickWord(c)
      BY <3>11 DEF PickWord, AtTypes, Positions
    <3> QED
      BY <2>3, <3>1, <3>2, <3>3, <3>4, <3>5, <3>6, <3>7, <3>8, <3>9, <3>10, <3>11 DEF Connect
  <2>4. ASSUME NEW c \in Everyone, CheckSession(c) \/ Rotate(c) PROVE AtTypes'
    BY <2>4 DEF CheckSession, Rotate, AtTypes, Positions, Logins
  <2>5. CASE Environment
    <3>1. UNCHANGED at
      BY <2>5, Zenon DEF Environment, Deliver, StreamEnds, Respawn, MonitorGivenUp, Wedge,
        DaemonStarts, CatalogLoads, SessionLost, LinkUp, LinkLost, OutageEnds,
        CatalogExpires, ThrottlePasses, CooldownEnds
    <3> QED
      BY <3>1 DEF AtTypes
  <2>6. CASE UNCHANGED dvars
    BY <2>6 DEF dvars, AtTypes
  <2> QED
    BY <2>1, <2>2, <2>3, <2>4, <2>5, <2>6 DEF DaemonNext, Work
<1> QED
  BY <1>1, <1>2, PTL DEF DaemonSpec

\* The other variables, by who writes them.
OutsideTypes ==
  /\ daemon \in {"up", "loading", "partial", "wedged", "starting"}
  /\ link \in {"down", "connecting", "up"}
  /\ account \in BOOLEAN /\ protocol \in BOOLEAN
  /\ loggedIn \in BOOLEAN /\ cooldown \in BOOLEAN
  /\ provider \in Fleet /\ outage \in BOOLEAN

InsideTypes ==
  /\ recent \in BOOLEAN
  /\ holders \subseteq Everyone /\ overtaken \subseteq Everyone
  /\ stream \in {"off", "live", "dead"} /\ shown \in BOOLEAN
  /\ fallback \in BOOLEAN
  /\ saw \subseteq Everyone /\ witnessed \subseteq Everyone

LEMMA OutsideInvariant == DaemonSpec => []OutsideTypes
<1>1. DaemonInit => OutsideTypes
  <2> SUFFICES ASSUME DaemonInit PROVE OutsideTypes
    OBVIOUS
  <2>1. protocol \in BOOLEAN /\ link \in {"down", "connecting", "up"}
    BY DEF DaemonInit
  <2> QED
    BY <2>1, DaemonAssumption DEF DaemonInit, OutsideTypes
<1>2. OutsideTypes /\ [DaemonNext]_dvars => OutsideTypes'
  <2> SUFFICES ASSUME OutsideTypes, [DaemonNext]_dvars PROVE OutsideTypes'
    OBVIOUS
  <2> USE DEF OutsideTypes, outside, process, world
  <2>1. ASSUME NEW c \in Everyone, Recover(c) PROVE OutsideTypes'
    BY <2>1, Zenon DEF Recover, Probe, Throttle, Swap, Restart, RestartFails, AwaitEnds
  <2>2. ASSUME NEW c \in Everyone, Login(c) PROVE OutsideTypes'
    <3>1. CASE SetProtocol(c)
      <4>1. daemon' \in {daemon, "wedged"} /\ protocol' \in BOOLEAN
        BY <3>1, Zenon DEF SetProtocol
      <4> QED
        BY <3>1, <4>1 DEF SetProtocol
    <3>2. CASE SignIn(c)
      <4>1. loggedIn' \in BOOLEAN /\ account' \in BOOLEAN
        BY <3>2, Zenon DEF SignIn
      <4> QED
        BY <3>2, <4>1, Zenon DEF SignIn
    <3>3. CASE SignInRefused(c)
      <4>1. cooldown' \in BOOLEAN
        BY <3>3, Zenon DEF SignInRefused, Monitored
      <4> QED
        BY <3>3, <4>1, Zenon DEF SignInRefused
    <3>4. CASE LoginStarts(c) \/ EnsureProtocol(c) \/ CheckAccount(c) \/ SignInHangs(c)
      BY <3>4, Zenon DEF LoginStarts, EnsureProtocol, CheckAccount, SignInHangs
    <3> QED
      BY <2>2, <3>1, <3>2, <3>3, <3>4 DEF Login
  <2>3. ASSUME NEW c \in Everyone, Connect(c) PROVE OutsideTypes'
    <3>1. CASE Register(c)
      <4>1. account' \in BOOLEAN
        BY <3>1, Zenon DEF Register
      <4> QED
        BY <3>1, <4>1, Zenon DEF Register
    <3>2. CASE Dial(c)
      <4>1. link' \in {"down", "connecting", "up"}
        BY <3>2 DEF Dial
      <4> QED
        BY <3>2, <4>1, Zenon DEF Dial
    <3>3. CASE Drop(c)
      <4>1. link' \in {"down", link} /\ account' \in BOOLEAN
        BY <3>3, Zenon DEF Drop
      <4> QED
        BY <3>3, <4>1, Zenon DEF Drop
    <3>4. CASE List(c) \/ Regions(c) \/ StoreRegions(c) \/ PickLocation(c)
                 \/ PickWord(c) \/ Settle(c) \/ Leak(c)
      BY <3>4, Zenon DEF List, Regions, StoreRegions, PickLocation, PickWord, Settle, Leak
    <3>5. CASE PollState(c) \/ PollIP(c) \/ PollMonitor(c) \/ PollTrace(c)
                 \/ AskOnce(c) \/ Deadline(c)
      BY <3>5, Zenon DEF PollState, PollIP, PollMonitor, PollTrace, AskOnce, Deadline
    <3> QED
      BY <2>3, <3>1, <3>2, <3>3, <3>4, <3>5 DEF Connect
  <2>4. ASSUME NEW c \in Everyone, CheckSession(c) \/ Rotate(c) PROVE OutsideTypes'
    BY <2>4, Zenon DEF CheckSession, Rotate
  <2>5. CASE Wedge \/ DaemonStarts \/ CatalogLoads \/ LinkUp \/ LinkLost
    <3>1. /\ daemon' \in {"up", "loading", "partial", "wedged", "starting"}
          /\ link' \in {"down", "connecting", "up"}
      BY <2>5 DEF Wedge, DaemonStarts, CatalogLoads, LinkUp, LinkLost
    <3> QED
      BY <2>5, <3>1, Zenon DEF Wedge, DaemonStarts, CatalogLoads, LinkUp, LinkLost
  <2>6. CASE Deliver \/ StreamEnds \/ Respawn \/ MonitorGivenUp \/ SessionLost
               \/ OutageEnds \/ CatalogExpires \/ ThrottlePasses \/ CooldownEnds
    BY <2>6, Zenon DEF Deliver, StreamEnds, Respawn, MonitorGivenUp, SessionLost,
      OutageEnds, CatalogExpires, ThrottlePasses, CooldownEnds
  <2>7. CASE UNCHANGED dvars
    BY <2>7 DEF dvars
  <2> QED
    BY <2>1, <2>2, <2>3, <2>4, <2>5, <2>6, <2>7 DEF DaemonNext, Work, Environment
<1> QED
  BY <1>1, <1>2, PTL DEF DaemonSpec

LEMMA InsideInvariant == DaemonSpec => []InsideTypes
<1>1. DaemonInit => InsideTypes
  BY DEF DaemonInit, InsideTypes
<1>2. InsideTypes /\ [DaemonNext]_dvars => InsideTypes'
  <2> SUFFICES ASSUME InsideTypes, [DaemonNext]_dvars PROVE InsideTypes'
    OBVIOUS
  <2> USE DEF InsideTypes, throttle, monitor, polls
  <2>1. ASSUME NEW c \in Everyone, Recover(c) PROVE InsideTypes'
    <3>1. CASE Probe(c) \/ AwaitEnds(c)
      BY <3>1, Zenon DEF Probe, AwaitEnds
    <3>2. CASE Throttle(c) \/ RestartFails(c)
      <4>1. overtaken' \subseteq Everyone /\ holders' \subseteq Everyone
        BY <3>2 DEF Throttle, RestartFails, GoOn
      <4> QED
        BY <3>2, <4>1, Zenon DEF Throttle, RestartFails
    <3>3. CASE Swap(c)
      <4>1. /\ overtaken' \subseteq Everyone /\ holders' \subseteq Everyone
            /\ recent' \in BOOLEAN
        BY <3>3 DEF Swap, GoOn
      <4> QED
        BY <3>3, <4>1, Zenon DEF Swap
    <3>4. CASE Restart(c)
      <4>1. /\ overtaken' \subseteq Everyone
            /\ stream' \in {"off", "live", "dead"}
        BY <3>4 DEF Restart
      <4> QED
        BY <3>4, <4>1, Zenon DEF Restart
    <3> QED
      BY <2>1, <3>1, <3>2, <3>3, <3>4 DEF Recover
  <2>2. ASSUME NEW c \in Everyone, Login(c) PROVE InsideTypes'
    <3>1. CASE SignIn(c)
      <4>1. stream' \in {"off", "live", "dead"}
        BY <3>1 DEF SignIn
      <4> QED
        BY <3>1, <4>1, Zenon DEF SignIn
    <3>2. CASE LoginStarts(c) \/ EnsureProtocol(c) \/ SetProtocol(c) \/ CheckAccount(c)
                 \/ SignInRefused(c) \/ SignInHangs(c)
      BY <3>2, Zenon DEF LoginStarts, EnsureProtocol, SetProtocol, CheckAccount,
        SignInRefused, SignInHangs
    <3> QED
      BY <2>2, <3>1, <3>2 DEF Login
  <2>3. ASSUME NEW c \in Everyone, Connect(c) PROVE InsideTypes'
    <3>1. CASE List(c) \/ Regions(c) \/ StoreRegions(c) \/ PickLocation(c) \/ Drop(c)
      BY <3>1, Zenon DEF List, Regions, StoreRegions, PickLocation, Drop
    <3>2. ASSUME UNCHANGED throttle, UNCHANGED monitor,
                 saw' \subseteq saw \cup {c}, witnessed' \subseteq witnessed \cup {c}
          PROVE  InsideTypes'
      BY <3>2
    <3>3. CASE PickWord(c) \/ Register(c) \/ Dial(c) \/ PollState(c) \/ Settle(c)
                 \/ Leak(c)
      <4>1. /\ UNCHANGED throttle /\ UNCHANGED monitor
            /\ saw' \subseteq saw \cup {c} /\ witnessed' \subseteq witnessed \cup {c}
        BY <3>3 DEF PickWord, Register, Dial, PollState, Settle, Leak, Lose
      <4> QED
        BY <3>2, <4>1
    <3>4. CASE PollIP(c) \/ PollMonitor(c) \/ PollTrace(c) \/ AskOnce(c) \/ Deadline(c)
      <4>1. Win(c) \/ Lose(c) \/ UNCHANGED polls
        BY <3>4, Zenon DEF PollIP, PollMonitor, PollTrace, AskOnce, Deadline
      <4>2. UNCHANGED throttle /\ UNCHANGED monitor
        BY <3>4, Zenon DEF PollIP, PollMonitor, PollTrace, AskOnce, Deadline
      <4>3. saw' \subseteq saw \cup {c} /\ witnessed' \subseteq witnessed \cup {c}
        BY <4>1 DEF Win, Lose
      <4> QED
        BY <3>2, <4>2, <4>3
    <3> QED
      BY <2>3, <3>1, <3>3, <3>4 DEF Connect
  <2>4. ASSUME NEW c \in Everyone, CheckSession(c) \/ Rotate(c) PROVE InsideTypes'
    BY <2>4, Zenon DEF CheckSession, Rotate
  <2>5. CASE Deliver \/ Respawn \/ MonitorGivenUp
    <3>1. shown' \in BOOLEAN
      BY <2>5, Zenon DEF Deliver, Respawn, MonitorGivenUp
    <3> QED
      BY <2>5, <3>1 DEF Deliver, Respawn, MonitorGivenUp
  <2>6. CASE LinkUp
    BY <2>6 DEF LinkUp
  <2>7. CASE StreamEnds \/ Wedge \/ DaemonStarts \/ CatalogLoads \/ SessionLost \/ LinkLost \/ OutageEnds \/ CatalogExpires
               \/ ThrottlePasses \/ CooldownEnds
    BY <2>7, Zenon DEF StreamEnds, Wedge, DaemonStarts, CatalogLoads,
      SessionLost, LinkLost, OutageEnds, CatalogExpires, ThrottlePasses, CooldownEnds
  <2>8. CASE UNCHANGED dvars
    BY <2>8 DEF dvars
  <2> QED
    BY <2>1, <2>2, <2>3, <2>4, <2>5, <2>6, <2>7, <2>8 DEF DaemonNext, Work, Environment
<1> QED
  BY <1>1, <1>2, PTL DEF DaemonSpec

\* The variables of DaemonTunnel keep their types, and every caller is at a step
\* of the provider call that it is in.
THEOREM DaemonTypeCorrect == DaemonSpec => []DaemonTypeOK
<1>1. TypeOK /\ AtTypes /\ OutsideTypes /\ InsideTypes => DaemonTypeOK
  BY DEF AtTypes, OutsideTypes, InsideTypes, DaemonTypeOK
<1> QED
  BY <1>1, DaemonImplementsCache, TypeCorrect, AtInvariant, OutsideInvariant,
     InsideInvariant, PTL

-----------------------------------------------------------------------------
\* What keeps two callers from restarting a daemon one after the other: a
\* reading of lastDaemonRecovery is worthless once somebody has swapped it; who
\* restarts has swapped it, and is alone; whoever was overtaken by a restart
\* finds the throttle closed, or has lost the swap.
Alone ==
  /\ recent => holders = {}
  /\ \A c \in Everyone : at[c][1] = "restart" => recent
  /\ \A c, d \in Everyone : at[c][1] = "restart" /\ at[d][1] = "restart" => c = d
  /\ \A c \in overtaken : \/ at[c][1] = "throttle" /\ recent
                          \/ at[c][1] = "swap" /\ c \notin holders

\* One caller moves, and not towards a restart.
Calm(c) ==
  /\ \A d \in Everyone \ {c} : at'[d] = at[d]
  /\ at'[c][1] \notin {"swap", "restart"} \/ at'[c] = at[c]

LEMMA CalmStep ==
  ASSUME NEW c \in Everyone, InsideTypes, Alone, UNCHANGED throttle, Calm(c),
         at[c][1] \notin {"throttle", "swap"} \/ at'[c] = at[c]
  PROVE  Alone'
BY DEF Alone, Calm, throttle, InsideTypes

LEMMA CalmGiveUp ==
  ASSUME NEW c \in Everyone, AtTypes, GiveUp(c) PROVE Calm(c) /\ at'[c][1] \notin Recovery
BY DEF GiveUp, Move, Calm, AtTypes, Idle, Again, Recovery

LEMMA CalmResume ==
  ASSUME NEW c \in Everyone, AtTypes, Resume(c) PROVE Calm(c) /\ at'[c][1] \notin Recovery
<1>1. CASE at[c][2] = "abandon"
  BY <1>1, CalmGiveUp DEF Resume
<1>2. CASE at[c][2] # "abandon"
  BY <1>2 DEF Resume, Move, Keep, Calm, AtTypes, Recovery
<1> QED
  BY <1>1, <1>2

LEMMA CalmLogin ==
  ASSUME NEW c \in Everyone, AtTypes, Login(c) PROVE Calm(c)
<1> USE DEF AtTypes, Move, Keep, Calm
<1>1. ASSUME LoginFails(c) PROVE Calm(c)
  BY <1>1, CalmGiveUp DEF LoginFails
<1>2. ASSUME LoginSucceeds(c) PROVE Calm(c)
  BY <1>2 DEF LoginSucceeds, Idle
<1>3. CASE LoginStarts(c)
  BY <1>1, <1>3 DEF LoginStarts, Begin
<1>4. CASE EnsureProtocol(c) \/ SetProtocol(c)
  BY <1>4 DEF EnsureProtocol, SetProtocol
<1>5. CASE CheckAccount(c)
  BY <1>2, <1>5 DEF CheckAccount
<1>6. CASE SignIn(c) \/ SignInRefused(c) \/ SignInHangs(c)
  BY <1>1, <1>2, <1>6 DEF SignIn, SignInRefused, SignInHangs
<1> QED
  BY <1>3, <1>4, <1>5, <1>6 DEF Login

LEMMA CalmConnect ==
  ASSUME NEW c \in Everyone, AtTypes, Connect(c) \/ CheckSession(c) \/ Rotate(c)
  PROVE  Calm(c)
<1> USE DEF AtTypes, Move, Keep, Calm
<1>1. ASSUME Lose(c) PROVE Calm(c)
  BY <1>1, CalmGiveUp DEF Lose
<1>2. ASSUME Win(c) PROVE Calm(c)
  BY <1>2 DEF Win
<1>3. CASE List(c)
  BY <1>3 DEF List, Begin
<1>4. CASE PickLocation(c)
  <2>1. GiveUp(c) \/ Move(c, Begin("dial"))
    BY <1>4, Zenon DEF PickLocation
  <2> QED
    BY <2>1, CalmGiveUp DEF Begin
<1>5. CASE Regions(c) \/ StoreRegions(c) \/ PickWord(c) \/ Dial(c) \/ PollState(c)
             \/ Settle(c) \/ Leak(c)
  BY <1>5 DEF Regions, StoreRegions, PickWord, Dial, PollState, Settle, Leak, Idle
<1>6. CASE Register(c) \/ PollIP(c) \/ PollMonitor(c) \/ PollTrace(c) \/ AskOnce(c)
             \/ Deadline(c)
  <2>1. Win(c) \/ Lose(c) \/ Keep(c, "poll") \/ UNCHANGED at
    BY <1>6, Zenon DEF Register, PollIP, PollMonitor, PollTrace, AskOnce, Deadline
  <2> QED
    BY <1>1, <1>2, <2>1
<1>7. CASE Drop(c)
  BY <1>7, CalmGiveUp DEF Drop, Again
<1>8. CASE CheckSession(c) \/ Rotate(c)
  BY <1>8 DEF CheckSession, Rotate
<1> QED
  BY <1>3, <1>4, <1>5, <1>6, <1>7, <1>8 DEF Connect

\* The steps of a login, and of the rest of connectTunnel, are not steps of a
\* recovery.
LEMMA NotRecovering ==
  ASSUME NEW c \in Everyone, Login(c) \/ Connect(c) \/ CheckSession(c) \/ Rotate(c)
  PROVE  UNCHANGED throttle /\ at[c][1] \notin Recovery
<1>1. CASE Login(c)
  BY <1>1, Zenon DEF Login, LoginStarts, EnsureProtocol, SetProtocol, CheckAccount, SignIn,
    SignInRefused, SignInHangs, At, Recovery, throttle
<1>2. CASE Connect(c)
  BY <1>2, Zenon DEF Connect, List, Regions, StoreRegions, PickLocation, PickWord, Register,
    Dial, PollState, PollIP, PollMonitor, PollTrace, AskOnce, Deadline, Settle, Leak, Drop,
    At, Recovery, throttle
<1>3. CASE CheckSession(c) \/ Rotate(c)
  BY <1>3 DEF CheckSession, Rotate, Recovery, Idle, Again, throttle
<1> QED
  BY <1>1, <1>2, <1>3

LEMMA AloneInvariant == DaemonSpec => []Alone
<1>1. DaemonInit => Alone
  BY DEF DaemonInit, Alone, Idle
<1>2. AtTypes /\ InsideTypes /\ Alone /\ [DaemonNext]_dvars => Alone'
  <2> SUFFICES ASSUME AtTypes, InsideTypes, Alone, [DaemonNext]_dvars PROVE Alone'
    OBVIOUS
  <2>1. ASSUME NEW c \in Everyone, Recover(c) PROVE Alone'
    <3>1. CASE Probe(c) \/ AwaitEnds(c)
      <4>1. Calm(c) /\ UNCHANGED throttle /\ at[c][1] \notin {"throttle", "swap"}
        BY <3>1, CalmResume DEF Probe, AwaitEnds, AtTypes, Move, Keep, Calm
      <4> QED
        BY <4>1, CalmStep
    <3>2. ASSUME GoOn(c), recent' = recent, holders' = holders PROVE Alone'
      BY <3>2, CalmResume DEF GoOn, Alone, Calm, Recovery, InsideTypes
    <3>3. CASE Throttle(c)
      BY <3>2, <3>3 DEF Throttle, Alone, AtTypes, Move, Keep, InsideTypes
    <3>4. CASE Swap(c)
      BY <3>2, <3>4 DEF Swap, Alone, AtTypes, Move, Keep, InsideTypes
    <3>5. CASE Restart(c)
      BY <3>5 DEF Restart, Alone, AtTypes, Move, Keep, InsideTypes
    <3>6. CASE RestartFails(c)
      BY <3>2, <3>6 DEF RestartFails
    <3> QED
      BY <2>1, <3>1, <3>3, <3>4, <3>5, <3>6 DEF Recover
  <2>2. ASSUME NEW c \in Everyone,
               Login(c) \/ Connect(c) \/ CheckSession(c) \/ Rotate(c)
        PROVE  Alone'
    <3>1. Calm(c)
      BY <2>2, CalmLogin, CalmConnect
    <3> QED
      BY <2>2, <3>1, NotRecovering, CalmStep DEF Recovery
  <2>3. CASE ThrottlePasses
    BY <2>3 DEF ThrottlePasses, Alone
  <2>4. CASE Environment /\ ~ThrottlePasses
    <3>1. UNCHANGED <<at, throttle>>
      BY <2>4, Zenon DEF Environment, Deliver, StreamEnds, Respawn, MonitorGivenUp, Wedge,
        DaemonStarts, CatalogLoads, SessionLost, LinkUp, LinkLost, OutageEnds,
        CatalogExpires, CooldownEnds
    <3> QED
      BY <3>1 DEF Alone, throttle
  <2>5. CASE UNCHANGED dvars
    BY <2>5 DEF dvars, Alone, throttle
  <2> QED
    BY <2>1, <2>2, <2>3, <2>4, <2>5 DEF DaemonNext, Work
<1> QED
  BY <1>1, <1>2, AtInvariant, InsideInvariant, PTL DEF DaemonSpec

\* Nobody restarts a daemon that was restarted since it failed to answer them
\* (expressvpn.go:103-114, pia.go:48-61), for any number of callers.
THEOREM RecoveryExclusive == DaemonSpec => []RecoveryNotOvertaken
<1>1. Alone => RecoveryNotOvertaken
  BY DEF Alone, RecoveryNotOvertaken
<1> QED
  BY <1>1, AloneInvariant, PTL

-----------------------------------------------------------------------------
\* Why PIA's transport is set on an idle daemon: main is alone until it has
\* booted and does nothing afterwards; then the login flag is up for good, so
\* that nobody gets as far as ensureProtocol again.
Later == Logins \cup {"reenter", "abandon"}

Flagged ==
  /\ booted => loggedIn
  /\ \A c \in Everyone :
       at[c][1] = "list" \/ at[c][2] \in {"regions", "dial"} => loggedIn
  /\ \A c \in Callers : at[c][2] \notin Later
  /\ at[Boot][1] = "setprotocol" => link = "down"

BootFirst ==
  /\ ~booted => \A c \in Callers : at[c] = Idle
  /\ booted => at[Boot] = Idle
  /\ Monitored => Flagged
  /\ ~Monitored => \A c \in Everyone : at[c][1] # "setprotocol"

\* What a caller that is in a call may do to BootFirst.
Orderly(c) ==
  /\ \A d \in Everyone \ {c} : at'[d] = at[d]
  /\ UNCHANGED <<booted, provider>>
  /\ loggedIn => loggedIn'
  /\ at'[c][1] = "setprotocol" => Monitored \/ at[c][1] = "setprotocol"
  /\ Monitored =>
       /\ at'[c][1] = "list" \/ at'[c][2] \in {"regions", "dial"} => loggedIn'
       /\ at'[c][2] \in Later => at[c][2] \in Later
       /\ at'[c][1] = "setprotocol" => link' = "down"

LEMMA OrderlyStep ==
  ASSUME NEW c \in Everyone, AtTypes, BootFirst, at[c] # Idle, Orderly(c)
  PROVE  BootFirst'
<1>1. Monitored' = Monitored
  BY DEF Orderly, Monitored
<1>2. (~booted' => \A d \in Callers : at'[d] = Idle) /\ (booted' => at'[Boot] = Idle)
  BY BootAssumption DEF BootFirst, Orderly, Everyone
<1>3. ASSUME Monitored PROVE Flagged'
  <2> USE <1>3 DEF BootFirst, Flagged, Orderly
  <2>1. CASE c = Boot
    BY <2>1, BootAssumption DEF Everyone
  <2>2. CASE c # Boot
    <3>1. booted /\ at[Boot] = Idle /\ at'[Boot] = Idle
      BY <2>2 DEF Everyone
    <3> QED
      BY <2>2, <3>1 DEF Everyone, Idle
  <2> QED
    BY <2>1, <2>2
<1>4. ASSUME ~Monitored, NEW d \in Everyone PROVE at'[d][1] # "setprotocol"
  BY <1>4 DEF BootFirst, Orderly
<1> QED
  BY <1>1, <1>2, <1>3, <1>4 DEF BootFirst

LEMMA OrderlyGiveUp ==
  ASSUME NEW c \in Everyone, AtTypes, GiveUp(c), UNCHANGED <<booted, provider>>,
         loggedIn => loggedIn'
  PROVE  Orderly(c)
BY DEF GiveUp, Move, Orderly, AtTypes, Idle, Again, Later, Logins

LEMMA OrderlyRecover ==
  ASSUME NEW c \in Everyone, AtTypes, BootFirst, Recover(c) PROVE Orderly(c) /\ at[c] # Idle
<1> USE DEF AtTypes, Move, Keep
<1>1. UNCHANGED <<booted, provider, loggedIn>>
  BY Zenon DEF Recover, Probe, Throttle, Swap, Restart, RestartFails, AwaitEnds, vars, world,
    process
<1>2. at[c][1] \in {"probe"} \cup Recovery
  BY Zenon DEF Recover, Probe, Throttle, Swap, Restart, RestartFails, AwaitEnds, Recovery
<1>3. \/ Resume(c)
      \/ \E s \in Recovery : Keep(c, s)
  BY DEF Recover, Probe, Throttle, Swap, Restart, RestartFails, AwaitEnds, GoOn, Recovery
<1>4. ASSUME NEW s \in Recovery \cup {"act"}, Keep(c, s) PROVE Orderly(c)
  BY <1>1, <1>2, <1>4 DEF Orderly, BootFirst, Flagged, Recovery
<1>5. ASSUME Resume(c) PROVE Orderly(c)
  <2>1. CASE at[c][2] = "reenter"
    <3>1. at' = [at EXCEPT ![c] = <<"start", "enter">>]
      BY <1>5, <2>1 DEF Resume
    <3> QED
      BY <1>1, <2>1, <3>1 DEF Orderly, Later, Logins
  <2>2. CASE at[c][2] = "abandon"
    BY <1>1, <1>5, <2>2, OrderlyGiveUp DEF Resume
  <2>3. CASE at[c][2] \notin {"reenter", "abandon"}
    BY <1>4, <1>5, <2>3 DEF Resume
  <2> QED
    BY <2>1, <2>2, <2>3
<1> QED
  BY <1>2, <1>3, <1>4, <1>5 DEF Idle, Recovery

LEMMA OrderlyLogin ==
  ASSUME NEW c \in Everyone, AtTypes, BootFirst, provider \in Fleet, Login(c)
  PROVE  Orderly(c) /\ at[c] # Idle
<1> USE DEF AtTypes, Move, Keep, At
<1>1. UNCHANGED <<booted, provider, link>>
  BY Zenon DEF Login, LoginStarts, EnsureProtocol, SetProtocol, CheckAccount, SignIn,
    SignInRefused, SignInHangs, vars, world, outside
<1>2. at[c][1] \in {"start", "act", "check", "setprotocol", "signin"} /\ at[c][2] \in Logins
  BY DEF Login, LoginStarts, EnsureProtocol, SetProtocol, CheckAccount, SignIn, SignInRefused,
    SignInHangs, Positions, Recovery, Guarded, Logins, Idle, Again
<1>0. loggedIn => loggedIn'
  <2>1. ~SignIn(c) => UNCHANGED loggedIn
    BY Zenon DEF Login, LoginStarts, EnsureProtocol, SetProtocol, CheckAccount,
      SignInRefused, SignInHangs, process
  <2>2. SignIn(c) => (loggedIn => loggedIn')
    BY Zenon DEF SignIn
  <2> QED
    BY <2>1, <2>2
<1> USE <1>0, <1>1, <1>2
<1>3. ASSUME LoginFails(c) PROVE Orderly(c)
  BY <1>3 DEF LoginFails, GiveUp, Orderly, Later, Logins, Idle, Again
<1>4. ASSUME LoginSucceeds(c), Monitored => loggedIn' PROVE Orderly(c)
  BY <1>4 DEF LoginSucceeds, Orderly, Later, Logins, Idle
<1>5. ASSUME LoginStarts(c) PROVE Orderly(c)
  BY <1>3, <1>5 DEF LoginStarts, Begin, Orderly, Later, Logins
<1>6. ASSUME EnsureProtocol(c) PROVE Orderly(c)
  BY <1>6 DEF EnsureProtocol, Orderly, Later, Logins
<1>7. ASSUME SetProtocol(c) PROVE Orderly(c)
  BY <1>7 DEF SetProtocol, Orderly, Later, Logins
<1>8. ASSUME CheckAccount(c) PROVE Orderly(c)
  <2>1. CASE LoggedIn
    <3>1. Monitored => loggedIn'
      BY <1>8, <2>1, DaemonAssumption DEF CheckAccount, LoggedIn, Monitored, process
    <3> QED
      BY <1>4, <1>8, <2>1, <3>1 DEF CheckAccount
  <2>2. CASE ~LoggedIn
    BY <1>8, <2>2 DEF CheckAccount, Orderly, Later, Logins
  <2> QED
    BY <2>1, <2>2
<1>9. ASSUME SignIn(c) PROVE Orderly(c)
  <2>1. Monitored => loggedIn'
    BY <1>9, DaemonAssumption DEF SignIn, Monitored
  <2> QED
    BY <1>4, <1>9, <2>1 DEF SignIn
<1>10. ASSUME SignInRefused(c) PROVE Orderly(c)
  BY <1>3, <1>10 DEF SignInRefused
<1>11. ASSUME SignInHangs(c) PROVE Orderly(c)
  <2>1. LoginFails(c) \/ \E call \in {"reenter", "abandon"} : Move(c, <<"throttle", call>>)
    BY <1>11 DEF SignInHangs
  <2> QED
    BY <1>3, <2>1 DEF Orderly, Later, Logins
<1> QED
  BY <1>5, <1>6, <1>7, <1>8, <1>9, <1>10, <1>11 DEF Login, Idle

LEMMA OrderlyConnect ==
  ASSUME NEW c \in Everyone, AtTypes, BootFirst, Connect(c), ~Settle(c)
  PROVE  Orderly(c) /\ at[c] # Idle
<1> USE DEF AtTypes, Move, Keep, At
<1>1. UNCHANGED <<provider, loggedIn>>
  BY Zenon DEF Connect, List, Regions, StoreRegions, PickLocation, PickWord, Register, Dial,
    PollState, PollIP, PollMonitor, PollTrace, AskOnce, Deadline, Leak, Drop, world, process
<1>2. UNCHANGED booted
  BY Zenon DEF Connect, List, ReadCache, Regions, Fetch, StoreRegions, Store, PickLocation,
    PickWord, Pick, Register, Dial, PollState, PollIP, PollMonitor, PollTrace, AskOnce,
    Deadline, Win, Lose, Leak, Drop, vars
<1>3. at[c][1] \in {"list", "act", "listed", "poll", "ip", "won"}
  BY Zenon DEF Connect, List, Regions, StoreRegions, PickLocation, PickWord, Register, Dial,
    PollState, PollIP, PollMonitor, PollTrace, AskOnce, Deadline, Leak, Drop
<1>4. at[c][1] \in {"listed", "poll", "ip", "won"} => at[c][2] \in {"regions", "dial"}
  BY DEF Positions, Recovery, Guarded, Logins, Idle, Again
<1>5. Monitored /\ (at[c][1] = "list" \/ at[c][2] \in {"regions", "dial"}) => loggedIn
  BY DEF BootFirst, Flagged
<1> USE <1>1, <1>2, <1>3
<1>6. ASSUME GiveUp(c) PROVE Orderly(c)
  BY <1>6, OrderlyGiveUp
<1>7. ASSUME NEW call \in {"regions", "dial"}, Move(c, Begin(call)),
             at[c][1] \in {"list", "listed"}
      PROVE  Orderly(c)
  BY <1>4, <1>5, <1>7 DEF Begin, Orderly, Later, Logins
<1>8. ASSUME NEW s \in {"listed", "poll", "ip", "won"}, Keep(c, s) PROVE Orderly(c)
  BY <1>5, <1>8 DEF Orderly
<1>9. ASSUME Win(c), at[c][1] \in {"poll", "ip"} PROVE Orderly(c)
  BY <1>4, <1>5, <1>9 DEF Win, Orderly, Later, Logins
<1>10. ASSUME UNCHANGED at PROVE Orderly(c)
  BY <1>4, <1>5, <1>10 DEF Orderly, BootFirst, Flagged, Later, Logins
<1>10a. ASSUME NEW to \in {<<"listed", "regions">>, <<"poll", "dial">>}, Move(c, to),
              at[c][1] \in {"list", "listed"}
       PROVE  Orderly(c)
  BY <1>4, <1>5, <1>10a DEF Orderly, Later, Logins
<1>11. ASSUME List(c) PROVE Orderly(c)
  BY <1>7, <1>11, <1>10a DEF List
<1>12. ASSUME PickLocation(c) PROVE Orderly(c)
  BY <1>6, <1>7, <1>12 DEF PickLocation
<1>12a. ASSUME PickWord(c) PROVE Orderly(c)
  BY <1>10a, <1>12a DEF PickWord
<1>13. ASSUME Regions(c) \/ Dial(c) \/ PollState(c) PROVE Orderly(c)
  BY <1>8, <1>13 DEF Regions, Dial, PollState
<1>14. ASSUME StoreRegions(c) PROVE Orderly(c)
  BY <1>10, <1>14 DEF StoreRegions
<1>15. ASSUME Register(c) PROVE Orderly(c)
  <2>1. UNCHANGED at \/ GiveUp(c)
    BY <1>15, Zenon DEF Register, Lose
  <2> QED
    BY <1>6, <1>10, <2>1
<1>16. ASSUME PollIP(c) \/ PollMonitor(c) \/ PollTrace(c) \/ AskOnce(c) \/ Deadline(c)
       PROVE  Orderly(c)
  <2>1. Win(c) \/ GiveUp(c) \/ Keep(c, "poll")
    BY <1>16, Zenon DEF PollIP, PollMonitor, PollTrace, AskOnce, Deadline, Lose
  <2>2. at[c][1] \in {"poll", "ip"}
    BY <1>16, Zenon DEF PollIP, PollMonitor, PollTrace, AskOnce, Deadline
  <2> QED
    BY <1>6, <1>8, <1>9, <2>1, <2>2
<1>17. ASSUME Leak(c) PROVE Orderly(c)
  BY <1>17 DEF Leak, Orderly, Later, Logins
<1>18. ASSUME Drop(c) PROVE Orderly(c)
  BY <1>6, <1>18 DEF Drop, Orderly, Again, Later, Logins
<1> QED
  BY <1>3, <1>11, <1>12, <1>13, <1>14, <1>15, <1>16, <1>17, <1>18, <1>12a DEF Connect, Idle

LEMMA BootFirstInvariant == DaemonSpec => []BootFirst
<1>1. DaemonInit => BootFirst
  BY BootAssumption DEF DaemonInit, Init, BootFirst, Flagged, Everyone, Idle, Later, Logins
<1>2. AtTypes /\ OutsideTypes /\ BootFirst /\ [DaemonNext]_dvars => BootFirst'
  <2> SUFFICES ASSUME AtTypes, OutsideTypes, BootFirst, [DaemonNext]_dvars PROVE BootFirst'
    OBVIOUS
  <2> USE DEF AtTypes, Move
  <2>1. ASSUME NEW c \in Everyone, Work(c), ~Settle(c) PROVE BootFirst'
    BY <2>1, OrderlyRecover, OrderlyLogin, OrderlyConnect, OrderlyStep DEF Work, OutsideTypes
  <2>2. ASSUME NEW c \in Everyone, Settle(c) PROVE BootFirst'
    <3>1. /\ at[c] # Idle /\ at' = [at EXCEPT ![c] = Idle] /\ booted' = TRUE
          /\ UNCHANGED <<loggedIn, link>> /\ Monitored' = Monitored
      BY <2>2 DEF Settle, Idle, process, outside, world, Monitored
    <3>2. at[c][2] = "dial"
      BY <2>2 DEF Settle, Positions, Recovery, Guarded, Logins, Idle, Again
    <3>3. at'[Boot] = Idle
      BY <3>1 DEF BootFirst, Everyone
    <3>4. ASSUME Monitored PROVE Flagged'
      BY <3>1, <3>2, <3>3, <3>4 DEF BootFirst, Flagged, Idle, Later, Logins
    <3>5. ASSUME ~Monitored, NEW d \in Everyone PROVE at'[d][1] # "setprotocol"
      BY <3>1, <3>5 DEF BootFirst, Idle
    <3> QED
      BY <3>1, <3>3, <3>4, <3>5 DEF BootFirst
  <2>3. ASSUME NEW c \in Everyone, CheckSession(c) PROVE BootFirst'
    <3>1. /\ UNCHANGED <<booted, loggedIn, link>> /\ Monitored' = Monitored
          /\ at' = [at EXCEPT ![c] = IF LoggedIn THEN <<"list", "none">>
                                              ELSE <<"start", "account">>]
          /\ booted <=> c # Boot
      BY <2>3 DEF CheckSession, vars, process, outside, world, Monitored
    <3>2. ASSUME Monitored PROVE LoggedIn = loggedIn
      BY <3>2, DaemonAssumption DEF LoggedIn, Monitored, OutsideTypes
    <3>3. ASSUME Monitored PROVE Flagged'
      <4>1. c = Boot \/ loggedIn
        BY <3>1, <3>3 DEF BootFirst, Flagged, Everyone
      <4>2. CASE loggedIn
        BY <3>1, <3>2, <3>3, <4>2 DEF BootFirst, Flagged, Later, Logins, Everyone
      <4>3. CASE c = Boot /\ ~loggedIn
        BY <3>1, <3>2, <3>3, <4>3, BootAssumption
          DEF BootFirst, Flagged, Later, Logins, Everyone
      <4> QED
        BY <4>1, <4>2, <4>3
    <3>5. ASSUME ~Monitored, NEW d \in Everyone PROVE at'[d][1] # "setprotocol"
      BY <3>1, <3>5 DEF BootFirst
    <3>4. (~booted' => \A d \in Callers : at'[d] = Idle) /\ (booted' => at'[Boot] = Idle)
      BY <3>1, BootAssumption DEF BootFirst, Everyone
    <3> QED
      BY <3>1, <3>3, <3>4, <3>5 DEF BootFirst
  <2>4. ASSUME NEW c \in Everyone, Rotate(c) PROVE BootFirst'
    <3>1. /\ UNCHANGED <<booted, loggedIn, link>> /\ Monitored' = Monitored
          /\ at' = [at EXCEPT ![c] = <<"act", "rotate">>]
          /\ booted /\ c \in Callers
      BY <2>4, DaemonAssumption DEF Rotate, vars, process, outside, world, Monitored
    <3> QED
      BY <3>1, BootAssumption DEF BootFirst, Flagged, Later, Logins, Everyone
  <2>5. ASSUME UNCHANGED <<booted, at, loggedIn>>, Monitored' = Monitored,
               link = "down" => link' = "down"
        PROVE  BootFirst'
    BY <2>5 DEF BootFirst, Flagged
  <2>6. CASE Environment
    <3>1. UNCHANGED <<booted, at, loggedIn, provider>>
      BY <2>6, Zenon DEF Environment, Deliver, StreamEnds, Respawn, MonitorGivenUp, Wedge,
        DaemonStarts, CatalogLoads, SessionLost, LinkUp, LinkLost, OutageEnds,
        CatalogExpires, Expire, ThrottlePasses, CooldownEnds, vars, process, world
    <3>2. LinkUp \/ LinkLost \/ UNCHANGED link
      BY <2>6, Zenon DEF Environment, Deliver, StreamEnds, Respawn, MonitorGivenUp, Wedge,
        DaemonStarts, CatalogLoads, SessionLost, OutageEnds, CatalogExpires,
        ThrottlePasses, CooldownEnds, outside
    <3>3. link = "down" => link' = "down"
      BY <3>2 DEF LinkUp, LinkLost
    <3> QED
      BY <2>5, <3>1, <3>3 DEF Monitored
  <2>7. CASE UNCHANGED dvars
    BY <2>5, <2>7 DEF dvars, vars, outside, process, world, Monitored
  <2> QED
    BY <2>1, <2>2, <2>3, <2>4, <2>6, <2>7 DEF DaemonNext
<1> QED
  BY <1>1, <1>2, AtInvariant, OutsideInvariant, PTL DEF DaemonSpec

\* PIA's transport is set on a disconnected daemon only (pia.go:117-124), though
\* the state is read one command earlier.
THEOREM ProtocolSafe == DaemonSpec => []ProtocolSetWhenIdle
<1>1. AtTypes /\ BootFirst => ProtocolSetWhenIdle
  <2> SUFFICES ASSUME AtTypes, BootFirst, NEW c \in Everyone, at[c][1] = "setprotocol"
               PROVE  link = "down"
    BY DEF ProtocolSetWhenIdle
  <2>1. at[c][2] \in Logins
    BY DEF AtTypes, Positions, Recovery, Guarded, Logins, Idle, Again
  <2>2. Flagged
    BY DEF BootFirst
  <2>3. c = Boot
    BY <2>1, <2>2 DEF Flagged, Later, Everyone
  <2> QED
    BY <2>2, <2>3 DEF Flagged
<1> QED
  BY <1>1, AtInvariant, BootFirstInvariant, PTL

-----------------------------------------------------------------------------
\* Why a success is a tunnel: who polls has been shown it if it is up, who has
\* seen Connected was shown it, and only they get as far as reporting it.
Polling == {"poll", "ip"}

Honest ==
  ~Monitored =>
    \A c \in Everyone :
      /\ at[c][1] \in Polling /\ link = "up" => c \in witnessed
      /\ at[c][1] \in {"ip", "won"} => c \in witnessed
      /\ c \in saw => c \in witnessed /\ at[c][1] \in Polling

\* A caller's step away from the poll.
Away(c) ==
  /\ at[c][1] \notin Polling
  /\ \A d \in Everyone \ {c} : at'[d] = at[d]
  /\ at'[c][1] \notin Polling \cup {"won"}
  /\ link' = "up" => link = "up"
  /\ UNCHANGED provider
  /\ saw' = saw
  /\ \A d \in Everyone \ {c} : d \in witnessed => d \in witnessed'

LEMMA HonestAway ==
  ASSUME NEW c \in Everyone, Honest, Away(c) PROVE Honest'
BY DEF Honest, Away, Monitored, Polling

LEMMA GiveUpAway ==
  ASSUME NEW c \in Everyone, AtTypes, GiveUp(c)
  PROVE  /\ \A d \in Everyone \ {c} : at'[d] = at[d]
         /\ at'[c][1] \notin Polling \cup {"won"}
BY DEF GiveUp, Move, AtTypes, Idle, Again, Polling

LEMMA WorkAway ==
  ASSUME NEW c \in Everyone, AtTypes, Recover(c) \/ Login(c) PROVE Away(c)
<1> USE DEF AtTypes, Move, Keep, At
<1>1. UNCHANGED <<provider, saw, witnessed>>
  BY Zenon DEF Recover, Login, Probe, Throttle, Swap, Restart, RestartFails, AwaitEnds,
    LoginStarts, EnsureProtocol, SetProtocol, CheckAccount, SignIn, SignInRefused,
    SignInHangs, polls, world
<1>2. link' \in {link, "down"}
  BY Zenon DEF Recover, Login, Probe, Throttle, Swap, Restart, RestartFails, AwaitEnds,
    LoginStarts, EnsureProtocol, SetProtocol, CheckAccount, SignIn, SignInRefused,
    SignInHangs, outside
<1>3. at[c][1] \notin Polling
  BY DEF Recover, Login, Probe, Throttle, Swap, Restart, RestartFails, AwaitEnds,
    LoginStarts, EnsureProtocol, SetProtocol, CheckAccount, SignIn, SignInRefused,
    SignInHangs, Polling
<1>4. \/ GiveUp(c)
      \/ \E s \in Recovery \cup {"act", "check", "setprotocol", "signin"} : Keep(c, s)
      \/ Move(c, Idle) \/ Move(c, <<"list", "none">>) \/ Move(c, <<"start", "enter">>)
      \/ Move(c, Begin(at[c][2]))
      \/ \E call \in {"reenter", "abandon"} : Move(c, <<"throttle", call>>)
  <2>1. ASSUME Recover(c)
        PROVE  \/ GiveUp(c)
               \/ \E s \in Recovery \cup {"act"} : Keep(c, s)
               \/ Move(c, <<"start", "enter">>)
    BY <2>1 DEF Recover, Probe, Throttle, Swap, Restart, RestartFails, AwaitEnds, GoOn,
      Resume, Recovery
  <2>2. ASSUME LoginFails(c) \/ LoginSucceeds(c)
        PROVE  \/ GiveUp(c) \/ Move(c, Idle) \/ Move(c, <<"list", "none">>)
               \/ Move(c, <<"start", "enter">>)
    BY <2>2 DEF LoginFails, LoginSucceeds
  <2>3. ASSUME Login(c)
        PROVE  \/ LoginFails(c) \/ LoginSucceeds(c)
               \/ \E s \in {"check", "setprotocol", "signin"} : Keep(c, s)
               \/ Move(c, Begin(at[c][2]))
               \/ \E call \in {"reenter", "abandon"} : Move(c, <<"throttle", call>>)
    BY <2>3 DEF Login, LoginStarts, EnsureProtocol, SetProtocol, CheckAccount, SignIn,
      SignInRefused, SignInHangs
  <2> QED
    BY <2>1, <2>2, <2>3
<1>5. /\ \A d \in Everyone \ {c} : at'[d] = at[d]
      /\ at'[c][1] \notin Polling \cup {"won"}
  BY <1>4, GiveUpAway DEF Begin, Idle, Recovery, Polling
<1> QED
  BY <1>1, <1>2, <1>3, <1>5 DEF Away

LEMMA HonestConnect ==
  ASSUME NEW c \in Everyone, AtTypes, Honest, provider \in Fleet, InsideTypes, Connect(c)
  PROVE  Honest'
<1> USE DEF AtTypes, Move, Keep, At
<1>1. UNCHANGED provider
  BY Zenon DEF Connect, List, Regions, StoreRegions, PickLocation, PickWord, Register, Dial,
    PollState, PollIP, PollMonitor, PollTrace, AskOnce, Deadline, Settle, Leak, Drop, world
<1> USE <1>1
<1>2. ASSUME Win(c), UNCHANGED link, at[c][1] \in Polling,
             ~Monitored => c \in witnessed
      PROVE  Honest'
  BY <1>2 DEF Win, Honest, Monitored, Polling
<1>3. ASSUME Lose(c), UNCHANGED link
      PROVE  Honest'
  BY <1>3, GiveUpAway DEF Lose, Honest, Monitored, Polling
<1>4. ASSUME List(c) \/ Regions(c) \/ PickLocation(c) PROVE Honest'
  <2>1. UNCHANGED <<link, saw, witnessed>>
    BY <1>4, Zenon DEF List, Regions, PickLocation, outside, polls
  <2>2. at[c][1] \in {"list", "act", "listed"}
    BY <1>4, Zenon DEF List, Regions, PickLocation
  <2>3. \/ GiveUp(c) \/ Keep(c, "listed") \/ Move(c, <<"listed", "regions">>)
        \/ \E call \in Guarded : Move(c, Begin(call))
    BY <1>4 DEF List, Regions, PickLocation, Guarded
  <2>4. /\ \A d \in Everyone \ {c} : at'[d] = at[d]
        /\ at'[c][1] \notin Polling \cup {"won"}
    BY <2>3, GiveUpAway DEF Begin, Polling
  <2> QED
    BY <2>1, <2>2, <2>4, HonestAway DEF Away, Polling
<1>5. ASSUME StoreRegions(c) PROVE Honest'
  BY <1>5 DEF StoreRegions, outside, polls, Honest, Monitored
<1>6. ASSUME Register(c) PROVE Honest'
  <2>1. UNCHANGED link /\ (Lose(c) \/ UNCHANGED <<at, polls>>)
    BY <1>6, Zenon DEF Register
  <2> QED
    BY <1>3, <2>1 DEF polls, Honest, Monitored
<1>7. ASSUME Dial(c) PROVE Honest'
  <2>1. /\ at' = [at EXCEPT ![c] = <<"poll", at[c][2]>>] /\ saw' = saw
        /\ at[c][1] = "act" /\ (link' = "up" => link = "up")
        /\ witnessed' = IF link' = "up" /\ ~Monitored THEN witnessed \cup {c} ELSE witnessed
    BY <1>7 DEF Dial
  <2> QED
    BY <2>1 DEF Honest, Monitored, Polling
<1>8. ASSUME PollState(c) PROVE Honest'
  <2>1. /\ at' = [at EXCEPT ![c] = <<"ip", at[c][2]>>]
        /\ at[c][1] = "poll" /\ link = "up" /\ UNCHANGED <<link, witnessed>>
        /\ saw' = IF Monitored THEN saw ELSE saw \cup {c}
    BY <1>8 DEF PollState, outside
  <2> QED
    BY <2>1 DEF Honest, Monitored, Polling
<1>9. ASSUME PollIP(c) PROVE Honest'
  <2>1. at[c][1] = "ip" /\ UNCHANGED link
    BY <1>9, Zenon DEF PollIP, outside
  <2>2. Win(c) \/ (Keep(c, "poll") /\ UNCHANGED polls)
    BY <1>9, Zenon DEF PollIP
  <2>3. ~Monitored => c \in witnessed
    BY <2>1 DEF Honest
  <2> QED
    BY <1>2, <2>1, <2>2, <2>3 DEF polls, Honest, Monitored, Polling
<1>10. ASSUME PollMonitor(c) \/ PollTrace(c) PROVE Honest'
  <2>1. Win(c) /\ at[c][1] = "poll" /\ UNCHANGED link /\ (Monitored \/ link = "up")
    BY <1>10, Zenon DEF PollMonitor, PollTrace, outside
  <2> QED
    BY <1>2, <2>1 DEF Honest, Polling
<1>11. ASSUME AskOnce(c) PROVE Honest'
  <2>1. /\ at[c][1] = "poll" /\ UNCHANGED link
        /\ (Win(c) /\ link = "up") \/ Lose(c)
    BY <1>11, Zenon DEF AskOnce, outside
  <2> QED
    BY <1>2, <1>3, <2>1 DEF Honest, Polling
<1>12. ASSUME Deadline(c) PROVE Honest'
  <2>1. /\ at[c][1] = "poll" /\ UNCHANGED link
        /\ (Win(c) /\ LastWord(c)) \/ Lose(c)
    BY <1>12, Zenon DEF Deadline, outside
  <2>2. LastWord(c) /\ ~Monitored => c \in saw
    BY DEF LastWord
  <2> QED
    BY <1>2, <1>3, <2>1, <2>2 DEF Honest, Polling
<1>13. ASSUME Settle(c) \/ Leak(c) PROVE Honest'
  <2>1. /\ at[c][1] = "won" /\ UNCHANGED <<link, saw>> /\ witnessed' = witnessed \ {c}
        /\ \E to \in {Idle, <<"act", "drop">>} : Move(c, to)
    BY <1>13 DEF Settle, Leak, outside
  <2>2. \A d \in Everyone \ {c} : d \in witnessed => d \in witnessed'
    BY <2>1
  <2> QED
    BY <2>1, <2>2, HonestAway DEF Away, Polling, Idle
<1>14. ASSUME Drop(c) PROVE Honest'
  <2>1. at[c][1] = "act" /\ UNCHANGED polls
    BY <1>14, Zenon DEF Drop
  <2>2. GiveUp(c) \/ Move(c, Again)
    BY <1>14, Zenon DEF Drop
  <2>3. link' \in {link, "down"}
    BY <1>14, Zenon DEF Drop
  <2> QED
    BY <2>1, <2>2, <2>3, GiveUpAway, HonestAway DEF Away, polls, Again, Polling
<1>15. ASSUME PickWord(c) PROVE Honest'
  <2>1. /\ at' = [at EXCEPT ![c] = <<"poll", "dial">>] /\ saw' = saw
        /\ at[c][1] = "listed" /\ UNCHANGED link
        /\ witnessed' = IF link = "up" THEN witnessed \cup {c} ELSE witnessed
    BY <1>15 DEF PickWord, outside
  <2> QED
    BY <2>1 DEF Honest, Monitored, Polling
<1> QED
  BY <1>4, <1>5, <1>6, <1>7, <1>8, <1>9, <1>10, <1>11, <1>12, <1>13, <1>14, <1>15 DEF Connect

LEMMA HonestInvariant == DaemonSpec => []Honest
<1>1. DaemonInit => Honest
  BY DEF DaemonInit, Honest, Idle, Polling
<1>2. AtTypes /\ OutsideTypes /\ InsideTypes /\ Honest /\ [DaemonNext]_dvars => Honest'
  <2> SUFFICES ASSUME AtTypes, OutsideTypes, InsideTypes, Honest, [DaemonNext]_dvars
               PROVE  Honest'
    OBVIOUS
  <2>1. ASSUME NEW c \in Everyone, Work(c) PROVE Honest'
    BY <2>1, WorkAway, HonestAway, HonestConnect DEF Work, OutsideTypes
  <2>2. ASSUME NEW c \in Everyone, CheckSession(c) \/ Rotate(c) PROVE Honest'
    <3>1. /\ UNCHANGED <<link, saw, witnessed, provider>>
          /\ at[c] \in {Idle, Again}
          /\ \E to \in {<<"list", "none">>, <<"start", "account">>, <<"act", "rotate">>} :
               Move(c, to)
      BY <2>2 DEF CheckSession, Rotate, outside, polls, world
    <3> QED
      BY <3>1, HonestAway DEF Away, AtTypes, Move, Idle, Again, Polling
  <2>3. CASE LinkUp
    BY <2>3 DEF LinkUp, world, Honest, Monitored, Polling
  <2>4. CASE Environment /\ ~LinkUp
    <3>1. UNCHANGED <<at, saw, witnessed, provider>>
      BY <2>4, Zenon DEF Environment, Deliver, StreamEnds, Respawn, MonitorGivenUp, Wedge,
        DaemonStarts, CatalogLoads, SessionLost, LinkLost, OutageEnds,
        CatalogExpires, ThrottlePasses, CooldownEnds, polls, world
    <3>2. LinkLost \/ UNCHANGED link
      BY <2>4, Zenon DEF Environment, Deliver, StreamEnds, Respawn, MonitorGivenUp, Wedge,
        DaemonStarts, CatalogLoads, SessionLost, OutageEnds, CatalogExpires,
        ThrottlePasses, CooldownEnds, outside
    <3>3. link' = "up" => link = "up"
      BY <3>2 DEF LinkLost
    <3> QED
      BY <3>1, <3>3 DEF Honest, Monitored
  <2>5. CASE UNCHANGED dvars
    BY <2>5 DEF dvars, outside, polls, world, Honest, Monitored
  <2> QED
    BY <2>1, <2>2, <2>3, <2>4, <2>5 DEF DaemonNext
<1> QED
  BY <1>1, <1>2, AtInvariant, OutsideInvariant, InsideInvariant, PTL DEF DaemonSpec

\* A Connect that reports a tunnel was over one while it polled: trusting a
\* Connected seen earlier (expressvpn.go:173-185) invents none.
THEOREM SuccessReal == DaemonSpec => []SuccessWitnessed
<1>1. Honest => SuccessWitnessed
  BY DEF Honest, SuccessWitnessed
<1> QED
  BY <1>1, HonestInvariant, PTL

-----------------------------------------------------------------------------
\* Why the silence of a daemon costs no catalog where the provider tells an
\* error from an answer: only what Locations has answered is on its way into
\* the cache, and it answers regions or nothing.
Sound == \A c \in Everyone : pc[c] = "store" => got[c] \in Regional

\* Who may disturb it: Locations alone.
LEMMA CacheSteps ==
  ASSUME [DaemonNext]_dvars
  PROVE  \/ UNCHANGED vars \/ Expire
         \/ \E c \in Everyone : \/ ReadCache(c) \/ Store(c) \/ Pick(c) \/ Finish(c)
                               \/ \E a \in Offer : Fetch(c, a)
<1>1. ASSUME NEW c \in Everyone, Recover(c) \/ Login(c) \/ CheckSession(c) \/ Rotate(c)
      PROVE  UNCHANGED vars
  BY <1>1, Zenon DEF Recover, Login, Probe, Throttle, Swap, Restart, RestartFails, AwaitEnds,
    LoginStarts, EnsureProtocol, SetProtocol, CheckAccount, SignIn, SignInRefused,
    SignInHangs, CheckSession, Rotate
<1>2. ASSUME NEW c \in Everyone, Connect(c)
      PROVE  \/ UNCHANGED vars \/ ReadCache(c) \/ Store(c) \/ Pick(c) \/ Finish(c)
             \/ \E a \in Offer : Fetch(c, a)
  BY <1>2, Zenon DEF Connect, List, Regions, StoreRegions, PickLocation, PickWord, Register,
    Dial, PollState, PollIP, PollMonitor, PollTrace, AskOnce, Deadline, Win, Lose, Settle,
    Leak, Drop
<1>3. CASE Environment
  BY <1>3, Zenon DEF Environment, Deliver, StreamEnds, Respawn, MonitorGivenUp, Wedge,
    DaemonStarts, CatalogLoads, SessionLost, LinkUp, LinkLost, OutageEnds, CatalogExpires,
    ThrottlePasses, CooldownEnds
<1>4. CASE UNCHANGED dvars
  BY <1>4 DEF dvars
<1> QED
  BY <1>1, <1>2, <1>3, <1>4 DEF DaemonNext, Work

LEMMA ProviderKept ==
  ASSUME [DaemonNext]_dvars PROVE UNCHANGED provider
<1>1. ASSUME NEW c \in Everyone, Recover(c) \/ Login(c) \/ CheckSession(c) \/ Rotate(c)
      PROVE  UNCHANGED provider
  BY <1>1, Zenon DEF Recover, Login, Probe, Throttle, Swap, Restart, RestartFails, AwaitEnds,
    LoginStarts, EnsureProtocol, SetProtocol, CheckAccount, SignIn, SignInRefused,
    SignInHangs, CheckSession, Rotate, world
<1>2. ASSUME NEW c \in Everyone, Connect(c) PROVE UNCHANGED provider
  BY <1>2, Zenon DEF Connect, List, Regions, StoreRegions, PickLocation, PickWord, Register,
    Dial, PollState, PollIP, PollMonitor, PollTrace, AskOnce, Deadline, Settle, Leak, Drop,
    world
<1>3. CASE Environment
  BY <1>3, Zenon DEF Environment, Deliver, StreamEnds, Respawn, MonitorGivenUp, Wedge,
    DaemonStarts, CatalogLoads, SessionLost, LinkUp, LinkLost, OutageEnds, CatalogExpires,
    ThrottlePasses, CooldownEnds, world
<1>4. CASE UNCHANGED dvars
  BY <1>4 DEF dvars, world
<1> QED
  BY <1>1, <1>2, <1>3, <1>4 DEF DaemonNext, Work

LEMMA SoundInvariant == DaemonSpec => [](provider.catalog # "daemon" => Sound)
<1>1. DaemonInit => Sound
  BY DEF DaemonInit, Init, Sound
<1>2. ASSUME TypeOK, OutsideTypes, provider.catalog # "daemon", Sound, [DaemonNext]_dvars
      PROVE  Sound'
  <2> USE DEF Sound, TypeOK, Goto
  <2>1. CASE UNCHANGED vars \/ Expire
    BY <1>2, <2>1 DEF vars, Expire
  <2>2. ASSUME NEW c \in Everyone, ReadCache(c) \/ Store(c) \/ Pick(c) \/ Finish(c)
        PROVE  Sound'
    BY <1>2, <2>2 DEF ReadCache, Store, Pick, Finish
  <2>3. ASSUME NEW c \in Everyone, NEW a \in Offer, Fetch(c, a) PROVE Sound'
    <3>1. a \in Regional \cup {Empty}
      BY <1>2, <2>3, DaemonAssumption DEF Offer, LoadedCatalog, OutsideTypes, Switches
    <3> QED
      BY <1>2, <2>3, <3>1 DEF Fetch
  <2> QED
    BY <1>2, <2>1, <2>2, <2>3, CacheSteps
<1>3. /\ TypeOK /\ OutsideTypes /\ (provider.catalog # "daemon" => Sound)
      /\ [DaemonNext]_dvars
      => (provider.catalog # "daemon" => Sound)'
  BY <1>2, ProviderKept
<1> QED
  BY <1>1, <1>3, DaemonImplementsCache, TypeCorrect, OutsideInvariant, PTL DEF DaemonSpec

\* A daemon that goes silent costs the pod no catalog (locations_cache.go:34-37)
\* where the provider tells an error from an answer (expressvpn.go:56-69, 258-279).
THEOREM DaemonKeepsGoodCatalog == DaemonSpec => GoodCatalogKept
<1>1. ASSUME TypeOK, provider.catalog # "daemon" => Sound, [DaemonNext]_dvars,
             provider.catalog # "daemon", cached \in Regional
      PROVE  cached' \in Regional
  <2>1. ASSUME NEW c \in Everyone, Store(c) PROVE cached' \in Regional
    BY <1>1, <2>1 DEF Store, Goto, Sound
  <2>2. \/ UNCHANGED cached
        \/ \E c \in Everyone : Store(c)
    BY <1>1, CacheSteps DEF vars, Expire, ReadCache, Pick, Finish, Fetch
  <2> QED
    BY <1>1, <2>1, <2>2
<1>2. /\ TypeOK /\ (provider.catalog # "daemon" => Sound) /\ [DaemonNext]_dvars
      => [provider.catalog # "daemon" =>
            ((cached \in Regional) => (cached' \in Regional))]_dvars
  BY <1>1
<1> QED
  BY <1>2, SoundInvariant, DaemonImplementsCache, TypeCorrect, PTL
    DEF DaemonSpec, GoodCatalogKept
=============================================================================
