-------------------------- MODULE DirectTunnelProofs --------------------------
(***************************************************************************)
(* What the calls of DirectTunnel leave behind, for every fleet of         *)
(* providers, any number of openvpn processes and any locations.           *)
(***************************************************************************)
EXTENDS DirectTunnel, TLAPS

\* A Connect under way knows its location, and after the config file is
\* written that is where the file leads.
Chosen ==
  /\ pc[Driver] \in ConnectLabels => loc \in Locations
  /\ pc[Driver] \in {"nest", "spawn", "poll", "cleanup", "up"} => config = loc

TypeInv == TypeOK /\ Chosen

\* OpenVPN and WireGuard providers keep to their own devices and steps.
Kinds ==
  /\ WireGuard => ~rule /\ \A d \in Daemons : phase[d] = "none"
  /\ ~WireGuard => wg0 = Down
  /\ pc[Driver] \in {"nest", "spawn", "poll", "kill"} => ~WireGuard
  /\ pc[Driver] \in {"cleanup", "up"} => WireGuard

\* A Connect that began with no openvpn about has started all there are.
Own ==
  clean =>
    /\ pc[Driver] \in {"load", "write", "nest", "spawn"} =>
         \A d \in Daemons : phase[d] = "none"
    /\ pc[Driver] = "poll" => \A d \in Daemons : at[d] \in {loc, Down}

\* Only an exit path cancels; then nobody starts openvpn, and it tells all.
Told ==
  cancelled =>
    /\ pc[Exiter] # "idle"
    /\ pc[Exiter] \in {"await", "clear", "clear2", "exit"} => Untold = {}

\* What a Disconnect of the driver has done when it gets to a label.
Released ==
  ~cancelled =>
    /\ pc[Driver] \in {"await", "clear", "clear2", "released"} =>
         Untold = {} /\ wg0 = Down
    /\ pc[Driver] \in {"clear", "clear2", "released"} => ~rule
    /\ pc[Driver] \in {"clear2", "released"} => server = Down
    /\ pc[Driver] = "released" => active = Down

IInv == Kinds /\ Own /\ Told /\ Released /\ StaleLinkCleared

\* The variables of DirectTunnel keep their types, an openvpn process has a
\* location and tun0 an owner that has connected.
THEOREM TypeInvariant == Spec => []TypeInv
<1>1. Init => TypeInv
  BY DirectAssumption DEF Init, TypeInv, TypeOK, Chosen, Callers, Labels, Rest,
     ConnectLabels, DisconnectLabels, Phases
<1>2. TypeInv /\ [Next]_vars => TypeInv'
  <2> SUFFICES ASSUME TypeInv, [Next]_vars
               PROVE  TypeInv'
    OBVIOUS
  <2> USE DirectAssumption
      DEF TypeInv, TypeOK, Chosen, Goto, world, call, book, kernel, daemons,
          Callers, Labels, Rest, ConnectLabels, DisconnectLabels, Phases
  <2>1. ASSUME NEW l \in Locations, BeginConnect(l) PROVE TypeInv'
    BY <2>1 DEF BeginConnect
  <2>2. CASE CatalogLoaded
    BY <2>2 DEF CatalogLoaded
  <2>3. CASE CatalogMissing
    BY <2>3 DEF CatalogMissing
  <2>4. CASE TransportMissing
    BY <2>4 DEF TransportMissing
  <2>5. CASE WriteConfig
    BY <2>5 DEF WriteConfig, AfterWrite
  <2>6. CASE SetupNestedRouting
    <3>1. rule' \in BOOLEAN
      BY <2>6 DEF SetupNestedRouting
    <3>2. pc' \in [Callers -> Labels]
      BY <2>6 DEF SetupNestedRouting
    <3>3. pc'[Driver] \in {"spawn", "failed"} /\ pc[Driver] = "nest"
      BY <2>6 DEF SetupNestedRouting
    <3>4. UNCHANGED <<catalog, config, daemons, wg0, book, call, world>>
      BY <2>6 DEF SetupNestedRouting
    <3> QED
      BY <3>1, <3>2, <3>3, <3>4
  <2>7. CASE StartDaemon
    BY <2>7 DEF StartDaemon, FreeDaemons
  <2>8. CASE PollSucceeds
    BY <2>8 DEF PollSucceeds
  <2>9. CASE PollRunsOut
    BY <2>9 DEF PollRunsOut
  <2>10. CASE KillDaemons
    BY <2>10 DEF KillDaemons, TellAll
  <2>11. CASE CleanupStaleWireGuard
    BY <2>11 DEF CleanupStaleWireGuard
  <2>12. CASE WgQuickUp
    BY <2>12 DEF WgQuickUp
  <2>13. CASE MarkServer
    BY <2>13 DEF MarkServer
  <2>14. CASE MarkLocation
    BY <2>14 DEF MarkLocation
  <2>15. CASE Status
    BY <2>15 DEF Status
  <2>16. CASE BeginDisconnect
    BY <2>16 DEF BeginDisconnect
  <2>17. ASSUME NEW c \in Callers, TakeDown(c) PROVE TypeInv'
    BY <2>17 DEF TakeDown, TellAll
  <2>18. ASSUME NEW c \in Callers, TeardownNestedRouting(c) PROVE TypeInv'
    BY <2>18 DEF TeardownNestedRouting
  <2>19. ASSUME NEW c \in Callers, ClearServer(c) PROVE TypeInv'
    BY <2>19 DEF ClearServer, Returned
  <2>20. ASSUME NEW c \in Callers, ClearLocation(c) PROVE TypeInv'
    BY <2>20 DEF ClearLocation, Returned
  <2>21. CASE BeginExit
    BY <2>21 DEF BeginExit
  <2>22. CASE Exit
    <3>1. UNCHANGED <<catalog, config, kernel, book, call, p, outage, cancelled, pc>>
      BY <2>22 DEF Exit
    <3>2. alive' \in BOOLEAN
      BY <2>22 DEF Exit
    <3> QED
      BY <2>22, <3>1, <3>2
  <2>23. CASE Crash
    <3>1. UNCHANGED <<catalog, config, kernel, book, call, p, outage, cancelled, pc>>
      BY <2>23 DEF Crash
    <3>2. alive' \in BOOLEAN
      BY <2>23 DEF Crash
    <3> QED
      BY <2>23, <3>1, <3>2
  <2>24. CASE Respawn
    BY <2>24 DEF Respawn
  <2>25. ASSUME NEW d \in Daemons, DaemonConnects(d) PROVE TypeInv'
    BY <2>25 DEF DaemonConnects
  <2>26. ASSUME NEW d \in Daemons, DaemonGoes(d) PROVE TypeInv'
    BY <2>26 DEF DaemonGoes
  <2>27. CASE CatalogExpires
    BY <2>27 DEF CatalogExpires
  <2>28. CASE OutageEnds
    <3>1. UNCHANGED <<catalog, config, kernel, book, call, p, cancelled, alive, pc>>
      BY <2>28 DEF OutageEnds
    <3>2. outage' \in BOOLEAN
      BY <2>28 DEF OutageEnds
    <3> QED
      BY <2>28, <3>1, <3>2
  <2>29. CASE UNCHANGED vars
    BY <2>29 DEF vars
  <2> QED
    BY <2>1, <2>2, <2>3, <2>4, <2>5, <2>6, <2>7, <2>8, <2>9, <2>10, <2>11, <2>12, <2>13, <2>14, <2>15, <2>16, <2>17, <2>18, <2>19, <2>20, <2>21, <2>22, <2>23, <2>24, <2>25, <2>26, <2>27, <2>28, <2>29
    DEF Next, ConnectStep, DisconnectStep
<1> QED
  BY <1>1, <1>2, PTL DEF Spec

\* The same without the strengthening.
THEOREM TypeCorrect == Spec => []TypeOK
<1>1. TypeInv => TypeOK
  BY DEF TypeInv
<1> QED
  BY <1>1, TypeInvariant, PTL

\* What a call has started, taken down or cleared by the time it gets to a
\* label, with the exit path and the openvpn processes moving beside it.
THEOREM ReleaseInvariant == Spec => []IInv
<1>1. Init => IInv
  BY DirectAssumption DEF Init, IInv, Kinds, Own, Told, Released, StaleLinkCleared,
     Callers, Untold
<1>2. TypeInv /\ IInv /\ [Next]_vars => IInv'
  <2> SUFFICES ASSUME TypeInv, IInv, [Next]_vars
               PROVE  IInv'
    OBVIOUS
  <2> USE DirectAssumption
      DEF TypeInv, TypeOK, Chosen, IInv, Kinds, Own, Told, Released, StaleLinkCleared,
          Goto, world, call, book, kernel, daemons, Callers, Untold, WireGuard, Runs
  <2>1. ASSUME NEW l \in Locations, BeginConnect(l) PROVE IInv'
    BY <2>1 DEF BeginConnect
  <2>2. CASE CatalogLoaded
    BY <2>2 DEF CatalogLoaded
  <2>3. CASE CatalogMissing
    BY <2>3 DEF CatalogMissing
  <2>4. CASE TransportMissing
    BY <2>4 DEF TransportMissing
  <2>5. CASE WriteConfig
    BY <2>5 DEF WriteConfig, AfterWrite
  <2>6. CASE SetupNestedRouting
    BY <2>6 DEF SetupNestedRouting
  <2>7. CASE StartDaemon
    BY <2>7 DEF StartDaemon, FreeDaemons
  <2>8. CASE PollSucceeds
    BY <2>8 DEF PollSucceeds
  <2>9. CASE PollRunsOut
    BY <2>9 DEF PollRunsOut
  <2>10. CASE KillDaemons
    BY <2>10 DEF KillDaemons, TellAll
  <2>11. CASE CleanupStaleWireGuard
    BY <2>11 DEF CleanupStaleWireGuard
  <2>12. CASE WgQuickUp
    BY <2>12 DEF WgQuickUp
  <2>13. CASE MarkServer
    BY <2>13 DEF MarkServer
  <2>14. CASE MarkLocation
    BY <2>14 DEF MarkLocation
  <2>15. CASE Status
    BY <2>15 DEF Status
  <2>16. CASE BeginDisconnect
    BY <2>16 DEF BeginDisconnect
  <2>17. ASSUME NEW c \in Callers, TakeDown(c) PROVE IInv'
    BY <2>17 DEF TakeDown, TellAll
  <2>18. ASSUME NEW c \in Callers, TeardownNestedRouting(c) PROVE IInv'
    BY <2>18 DEF TeardownNestedRouting
  <2>19. ASSUME NEW c \in Callers, ClearServer(c) PROVE IInv'
    BY <2>19 DEF ClearServer, Returned
  <2>20. ASSUME NEW c \in Callers, ClearLocation(c) PROVE IInv'
    BY <2>20 DEF ClearLocation, Returned
  <2>21. CASE BeginExit
    BY <2>21 DEF BeginExit
  <2>22. CASE Exit
    BY <2>22 DEF Exit
  <2>23. CASE Crash
    BY <2>23 DEF Crash
  <2>24. CASE Respawn
    BY <2>24 DEF Respawn
  <2>25. ASSUME NEW d \in Daemons, DaemonConnects(d) PROVE IInv'
    BY <2>25 DEF DaemonConnects
  <2>26. ASSUME NEW d \in Daemons, DaemonGoes(d) PROVE IInv'
    BY <2>26 DEF DaemonGoes
  <2>27. CASE CatalogExpires
    BY <2>27 DEF CatalogExpires
  <2>28. CASE OutageEnds
    BY <2>28 DEF OutageEnds
  <2>29. CASE UNCHANGED vars
    BY <2>29 DEF vars
  <2> QED
    BY <2>1, <2>2, <2>3, <2>4, <2>5, <2>6, <2>7, <2>8, <2>9, <2>10, <2>11, <2>12, <2>13, <2>14, <2>15, <2>16, <2>17, <2>18, <2>19, <2>20, <2>21, <2>22, <2>23, <2>24, <2>25, <2>26, <2>27, <2>28, <2>29
    DEF Next, ConnectStep, DisconnectStep
<1> QED
  BY <1>1, <1>2, TypeInvariant, PTL DEF Spec

\* An exit path that answers SIGTERM leaves no openvpn untold, whatever the
\* driver starts before or meanwhile (shutdown.go:56-75).
THEOREM SigtermLeavesNone == Spec => []SigtermReleases
<1>1. IInv => SigtermReleases
  BY DEF IInv, Told, SigtermReleases
<1> QED
  BY <1>1, ReleaseInvariant, PTL

\* A Disconnect takes down process, interface and rules and clears the
\* bookkeeping, whatever failed or overlapping calls have left.
THEOREM DisconnectComplete == Spec => []DisconnectReleases
<1>1. IInv => DisconnectReleases
  BY DEF IInv, Released, DisconnectReleases
<1> QED
  BY <1>1, ReleaseInvariant, PTL

\* wg-quick never meets an interface left by an earlier process
\* (surfshark.go:276-285).
THEOREM StaleLinksCleared == Spec => []StaleLinkCleared
<1>1. IInv => StaleLinkCleared
  BY DEF IInv
<1> QED
  BY <1>1, ReleaseInvariant, PTL

\* Why a failed Connect of a provider that ends openvpn itself has ended it:
\* before the process is started there is none, past the poll the server is
\* recorded, and nobody but an exit path clears that or cancels the pkill.
Ended ==
  p.kills /\ clean /\ pc[Exiter] = "idle" =>
    /\ ~p.live
    /\ pc[Driver] \in {"mark2", "status"} => server # Down
    /\ pc[Driver] = "failed" => Untold = {}

\* Ended is an invariant.
LEMMA EndedInvariant == Spec => []Ended
<1>1. Init => Ended
  BY DirectAssumption DEF Init, Ended, Switches, Callers
<1>2. TypeInv /\ IInv /\ Ended /\ [Next]_vars => Ended'
  <2> SUFFICES ASSUME TypeInv, IInv, Ended, [Next]_vars
               PROVE  Ended'
    OBVIOUS
  <2> USE DirectAssumption
      DEF TypeInv, TypeOK, Chosen, IInv, Kinds, Own, Told, Ended, ConnectLabels, Goto,
          world, call, book, kernel, daemons, Callers, Untold, WireGuard, Runs
  <2>1. ASSUME NEW l \in Locations, BeginConnect(l) PROVE Ended'
    BY <2>1 DEF BeginConnect
  <2>2. CASE CatalogLoaded
    BY <2>2 DEF CatalogLoaded
  <2>3. CASE CatalogMissing
    BY <2>3 DEF CatalogMissing
  <2>4. CASE TransportMissing
    BY <2>4 DEF TransportMissing
  <2>5. CASE WriteConfig
    BY <2>5 DEF WriteConfig, AfterWrite
  <2>6. CASE SetupNestedRouting
    BY <2>6 DEF SetupNestedRouting
  <2>7. CASE StartDaemon
    BY <2>7 DEF StartDaemon, FreeDaemons
  <2>8. CASE PollSucceeds
    BY <2>8 DEF PollSucceeds
  <2>9. CASE PollRunsOut
    BY <2>9 DEF PollRunsOut
  <2>10. CASE KillDaemons
    BY <2>10 DEF KillDaemons, TellAll
  <2>11. CASE CleanupStaleWireGuard
    BY <2>11 DEF CleanupStaleWireGuard
  <2>12. CASE WgQuickUp
    BY <2>12 DEF WgQuickUp
  <2>13. CASE MarkServer
    BY <2>13 DEF MarkServer
  <2>14. CASE MarkLocation
    BY <2>14 DEF MarkLocation
  <2>15. CASE Status
    BY <2>15 DEF Status
  <2>16. CASE BeginDisconnect
    BY <2>16 DEF BeginDisconnect
  <2>17. ASSUME NEW c \in Callers, TakeDown(c) PROVE Ended'
    BY <2>17 DEF TakeDown, TellAll
  <2>18. ASSUME NEW c \in Callers, TeardownNestedRouting(c) PROVE Ended'
    BY <2>18 DEF TeardownNestedRouting
  <2>19. ASSUME NEW c \in Callers, ClearServer(c) PROVE Ended'
    BY <2>19 DEF ClearServer, Returned
  <2>20. ASSUME NEW c \in Callers, ClearLocation(c) PROVE Ended'
    BY <2>20 DEF ClearLocation, Returned
  <2>21. CASE BeginExit
    BY <2>21 DEF BeginExit
  <2>22. CASE Exit
    BY <2>22 DEF Exit
  <2>23. CASE Crash
    BY <2>23 DEF Crash
  <2>24. CASE Respawn
    BY <2>24 DEF Respawn
  <2>25. ASSUME NEW d \in Daemons, DaemonConnects(d) PROVE Ended'
    BY <2>25 DEF DaemonConnects
  <2>26. ASSUME NEW d \in Daemons, DaemonGoes(d) PROVE Ended'
    BY <2>26 DEF DaemonGoes
  <2>27. CASE CatalogExpires
    BY <2>27 DEF CatalogExpires
  <2>28. CASE OutageEnds
    BY <2>28 DEF OutageEnds
  <2>29. CASE UNCHANGED vars
    BY <2>29 DEF vars
  <2> QED
    BY <2>1, <2>2, <2>3, <2>4, <2>5, <2>6, <2>7, <2>8, <2>9, <2>10, <2>11, <2>12, <2>13, <2>14, <2>15, <2>16, <2>17, <2>18, <2>19, <2>20, <2>21, <2>22, <2>23, <2>24, <2>25, <2>26, <2>27, <2>28, <2>29
    DEF Next, ConnectStep, DisconnectStep
<1> QED
  BY <1>1, <1>2, TypeInvariant, ReleaseInvariant, PTL DEF Spec

\* A failed Connect of Windscribe or VeePN that began with no openvpn about
\* leaves none behind (windscribe.go:326-329, veepn.go:312-316).
THEOREM FailureClean == Spec => []FailureLeavesNothing
<1>1. Ended => FailureLeavesNothing
  BY DEF Ended, FailureLeavesNothing
<1> QED
  BY <1>1, EndedInvariant, PTL

\* A Connect that began with no openvpn about takes only its own route for
\* its success.
THEOREM CleanConnect == Spec => CleanConnectReaches
<1> DEFINE Step == pc'[Driver] = "mark" /\ pc[Driver] # "mark" /\ clean => Session' = loc
<1>1. TypeInv /\ IInv /\ [Next]_vars => [Step]_vars
  <2> SUFFICES ASSUME TypeInv, IInv, Next,
                      pc'[Driver] = "mark", pc[Driver] # "mark", clean
               PROVE  Session' = loc
    OBVIOUS
  <2> USE DirectAssumption
      DEF TypeInv, TypeOK, Chosen, IInv, Kinds, Own, Goto, Callers, Labels, Rest,
          ConnectLabels, DisconnectLabels, WireGuard, Session
  <2>1. CASE PollSucceeds
    <3>1. tun0 # Down /\ ~WireGuard /\ UNCHANGED <<p, tun0, at>>
      BY <2>1 DEF PollSucceeds, Routed, kernel, daemons, world
    <3>2. at[tun0] = loc
      BY <2>1, <3>1 DEF PollSucceeds
    <3> QED
      BY <3>1, <3>2
  <2>2. CASE WgQuickUp
    BY <2>2 DEF WgQuickUp, world
  <2>3. ConnectStep => PollSucceeds \/ WgQuickUp
    BY DEF ConnectStep, CatalogLoaded, CatalogMissing, TransportMissing, WriteConfig,
       AfterWrite, SetupNestedRouting, StartDaemon, PollRunsOut, KillDaemons,
       CleanupStaleWireGuard, MarkServer, MarkLocation, Status
  <2>4. ASSUME NEW c \in Callers, DisconnectStep(c) PROVE FALSE
    BY <2>4 DEF DisconnectStep, TakeDown, TeardownNestedRouting, ClearServer,
       ClearLocation, Returned
  <2>5. ASSUME NEW l \in Locations, BeginConnect(l) PROVE FALSE
    BY <2>5 DEF BeginConnect
  <2>6. ~BeginDisconnect /\ ~BeginExit /\ ~Respawn
    BY DEF BeginDisconnect, BeginExit, Respawn
  <2>7. UNCHANGED pc => FALSE
    OBVIOUS
  <2>8. ASSUME NEW d \in Daemons, DaemonConnects(d) \/ DaemonGoes(d) PROVE FALSE
    BY <2>7, <2>8 DEF DaemonConnects, DaemonGoes
  <2>9. ~Exit /\ ~Crash /\ ~CatalogExpires /\ ~OutageEnds
    BY <2>7 DEF Exit, Crash, CatalogExpires, OutageEnds
  <2> QED
    BY <2>1, <2>2, <2>3, <2>4, <2>5, <2>6, <2>8, <2>9 DEF Next
<1> QED
  BY <1>1, TypeInvariant, ReleaseInvariant, PTL DEF Spec, CleanConnectReaches
=============================================================================
