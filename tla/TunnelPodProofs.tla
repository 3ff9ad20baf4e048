--------------------------- MODULE TunnelPodProofs ---------------------------
(***************************************************************************)
(* The proofs of TunnelPod: its type invariant, that boot is exclusive,    *)
(* that an unsettled pod is always driven by some thread, that the exit    *)
(* paths disconnect once, and what a rotation remembers - of any pod; that *)
(* it keeps PodContract - of one whose drivers do not overlap; and that it *)
(* releases its session - if nothing disturbs its exit.  Each invariant is *)
(* strengthened until every action preserves it, and each proof has one    *)
(* step per action.                                                        *)
(***************************************************************************)
EXTENDS TunnelPod, FiniteSetTheorems, TLAPS

\* Every kind of thread is one of Threads.
LEMMA ThreadKinds ==
  /\ Main \in Threads
  /\ Connectors \subseteq Threads /\ Exiters \subseteq Threads
  /\ Rotators \subseteq Threads /\ Spawned \subseteq Threads
  /\ Timers \subseteq Threads /\ Http \subseteq Threads
  /\ Watchdogs \subseteq Threads /\ Guards \subseteq Threads
  /\ Recyclers \subseteq Threads
  BY DEF Threads, Connectors, Exiters, Rotators, Spawned

\* The first program counters are labels.
LEMMA BootPcType == BootPc \in [Threads -> Labels]
  BY DEF BootPc, Labels, BootLabels

\* TypeOK is not inductive alone: a leak burns the location of its thread,
\* which must be one.
Located ==
  \A t \in Connectors :
    pc[t] \in {"verify", "leak"} => loc[t] \in Locations

TypeInv == TypeOK /\ Located

\* TypeInv is inductive.
LEMMA TypeInvariant == Spec => []TypeInv
<1> USE ParameterAssumption, ThreadKinds DEF TypeInv, TypeOK, Located, Labels,
      BootLabels, ConnectLabels, RotateLabels, ExitLabels
<1>1. Init => TypeInv
  <2> SUFFICES ASSUME Init
               PROVE  TypeInv
    OBVIOUS
  <2>1. pc \in [Threads -> Labels]
    BY BootPcType DEF Init
  <2>2. Located
    BY DEF Init, BootPc
  <2>3. /\ loc \in [Threads -> Locations \cup {Down}]
        /\ failed \in [Threads -> SUBSET Locations]
        /\ attempt \in [Threads -> 0..MaxAttempts]
    BY DEF Init
  <2>4. /\ rotationCount \in 0..RecycleLimit /\ scheduled \in 0..RecycleLimit
        /\ state \in State
    BY DEF Init, State
  <2>5. outage \in BOOLEAN
    BY DEF Init
  <2> HIDE DEF Labels, Located
  <2> QED
    BY <2>1, <2>2, <2>3, <2>4, <2>5 DEF Init
<1>2. TypeInv /\ [Next]_vars => TypeInv'
  <2> SUFFICES ASSUME TypeInv, [Next]_vars
               PROVE  TypeInv'
    OBVIOUS
  <2> USE DEF tracker, provider, process, locals, Goto
  <2>1. CASE BootLogin
    BY <2>1 DEF BootLogin, State
  <2>2. CASE LoginSucceeds
    BY <2>2 DEF LoginSucceeds
  <2>3. CASE LoginFails
    BY <2>3 DEF LoginFails
  <2>4. CASE BootCancelled
    BY <2>4 DEF BootCancelled
  <2>5. CASE BootRetry
    BY <2>5 DEF BootRetry
  <2>6. CASE Spawn
    BY <2>6 DEF Spawn
  <2>7. CASE HoldEnds
    BY <2>7 DEF HoldEnds
  <2>8. ASSUME NEW t \in Connectors, BeginConnect(t) PROVE TypeInv'
    BY <2>8 DEF BeginConnect, State
  <2>9. ASSUME NEW t \in Connectors, EnsureLoggedIn(t) PROVE TypeInv'
    BY <2>9 DEF EnsureLoggedIn
  <2>10. ASSUME NEW t \in Connectors, Relogin(t) PROVE TypeInv'
    BY <2>10 DEF Relogin
  <2>11. ASSUME NEW t \in Connectors, NoLocation(t) PROVE TypeInv'
    BY <2>11 DEF NoLocation
  <2>12. ASSUME NEW t \in Connectors, ConnectSucceeds(t) PROVE TypeInv'
    BY <2>12 DEF ConnectSucceeds, Candidates
  <2>13. ASSUME NEW t \in Connectors, ConnectFails(t) PROVE TypeInv'
    BY <2>13 DEF ConnectFails, Candidates, Burn
  <2>14. ASSUME NEW t \in Connectors, VerifyPasses(t) PROVE TypeInv'
    BY <2>14 DEF VerifyPasses
  <2>15. ASSUME NEW t \in Connectors, VerifyLeaks(t) PROVE TypeInv'
    BY <2>15 DEF VerifyLeaks
  <2>16. ASSUME NEW t \in Connectors, LeakDisconnect(t) PROVE TypeInv'
    BY <2>16 DEF LeakDisconnect, DisconnectOutcome, Burn
  <2>17. ASSUME NEW t \in Connectors, RecordTunnelUp(t) PROVE TypeInv'
    BY <2>17 DEF RecordTunnelUp
  <2>18. ASSUME NEW t \in Connectors, TunnelUpListener(t) PROVE TypeInv'
    BY <2>18 DEF TunnelUpListener
  <2>19. ASSUME NEW t \in Connectors, PublishReady(t) PROVE TypeInv'
    BY <2>19 DEF PublishReady, State
  <2>20. ASSUME NEW w \in Watchdogs, WatchdogTick(w) PROVE TypeInv'
    BY <2>20 DEF WatchdogTick
  <2>21. ASSUME NEW w \in Watchdogs, WatchdogFails(w) PROVE TypeInv'
    BY <2>21 DEF WatchdogFails, State
  <2>22. ASSUME NEW r \in Rotators, CheckState(r) PROVE TypeInv'
    BY <2>22 DEF CheckState
  <2>23. ASSUME NEW r \in Rotators, Drain(r) PROVE TypeInv'
    BY <2>23 DEF Drain, State
  <2>24. ASSUME NEW r \in Rotators, Rotating(r) PROVE TypeInv'
    BY <2>24 DEF Rotating, State
  <2>25. ASSUME NEW r \in Rotators, Teardown(r) PROVE TypeInv'
    BY <2>25 DEF Teardown, DisconnectOutcome
  <2>26. ASSUME NEW r \in Rotators, NextAttempt(r) PROVE TypeInv'
    BY <2>26 DEF NextAttempt
  <2>27. ASSUME NEW r \in Rotators, RotationSucceeded(r) PROVE TypeInv'
    BY <2>27 DEF RotationSucceeded, RecordRotation, Forget
  <2>28. ASSUME NEW r \in Rotators, RotationFailed(r) PROVE TypeInv'
    BY <2>28 DEF RotationFailed, RecordRotation, Forget
  <2>29. ASSUME NEW r \in Rotators, Surrender(r) PROVE TypeInv'
    BY <2>29 DEF Surrender, State
  <2>30. ASSUME NEW r \in Timers, TimerFires(r) PROVE TypeInv'
    BY <2>30 DEF TimerFires
  <2>31. ASSUME NEW h \in Http, PostRotate(h) PROVE TypeInv'
    BY <2>31 DEF PostRotate
  <2>32. ASSUME NEW g \in Guards, WedgeTrips(g) PROVE TypeInv'
    BY <2>32 DEF WedgeTrips
  <2>33. ASSUME NEW c \in Recyclers, LifetimeReached(c) PROVE TypeInv'
    BY <2>33 DEF LifetimeReached
  <2>34. ASSUME NEW e \in Exiters, Recycle(e) PROVE TypeInv'
    BY <2>34 DEF Recycle, State
  <2>35. ASSUME NEW e \in Exiters, TakeShutdown(e) PROVE TypeInv'
    BY <2>35 DEF TakeShutdown
  <2>36. ASSUME NEW e \in Exiters, ShutdownDisconnect(e) PROVE TypeInv'
    BY <2>36 DEF ShutdownDisconnect, DisconnectOutcome
  <2>37. ASSUME NEW e \in Exiters, Exit(e) PROVE TypeInv'
    BY <2>37 DEF Exit
  <2>38. CASE Sigterm
    BY <2>38 DEF Sigterm
  <2>39. CASE TunnelDrops
    BY <2>39 DEF TunnelDrops
  <2>40. CASE DaemonLogsOut
    BY <2>40 DEF DaemonLogsOut
  <2>41. CASE OutageEnds
    BY <2>41 DEF OutageEnds
  <2>42. CASE ThrottleExpires
    BY <2>42 DEF ThrottleExpires
  <2>43. CASE DebounceExpires
    BY <2>43 DEF DebounceExpires
  <2>44. CASE Restart
    <3>1. pc' \in [Threads -> Labels]
      BY <2>44, BootPcType DEF Restart
    <3>2. Located'
      BY <2>44 DEF Restart, BootPc
    <3>3. /\ loc' \in [Threads -> Locations \cup {Down}]
          /\ failed' \in [Threads -> SUBSET Locations]
          /\ attempt' \in [Threads -> 0..MaxAttempts]
      BY <2>44 DEF Restart
    <3>4. /\ rotationCount' \in 0..RecycleLimit /\ scheduled' \in 0..RecycleLimit
          /\ state' \in State
      BY <2>44 DEF Restart, State
    <3>5. session' \in Locations \cup {Down} /\ auth' \in BOOLEAN
          /\ outage' \in BOOLEAN
      BY <2>44 DEF Restart
    <3> HIDE DEF Labels, Located
    <3> QED
      BY <2>44, <3>1, <3>2, <3>3, <3>4, <3>5 DEF Restart
  <2>45. CASE UNCHANGED vars
    BY <2>45 DEF vars
  <2> QED
    BY <2>1, <2>2, <2>3, <2>4, <2>5, <2>6, <2>7, <2>8, <2>9, <2>10, <2>11,
       <2>12, <2>13, <2>14, <2>15, <2>16, <2>17, <2>18, <2>19, <2>20,
       <2>21, <2>22, <2>23, <2>24, <2>25, <2>26, <2>27, <2>28, <2>29,
       <2>30, <2>31, <2>32, <2>33, <2>34, <2>35, <2>36, <2>37, <2>38,
       <2>39, <2>40, <2>41, <2>42, <2>43, <2>44, <2>45
    DEF Next, MainStep, ConnectStep, WatchdogStep, RotateStep, ExitStep,
        Environment
<1> QED
  BY <1>1, <1>2, PTL DEF Spec

\* The variables of TunnelPod keep their types: in particular no rotation
\* makes more attempts than ROTATION_RETRY_MAX.
THEOREM TypeCorrect == Spec => []TypeOK
<1>1. TypeInv => TypeOK
  BY DEF TypeInv
<1> QED
  BY <1>1, TypeInvariant, PTL
-----------------------------------------------------------------------------
\* Boot is exclusive.  What makes it so: until main has spawned its goroutines
\* none of them exists, and until main is done booting the state is not one
\* in which POST /rotate starts a rotation.

\* No goroutine exists that main has yet to start.
Unspawned ==
  pc[Main] \in Booting \cup {"spawn"} => \A t \in Spawned : pc[t] = "unborn"

\* While main boots the state is one of the boot's own, and no goroutine of
\* POST /rotate runs.
BootOwnsState ==
  alive /\ pc[Main] \in Booting =>
    /\ state \in {"Booting", "LoggingIn", "Connecting"}
    /\ \A h \in Http : pc[h] = "idle"

BootInv == Unspawned /\ BootOwnsState

\* A process starts with main at its first call and nobody else running.
LEMMA BootPcStart ==
  /\ BootPc[Main] = "boot"
  /\ \A h \in Http : BootPc[h] = "idle"
  /\ \A t \in Spawned : BootPc[t] = "unborn"
  BY ThreadAssumption DEF BootPc, Threads, Spawned

\* BootInv is inductive.
LEMMA BootInvariant == Spec => []BootInv
<1> USE ThreadAssumption, ThreadKinds DEF BootInv, Unspawned, BootOwnsState,
      Booting, BootLabels, ConnectLabels
<1>1. Init => BootInv
  BY BootPcStart DEF Init
<1>2. TypeInv /\ BootInv /\ [Next]_vars => BootInv'
  <2> SUFFICES ASSUME TypeInv, BootInv, [Next]_vars
               PROVE  BootInv'
    OBVIOUS
  <2> USE DEF tracker, provider, process, locals, Goto
  <2> pc \in [Threads -> Labels]
    BY DEF TypeInv, TypeOK
  <2> USE DEF Threads, Connectors, Exiters, Rotators, Spawned
  <2>1. CASE BootLogin
    BY <2>1 DEF BootLogin
  <2>2. CASE LoginSucceeds
    BY <2>2 DEF LoginSucceeds
  <2>3. CASE LoginFails
    BY <2>3 DEF LoginFails
  <2>4. CASE BootCancelled
    BY <2>4 DEF BootCancelled
  <2>5. CASE BootRetry
    BY <2>5 DEF BootRetry
  <2>6. CASE Spawn
    BY <2>6 DEF Spawn
  <2>7. CASE HoldEnds
    BY <2>7 DEF HoldEnds
  <2>8. ASSUME NEW t \in Connectors, BeginConnect(t) PROVE BootInv'
    BY <2>8 DEF BeginConnect
  <2>9. ASSUME NEW t \in Connectors, EnsureLoggedIn(t) PROVE BootInv'
    BY <2>9 DEF EnsureLoggedIn
  <2>10. ASSUME NEW t \in Connectors, Relogin(t) PROVE BootInv'
    BY <2>10 DEF Relogin
  <2>11. ASSUME NEW t \in Connectors, NoLocation(t) PROVE BootInv'
    BY <2>11 DEF NoLocation
  <2>12. ASSUME NEW t \in Connectors, ConnectSucceeds(t) PROVE BootInv'
    BY <2>12 DEF ConnectSucceeds
  <2>13. ASSUME NEW t \in Connectors, ConnectFails(t) PROVE BootInv'
    BY <2>13 DEF ConnectFails
  <2>14. ASSUME NEW t \in Connectors, VerifyPasses(t) PROVE BootInv'
    BY <2>14 DEF VerifyPasses
  <2>15. ASSUME NEW t \in Connectors, VerifyLeaks(t) PROVE BootInv'
    BY <2>15 DEF VerifyLeaks
  <2>16. ASSUME NEW t \in Connectors, LeakDisconnect(t) PROVE BootInv'
    BY <2>16 DEF LeakDisconnect
  <2>17. ASSUME NEW t \in Connectors, RecordTunnelUp(t) PROVE BootInv'
    BY <2>17 DEF RecordTunnelUp
  <2>18. ASSUME NEW t \in Connectors, TunnelUpListener(t) PROVE BootInv'
    BY <2>18 DEF TunnelUpListener
  <2>19. ASSUME NEW t \in Connectors, PublishReady(t) PROVE BootInv'
    BY <2>19 DEF PublishReady
  <2>20. ASSUME NEW w \in Watchdogs, WatchdogTick(w) PROVE BootInv'
    BY <2>20 DEF WatchdogTick
  <2>21. ASSUME NEW w \in Watchdogs, WatchdogFails(w) PROVE BootInv'
    BY <2>21 DEF WatchdogFails
  <2>22. ASSUME NEW r \in Rotators, CheckState(r) PROVE BootInv'
    BY <2>22 DEF CheckState
  <2>23. ASSUME NEW r \in Rotators, Drain(r) PROVE BootInv'
    BY <2>23 DEF Drain
  <2>24. ASSUME NEW r \in Rotators, Rotating(r) PROVE BootInv'
    BY <2>24 DEF Rotating
  <2>25. ASSUME NEW r \in Rotators, Teardown(r) PROVE BootInv'
    BY <2>25 DEF Teardown
  <2>26. ASSUME NEW r \in Rotators, NextAttempt(r) PROVE BootInv'
    BY <2>26 DEF NextAttempt
  <2>27. ASSUME NEW r \in Rotators, RotationSucceeded(r) PROVE BootInv'
    BY <2>27 DEF RotationSucceeded
  <2>28. ASSUME NEW r \in Rotators, RotationFailed(r) PROVE BootInv'
    BY <2>28 DEF RotationFailed
  <2>29. ASSUME NEW r \in Rotators, Surrender(r) PROVE BootInv'
    BY <2>29 DEF Surrender
  <2>30. ASSUME NEW r \in Timers, TimerFires(r) PROVE BootInv'
    BY <2>30 DEF TimerFires
  <2>31. ASSUME NEW h \in Http, PostRotate(h) PROVE BootInv'
    BY <2>31 DEF PostRotate
  <2>32. ASSUME NEW g \in Guards, WedgeTrips(g) PROVE BootInv'
    BY <2>32 DEF WedgeTrips
  <2>33. ASSUME NEW c \in Recyclers, LifetimeReached(c) PROVE BootInv'
    BY <2>33 DEF LifetimeReached
  <2>34. ASSUME NEW e \in Exiters, Recycle(e) PROVE BootInv'
    BY <2>34 DEF Recycle
  <2>35. ASSUME NEW e \in Exiters, TakeShutdown(e) PROVE BootInv'
    BY <2>35 DEF TakeShutdown
  <2>36. ASSUME NEW e \in Exiters, ShutdownDisconnect(e) PROVE BootInv'
    BY <2>36 DEF ShutdownDisconnect
  <2>37. ASSUME NEW e \in Exiters, Exit(e) PROVE BootInv'
    BY <2>37 DEF Exit
  <2>38. CASE Sigterm
    BY <2>38 DEF Sigterm
  <2>39. CASE TunnelDrops
    BY <2>39 DEF TunnelDrops
  <2>40. CASE DaemonLogsOut
    BY <2>40 DEF DaemonLogsOut
  <2>41. CASE OutageEnds
    BY <2>41 DEF OutageEnds
  <2>42. CASE ThrottleExpires
    BY <2>42 DEF ThrottleExpires
  <2>43. CASE DebounceExpires
    BY <2>43 DEF DebounceExpires
  <2>44. CASE Restart
    BY <2>44, BootPcStart DEF Restart
  <2>45. CASE UNCHANGED vars
    BY <2>45 DEF vars
  <2> QED
    BY <2>1, <2>2, <2>3, <2>4, <2>5, <2>6, <2>7, <2>8, <2>9, <2>10, <2>11,
       <2>12, <2>13, <2>14, <2>15, <2>16, <2>17, <2>18, <2>19, <2>20,
       <2>21, <2>22, <2>23, <2>24, <2>25, <2>26, <2>27, <2>28, <2>29,
       <2>30, <2>31, <2>32, <2>33, <2>34, <2>35, <2>36, <2>37, <2>38,
       <2>39, <2>40, <2>41, <2>42, <2>43, <2>44, <2>45
    DEF Next, MainStep, ConnectStep, WatchdogStep, RotateStep, ExitStep,
        Environment
<1> QED
  BY <1>1, <1>2, TypeInvariant, PTL DEF Spec

\* Until main has published the first Ready nobody else drives the provider.
THEOREM BootExclusive == Spec => []BootIsExclusive
<1>1. BootInv => BootIsExclusive
  BY ThreadKinds DEF BootInv, Unspawned, BootOwnsState, BootIsExclusive,
     Threads, Spawned
<1> QED
  BY <1>1, BootInvariant, PTL

-----------------------------------------------------------------------------
\* Who settles the state.

\* No orphaned lifecycle: an unsettled state always has a thread bound to
\* settle it or to end the process.  A step that unsettles the state takes its
\* own thread into Driving, one that takes a thread out of Driving settles the
\* state, and Spawn, which sets the counters of many threads at once, finds
\* them unborn.
THEOREM AlwaysDriven == Spec => []DrivenUnlessSettled
<1> USE ThreadAssumption, ThreadKinds DEF DrivenUnlessSettled, Driving,
      Settled, BootLabels, ConnectLabels, ExitLabels
<1>1. Init => DrivenUnlessSettled
  BY BootPcStart DEF Init
<1>2. /\ TypeInv /\ Unspawned /\ DrivenUnlessSettled
      /\ [Next]_vars
      => DrivenUnlessSettled'
  <2> SUFFICES ASSUME TypeInv, Unspawned, DrivenUnlessSettled, [Next]_vars
               PROVE  DrivenUnlessSettled'
    OBVIOUS
  <2> USE DEF tracker, provider, process, locals, Goto
  <2> pc \in [Threads -> Labels]
    BY DEF TypeInv, TypeOK
  <2>1. CASE BootLogin
    BY <2>1 DEF BootLogin
  <2>2. CASE LoginSucceeds
    BY <2>2 DEF LoginSucceeds
  <2>3. CASE LoginFails
    BY <2>3 DEF LoginFails
  <2>4. CASE BootCancelled
    BY <2>4 DEF BootCancelled
  <2>5. CASE BootRetry
    BY <2>5 DEF BootRetry
  <2>6. CASE Spawn
    BY <2>6 DEF Spawn, Unspawned, Spawned, Threads
  <2>7. CASE HoldEnds
    BY <2>7 DEF HoldEnds
  <2>8. ASSUME NEW t \in Connectors, BeginConnect(t) PROVE DrivenUnlessSettled'
    BY <2>8 DEF BeginConnect
  <2>9. ASSUME NEW t \in Connectors, EnsureLoggedIn(t) PROVE DrivenUnlessSettled'
    BY <2>9 DEF EnsureLoggedIn
  <2>10. ASSUME NEW t \in Connectors, Relogin(t) PROVE DrivenUnlessSettled'
    BY <2>10 DEF Relogin
  <2>11. ASSUME NEW t \in Connectors, NoLocation(t) PROVE DrivenUnlessSettled'
    BY <2>11 DEF NoLocation
  <2>12. ASSUME NEW t \in Connectors, ConnectSucceeds(t) PROVE DrivenUnlessSettled'
    BY <2>12 DEF ConnectSucceeds
  <2>13. ASSUME NEW t \in Connectors, ConnectFails(t) PROVE DrivenUnlessSettled'
    BY <2>13 DEF ConnectFails
  <2>14. ASSUME NEW t \in Connectors, VerifyPasses(t) PROVE DrivenUnlessSettled'
    BY <2>14 DEF VerifyPasses
  <2>15. ASSUME NEW t \in Connectors, VerifyLeaks(t) PROVE DrivenUnlessSettled'
    BY <2>15 DEF VerifyLeaks
  <2>16. ASSUME NEW t \in Connectors, LeakDisconnect(t) PROVE DrivenUnlessSettled'
    BY <2>16 DEF LeakDisconnect
  <2>17. ASSUME NEW t \in Connectors, RecordTunnelUp(t) PROVE DrivenUnlessSettled'
    BY <2>17 DEF RecordTunnelUp
  <2>18. ASSUME NEW t \in Connectors, TunnelUpListener(t) PROVE DrivenUnlessSettled'
    BY <2>18 DEF TunnelUpListener
  <2>19. ASSUME NEW t \in Connectors, PublishReady(t) PROVE DrivenUnlessSettled'
    BY <2>19 DEF PublishReady
  <2>20. ASSUME NEW w \in Watchdogs, WatchdogTick(w) PROVE DrivenUnlessSettled'
    BY <2>20 DEF WatchdogTick
  <2>21. ASSUME NEW w \in Watchdogs, WatchdogFails(w) PROVE DrivenUnlessSettled'
    BY <2>21 DEF WatchdogFails
  <2>22. ASSUME NEW r \in Rotators, CheckState(r) PROVE DrivenUnlessSettled'
    BY <2>22 DEF CheckState
  <2>23. ASSUME NEW r \in Rotators, Drain(r) PROVE DrivenUnlessSettled'
    BY <2>23 DEF Drain
  <2>24. ASSUME NEW r \in Rotators, Rotating(r) PROVE DrivenUnlessSettled'
    BY <2>24 DEF Rotating
  <2>25. ASSUME NEW r \in Rotators, Teardown(r) PROVE DrivenUnlessSettled'
    BY <2>25 DEF Teardown
  <2>26. ASSUME NEW r \in Rotators, NextAttempt(r) PROVE DrivenUnlessSettled'
    BY <2>26 DEF NextAttempt
  <2>27. ASSUME NEW r \in Rotators, RotationSucceeded(r) PROVE DrivenUnlessSettled'
    BY <2>27 DEF RotationSucceeded
  <2>28. ASSUME NEW r \in Rotators, RotationFailed(r) PROVE DrivenUnlessSettled'
    BY <2>28 DEF RotationFailed
  <2>29. ASSUME NEW r \in Rotators, Surrender(r) PROVE DrivenUnlessSettled'
    BY <2>29 DEF Surrender
  <2>30. ASSUME NEW r \in Timers, TimerFires(r) PROVE DrivenUnlessSettled'
    BY <2>30 DEF TimerFires
  <2>31. ASSUME NEW h \in Http, PostRotate(h) PROVE DrivenUnlessSettled'
    BY <2>31 DEF PostRotate
  <2>32. ASSUME NEW g \in Guards, WedgeTrips(g) PROVE DrivenUnlessSettled'
    BY <2>32 DEF WedgeTrips
  <2>33. ASSUME NEW c \in Recyclers, LifetimeReached(c) PROVE DrivenUnlessSettled'
    BY <2>33 DEF LifetimeReached
  <2>34. ASSUME NEW e \in Exiters, Recycle(e) PROVE DrivenUnlessSettled'
    BY <2>34 DEF Recycle
  <2>35. ASSUME NEW e \in Exiters, TakeShutdown(e) PROVE DrivenUnlessSettled'
    BY <2>35 DEF TakeShutdown
  <2>36. ASSUME NEW e \in Exiters, ShutdownDisconnect(e) PROVE DrivenUnlessSettled'
    BY <2>36 DEF ShutdownDisconnect
  <2>37. ASSUME NEW e \in Exiters, Exit(e) PROVE DrivenUnlessSettled'
    BY <2>37 DEF Exit
  <2>38. CASE Sigterm
    BY <2>38 DEF Sigterm
  <2>39. CASE TunnelDrops
    BY <2>39 DEF TunnelDrops
  <2>40. CASE DaemonLogsOut
    BY <2>40 DEF DaemonLogsOut
  <2>41. CASE OutageEnds
    BY <2>41 DEF OutageEnds
  <2>42. CASE ThrottleExpires
    BY <2>42 DEF ThrottleExpires
  <2>43. CASE DebounceExpires
    BY <2>43 DEF DebounceExpires
  <2>44. CASE Restart
    BY <2>44, BootPcStart DEF Restart
  <2>45. CASE UNCHANGED vars
    BY <2>45 DEF vars
  <2> QED
    BY <2>1, <2>2, <2>3, <2>4, <2>5, <2>6, <2>7, <2>8, <2>9, <2>10, <2>11,
       <2>12, <2>13, <2>14, <2>15, <2>16, <2>17, <2>18, <2>19, <2>20,
       <2>21, <2>22, <2>23, <2>24, <2>25, <2>26, <2>27, <2>28, <2>29,
       <2>30, <2>31, <2>32, <2>33, <2>34, <2>35, <2>36, <2>37, <2>38,
       <2>39, <2>40, <2>41, <2>42, <2>43, <2>44, <2>45
    DEF Next, MainStep, ConnectStep, WatchdogStep, RotateStep, ExitStep,
        Environment
<1> QED
  BY <1>1, <1>2, TypeInvariant, BootInvariant, PTL DEF Spec, BootInv

-----------------------------------------------------------------------------
\* The exit paths.

\* gracefulDisconnect disconnects once per process, whichever exit paths race:
\* the first to take shutdownDone is the only one that goes on to disconnect.
THEOREM ShutdownOnce == Spec => []ShutdownDisconnectsOnce
<1> USE ThreadAssumption, ThreadKinds DEF ShutdownDisconnectsOnce
<1>1. Init => ShutdownDisconnectsOnce
  BY BootPcStart DEF Init, Exiters, Spawned
<1>2. TypeInv /\ ShutdownDisconnectsOnce /\ [Next]_vars
      => ShutdownDisconnectsOnce'
  <2> SUFFICES ASSUME TypeInv, ShutdownDisconnectsOnce, [Next]_vars
               PROVE  ShutdownDisconnectsOnce'
    OBVIOUS
  <2> USE DEF tracker, provider, process, locals, Goto
  <2> pc \in [Threads -> Labels]
    BY DEF TypeInv, TypeOK
  <2>1. CASE BootLogin
    BY <2>1 DEF BootLogin
  <2>2. CASE LoginSucceeds
    BY <2>2 DEF LoginSucceeds
  <2>3. CASE LoginFails
    BY <2>3 DEF LoginFails
  <2>4. CASE BootCancelled
    BY <2>4 DEF BootCancelled
  <2>5. CASE BootRetry
    BY <2>5 DEF BootRetry
  <2>6. CASE Spawn
    BY <2>6 DEF Spawn
  <2>7. CASE HoldEnds
    BY <2>7 DEF HoldEnds
  <2>8. ASSUME NEW t \in Connectors, BeginConnect(t) PROVE ShutdownDisconnectsOnce'
    BY <2>8 DEF BeginConnect
  <2>9. ASSUME NEW t \in Connectors, EnsureLoggedIn(t) PROVE ShutdownDisconnectsOnce'
    BY <2>9 DEF EnsureLoggedIn
  <2>10. ASSUME NEW t \in Connectors, Relogin(t) PROVE ShutdownDisconnectsOnce'
    BY <2>10 DEF Relogin
  <2>11. ASSUME NEW t \in Connectors, NoLocation(t) PROVE ShutdownDisconnectsOnce'
    BY <2>11 DEF NoLocation
  <2>12. ASSUME NEW t \in Connectors, ConnectSucceeds(t) PROVE ShutdownDisconnectsOnce'
    BY <2>12 DEF ConnectSucceeds
  <2>13. ASSUME NEW t \in Connectors, ConnectFails(t) PROVE ShutdownDisconnectsOnce'
    BY <2>13 DEF ConnectFails
  <2>14. ASSUME NEW t \in Connectors, VerifyPasses(t) PROVE ShutdownDisconnectsOnce'
    BY <2>14 DEF VerifyPasses
  <2>15. ASSUME NEW t \in Connectors, VerifyLeaks(t) PROVE ShutdownDisconnectsOnce'
    BY <2>15 DEF VerifyLeaks
  <2>16. ASSUME NEW t \in Connectors, LeakDisconnect(t) PROVE ShutdownDisconnectsOnce'
    BY <2>16 DEF LeakDisconnect
  <2>17. ASSUME NEW t \in Connectors, RecordTunnelUp(t) PROVE ShutdownDisconnectsOnce'
    BY <2>17 DEF RecordTunnelUp
  <2>18. ASSUME NEW t \in Connectors, TunnelUpListener(t) PROVE ShutdownDisconnectsOnce'
    BY <2>18 DEF TunnelUpListener
  <2>19. ASSUME NEW t \in Connectors, PublishReady(t) PROVE ShutdownDisconnectsOnce'
    BY <2>19 DEF PublishReady
  <2>20. ASSUME NEW w \in Watchdogs, WatchdogTick(w) PROVE ShutdownDisconnectsOnce'
    BY <2>20 DEF WatchdogTick
  <2>21. ASSUME NEW w \in Watchdogs, WatchdogFails(w) PROVE ShutdownDisconnectsOnce'
    BY <2>21 DEF WatchdogFails
  <2>22. ASSUME NEW r \in Rotators, CheckState(r) PROVE ShutdownDisconnectsOnce'
    BY <2>22 DEF CheckState
  <2>23. ASSUME NEW r \in Rotators, Drain(r) PROVE ShutdownDisconnectsOnce'
    BY <2>23 DEF Drain
  <2>24. ASSUME NEW r \in Rotators, Rotating(r) PROVE ShutdownDisconnectsOnce'
    BY <2>24 DEF Rotating
  <2>25. ASSUME NEW r \in Rotators, Teardown(r) PROVE ShutdownDisconnectsOnce'
    BY <2>25 DEF Teardown
  <2>26. ASSUME NEW r \in Rotators, NextAttempt(r) PROVE ShutdownDisconnectsOnce'
    BY <2>26 DEF NextAttempt
  <2>27. ASSUME NEW r \in Rotators, RotationSucceeded(r) PROVE ShutdownDisconnectsOnce'
    BY <2>27 DEF RotationSucceeded
  <2>28. ASSUME NEW r \in Rotators, RotationFailed(r) PROVE ShutdownDisconnectsOnce'
    BY <2>28 DEF RotationFailed
  <2>29. ASSUME NEW r \in Rotators, Surrender(r) PROVE ShutdownDisconnectsOnce'
    BY <2>29 DEF Surrender
  <2>30. ASSUME NEW r \in Timers, TimerFires(r) PROVE ShutdownDisconnectsOnce'
    BY <2>30 DEF TimerFires
  <2>31. ASSUME NEW h \in Http, PostRotate(h) PROVE ShutdownDisconnectsOnce'
    BY <2>31 DEF PostRotate
  <2>32. ASSUME NEW g \in Guards, WedgeTrips(g) PROVE ShutdownDisconnectsOnce'
    BY <2>32 DEF WedgeTrips
  <2>33. ASSUME NEW c \in Recyclers, LifetimeReached(c) PROVE ShutdownDisconnectsOnce'
    BY <2>33 DEF LifetimeReached
  <2>34. ASSUME NEW e \in Exiters, Recycle(e) PROVE ShutdownDisconnectsOnce'
    BY <2>34 DEF Recycle
  <2>35. ASSUME NEW e \in Exiters, TakeShutdown(e) PROVE ShutdownDisconnectsOnce'
    BY <2>35 DEF TakeShutdown
  <2>36. ASSUME NEW e \in Exiters, ShutdownDisconnect(e) PROVE ShutdownDisconnectsOnce'
    BY <2>36 DEF ShutdownDisconnect
  <2>37. ASSUME NEW e \in Exiters, Exit(e) PROVE ShutdownDisconnectsOnce'
    BY <2>37 DEF Exit
  <2>38. CASE Sigterm
    BY <2>38 DEF Sigterm
  <2>39. CASE TunnelDrops
    BY <2>39 DEF TunnelDrops
  <2>40. CASE DaemonLogsOut
    BY <2>40 DEF DaemonLogsOut
  <2>41. CASE OutageEnds
    BY <2>41 DEF OutageEnds
  <2>42. CASE ThrottleExpires
    BY <2>42 DEF ThrottleExpires
  <2>43. CASE DebounceExpires
    BY <2>43 DEF DebounceExpires
  <2>44. CASE Restart
    BY <2>44, BootPcStart DEF Restart, Exiters, Spawned
  <2>45. CASE UNCHANGED vars
    BY <2>45 DEF vars
  <2> QED
    BY <2>1, <2>2, <2>3, <2>4, <2>5, <2>6, <2>7, <2>8, <2>9, <2>10, <2>11,
       <2>12, <2>13, <2>14, <2>15, <2>16, <2>17, <2>18, <2>19, <2>20,
       <2>21, <2>22, <2>23, <2>24, <2>25, <2>26, <2>27, <2>28, <2>29,
       <2>30, <2>31, <2>32, <2>33, <2>34, <2>35, <2>36, <2>37, <2>38,
       <2>39, <2>40, <2>41, <2>42, <2>43, <2>44, <2>45
    DEF Next, MainStep, ConnectStep, WatchdogStep, RotateStep, ExitStep,
        Environment
<1> QED
  BY <1>1, <1>2, TypeInvariant, PTL DEF Spec

-----------------------------------------------------------------------------
\* What a rotation remembers.

\* An attempt under way has not burnt its location yet.
Budget ==
  \A r \in Rotators :
    pc[r] \in {"start", "auth", "relogin", "connect", "verify", "leak"}
      => Cardinality(failed[r]) < attempt[r]

RetryInv == NoRetryOfFailedLocation /\ Budget

\* Burning a location adds at most one to the locations a rotation has burnt.
LEMMA BurnOne ==
  ASSUME NEW r \in Rotators, NEW t \in Threads, NEW l \in Locations, TypeOK
  PROVE  /\ Cardinality(failed[r]) \in Nat
         /\ Cardinality(Burn(t, l)[r]) \in Nat
         /\ t # r => Burn(t, l)[r] = failed[r]
         /\ Cardinality(Burn(t, l)[r]) <= Cardinality(failed[r]) + 1
<1>1. failed[r] \subseteq Locations
  BY ThreadKinds DEF TypeOK
<1>2. IsFiniteSet(failed[r])
  BY <1>1, ParameterAssumption, FS_Subset
<1>3. Cardinality(failed[r]) \in Nat
  BY <1>2, FS_CardinalityType
<1>4. Cardinality(failed[r] \cup {l}) =
        IF l \in failed[r] THEN Cardinality(failed[r])
                           ELSE Cardinality(failed[r]) + 1
  BY <1>2, FS_AddElement
<1>5. CASE Burn(t, l)[r] = failed[r]
  BY <1>3, <1>5
<1>6. CASE Burn(t, l)[r] # failed[r]
  <2>1. t = r /\ Burn(t, l)[r] = failed[r] \cup {l}
    BY <1>6, ThreadKinds DEF TypeOK, Burn
  <2> QED
    BY <1>3, <1>4, <2>1
<1> QED
  BY <1>5, <1>6

\* A rotating thread is neither main nor the watchdog.
LEMMA RotatorsApart == Main \notin Rotators /\ Rotators \cap Watchdogs = {}
  BY ThreadAssumption DEF Rotators, Spawned

\* Within one rotation no location that failed is tried again, no excluded one
\* is used, and a rotation burns at most one location per attempt.
THEOREM FailedNotRetried == Spec => []NoRetryOfFailedLocation
<1> USE RotatorsApart, ThreadKinds DEF RetryInv, NoRetryOfFailedLocation,
      Budget
<1>1. Init => RetryInv
  BY BootPcStart, FS_EmptySet DEF Init, Rotators, Spawned
<1>2. TypeInv /\ RetryInv /\ [Next]_vars => RetryInv'
  <2> SUFFICES ASSUME TypeInv, RetryInv, [Next]_vars
               PROVE  RetryInv'
    OBVIOUS
  <2> USE DEF tracker, provider, process, locals, Goto
  <2>a. /\ pc \in [Threads -> Labels]
       /\ loc \in [Threads -> Locations \cup {Down}]
       /\ failed \in [Threads -> SUBSET Locations]
       /\ attempt \in [Threads -> 0..MaxAttempts]
    BY DEF TypeInv, TypeOK
  <2>b. /\ \A r \in Rotators : Cardinality(failed[r]) \in Nat
       /\ \A r \in Rotators : attempt[r] \in Nat
    BY <2>a, ParameterAssumption, FS_Subset, FS_CardinalityType
  <2> USE <2>a, <2>b
  <2>1. CASE BootLogin
    BY <2>1 DEF BootLogin
  <2>2. CASE LoginSucceeds
    BY <2>2 DEF LoginSucceeds
  <2>3. CASE LoginFails
    BY <2>3 DEF LoginFails
  <2>4. CASE BootCancelled
    BY <2>4 DEF BootCancelled
  <2>5. CASE BootRetry
    BY <2>5 DEF BootRetry
  <2>6. CASE Spawn
    BY <2>6 DEF Spawn
  <2>7. CASE HoldEnds
    BY <2>7 DEF HoldEnds
  <2>8. ASSUME NEW t \in Connectors, BeginConnect(t) PROVE RetryInv'
    BY <2>8 DEF BeginConnect
  <2>9. ASSUME NEW t \in Connectors, EnsureLoggedIn(t) PROVE RetryInv'
    BY <2>9 DEF EnsureLoggedIn
  <2>10. ASSUME NEW t \in Connectors, Relogin(t) PROVE RetryInv'
    BY <2>10 DEF Relogin
  <2>11. ASSUME NEW t \in Connectors, NoLocation(t) PROVE RetryInv'
    BY <2>11 DEF NoLocation
  <2>12. ASSUME NEW t \in Connectors, ConnectSucceeds(t) PROVE RetryInv'
    <3>1. PICK l \in Candidates(t) : loc' = [loc EXCEPT ![t] = l]
      BY <2>12 DEF ConnectSucceeds
    <3>2. /\ failed' = failed /\ attempt' = attempt
          /\ pc[t] = "connect" /\ pc' = [pc EXCEPT ![t] = "verify"]
      BY <2>12 DEF ConnectSucceeds
    <3> QED
      BY <3>1, <3>2 DEF Candidates
  <2>13. ASSUME NEW t \in Connectors, ConnectFails(t) PROVE RetryInv'
    <3>1. PICK l \in Candidates(t) : failed' = Burn(t, l)
      BY <2>13 DEF ConnectFails
    <3>2. /\ loc' = loc /\ attempt' = attempt
          /\ pc[t] = "connect" /\ pc' = [pc EXCEPT ![t] = "next"]
      BY <2>13 DEF ConnectFails
    <3>3. \A r \in Rotators :
            /\ Cardinality(failed'[r]) \in Nat
            /\ t # r => failed'[r] = failed[r]
            /\ Cardinality(failed'[r]) <= Cardinality(failed[r]) + 1
      BY <3>1, BurnOne DEF Candidates, TypeInv
    <3> QED
      BY <3>2, <3>3
  <2>14. ASSUME NEW t \in Connectors, VerifyPasses(t) PROVE RetryInv'
    BY <2>14, ParameterAssumption DEF VerifyPasses
  <2>15. ASSUME NEW t \in Connectors, VerifyLeaks(t) PROVE RetryInv'
    BY <2>15 DEF VerifyLeaks
  <2>16. ASSUME NEW t \in Connectors, LeakDisconnect(t) PROVE RetryInv'
    <3>1. /\ loc' = loc /\ attempt' = attempt /\ failed' = Burn(t, loc[t])
          /\ pc[t] = "leak" /\ pc' = [pc EXCEPT ![t] = "next"]
      BY <2>16 DEF LeakDisconnect
    <3>2. loc[t] \in Locations
      BY <3>1 DEF TypeInv, Located
    <3>3. \A r \in Rotators :
            /\ Cardinality(failed'[r]) \in Nat
            /\ t # r => failed'[r] = failed[r]
            /\ Cardinality(failed'[r]) <= Cardinality(failed[r]) + 1
      BY <3>1, <3>2, BurnOne DEF TypeInv
    <3> QED
      BY <3>1, <3>3
  <2>17. ASSUME NEW t \in Connectors, RecordTunnelUp(t) PROVE RetryInv'
    BY <2>17 DEF RecordTunnelUp
  <2>18. ASSUME NEW t \in Connectors, TunnelUpListener(t) PROVE RetryInv'
    BY <2>18 DEF TunnelUpListener
  <2>19. ASSUME NEW t \in Connectors, PublishReady(t) PROVE RetryInv'
    BY <2>19 DEF PublishReady
  <2>20. ASSUME NEW w \in Watchdogs, WatchdogTick(w) PROVE RetryInv'
    BY <2>20 DEF WatchdogTick
  <2>21. ASSUME NEW w \in Watchdogs, WatchdogFails(w) PROVE RetryInv'
    BY <2>21 DEF WatchdogFails
  <2>22. ASSUME NEW r \in Rotators, CheckState(r) PROVE RetryInv'
    BY <2>22 DEF CheckState
  <2>23. ASSUME NEW r \in Rotators, Drain(r) PROVE RetryInv'
    BY <2>23 DEF Drain
  <2>24. ASSUME NEW r \in Rotators, Rotating(r) PROVE RetryInv'
    BY <2>24 DEF Rotating
  <2>25. ASSUME NEW r \in Rotators, Teardown(r) PROVE RetryInv'
    BY <2>25 DEF Teardown
  <2>26. ASSUME NEW r \in Rotators, NextAttempt(r) PROVE RetryInv'
    BY <2>26 DEF NextAttempt
  <2>27. ASSUME NEW r \in Rotators, RotationSucceeded(r) PROVE RetryInv'
    BY <2>27, FS_EmptySet DEF RotationSucceeded, Forget
  <2>28. ASSUME NEW r \in Rotators, RotationFailed(r) PROVE RetryInv'
    BY <2>28, FS_EmptySet DEF RotationFailed, Forget
  <2>29. ASSUME NEW r \in Rotators, Surrender(r) PROVE RetryInv'
    BY <2>29 DEF Surrender
  <2>30. ASSUME NEW r \in Timers, TimerFires(r) PROVE RetryInv'
    BY <2>30 DEF TimerFires
  <2>31. ASSUME NEW h \in Http, PostRotate(h) PROVE RetryInv'
    BY <2>31 DEF PostRotate
  <2>32. ASSUME NEW g \in Guards, WedgeTrips(g) PROVE RetryInv'
    BY <2>32 DEF WedgeTrips
  <2>33. ASSUME NEW c \in Recyclers, LifetimeReached(c) PROVE RetryInv'
    BY <2>33 DEF LifetimeReached
  <2>34. ASSUME NEW e \in Exiters, Recycle(e) PROVE RetryInv'
    BY <2>34 DEF Recycle
  <2>35. ASSUME NEW e \in Exiters, TakeShutdown(e) PROVE RetryInv'
    BY <2>35 DEF TakeShutdown
  <2>36. ASSUME NEW e \in Exiters, ShutdownDisconnect(e) PROVE RetryInv'
    BY <2>36 DEF ShutdownDisconnect
  <2>37. ASSUME NEW e \in Exiters, Exit(e) PROVE RetryInv'
    BY <2>37 DEF Exit
  <2>38. CASE Sigterm
    BY <2>38 DEF Sigterm
  <2>39. CASE TunnelDrops
    BY <2>39 DEF TunnelDrops
  <2>40. CASE DaemonLogsOut
    BY <2>40 DEF DaemonLogsOut
  <2>41. CASE OutageEnds
    BY <2>41 DEF OutageEnds
  <2>42. CASE ThrottleExpires
    BY <2>42 DEF ThrottleExpires
  <2>43. CASE DebounceExpires
    BY <2>43 DEF DebounceExpires
  <2>44. CASE Restart
    BY <2>44, BootPcStart, FS_EmptySet DEF Restart, Rotators, Spawned
  <2>45. CASE UNCHANGED vars
    BY <2>45 DEF vars
  <2> QED
    BY <2>1, <2>2, <2>3, <2>4, <2>5, <2>6, <2>7, <2>8, <2>9, <2>10, <2>11,
       <2>12, <2>13, <2>14, <2>15, <2>16, <2>17, <2>18, <2>19, <2>20,
       <2>21, <2>22, <2>23, <2>24, <2>25, <2>26, <2>27, <2>28, <2>29,
       <2>30, <2>31, <2>32, <2>33, <2>34, <2>35, <2>36, <2>37, <2>38,
       <2>39, <2>40, <2>41, <2>42, <2>43, <2>44, <2>45
    DEF Next, MainStep, ConnectStep, WatchdogStep, RotateStep, ExitStep,
        Environment
<1> QED
  BY <1>1, <1>2, TypeInvariant, PTL DEF Spec
-----------------------------------------------------------------------------
\* One driver at a time.  RotationHidesReady, HeaderIsCurrent,
\* ReadyExitsAsAdvertised, TeardownOnlyUnready and PodContract fail of a pod in
\* which two rotations, or a rotation and a reconnect, overlap.  They hold of
\* every behaviour in which no two do, however many goroutines there are: the
\* check of the state that is not atomic with what follows it (rotator.go:99,
\* main.go:424) is all that stands between the code and its promises.

\* Where a goroutine is past its check of the state, and not yet done.
Critical == ConnectLabels \cup {"drain", "rotating", "teardown"}

Drivers == Rotators \cup Watchdogs

Serialized ==
  \A t, u \in Drivers : pc[t] \in Critical /\ pc[u] \in Critical => t = u

\* A pod in which nothing can overlap: one goroutine rotates or reconnects.
OneDriver == \A t, u \in Drivers : t = u

\* Whoever rotates waits for main to have booted.
Waiting ==
  pc[Main] \in Booting => \A t \in Drivers : pc[t] \in {"unborn", "idle"}

\* What the driver has connected, recorded and announced is still so.
Carried ==
  \A t \in Connectors :
    /\ pc[t] \in {"verify", "leak"} => session \in {Down, loc[t]}
    /\ pc[t] \in {"record", "announce", "ready"}
         => loc[t] = Down \/ session \in {Down, loc[t]}
    /\ pc[t] = "announce" => exitIP = loc[t]
    /\ pc[t] = "ready" => headerIP = loc[t]

\* A driver has withdrawn Ready before its first call to the provider.
Hidden ==
  /\ \A t \in Drivers :
       pc[t] \in ConnectLabels \ {"start"} => state # "Ready"
  /\ \A r \in Rotators : pc[r] \in {"teardown", "start"} => state # "Ready"

SerialInv == /\ Waiting
             /\ Carried
             /\ Hidden
             /\ HeaderIsCurrent
             /\ ReadyExitsAsAdvertised

\* As long as drivers do not overlap SerialInv is inductive.
LEMMA SerialInvariant == Spec /\ []Serialized => []SerialInv
<1> USE ThreadAssumption, ThreadKinds DEF SerialInv, Waiting, Carried, Hidden,
      HeaderIsCurrent, ReadyExitsAsAdvertised
<1>1. Init => SerialInv
  BY BootPcStart DEF Init, Connectors, Drivers, Rotators, Spawned, ConnectLabels
<1>2. /\ TypeInv /\ BootInv /\ SerialInv /\ [Next]_vars
      /\ Serialized /\ Serialized'
      => SerialInv'
  <2> SUFFICES ASSUME TypeInv, BootInv, SerialInv, [Next]_vars,
                      Serialized, Serialized'
               PROVE  SerialInv'
    OBVIOUS
  <2> USE DEF tracker, provider, process, locals, Goto
  <2>a. /\ pc \in [Threads -> Labels]
       /\ loc \in [Threads -> Locations \cup {Down}]
    BY DEF TypeInv, TypeOK
  <2>b. /\ Main \notin Drivers /\ Connectors = {Main} \cup Drivers
        /\ Rotators \subseteq Drivers /\ Watchdogs \subseteq Drivers
        /\ Drivers \subseteq Threads /\ Drivers \cap Guards = {}
        /\ Drivers \cap Recyclers = {} /\ Rotators \cap Watchdogs = {}
    BY RotatorsApart DEF Connectors, Drivers, Rotators, Spawned
  <2>c. alive /\ pc[Main] \in Booting => state # "Ready"
    BY DEF BootInv, BootOwnsState
  <2> USE <2>a, <2>b, <2>c
          DEF Booting, BootLabels, ConnectLabels, Serialized, Critical
  <2>1. CASE BootLogin
    BY <2>1 DEF BootLogin
  <2>2. CASE LoginSucceeds
    BY <2>2 DEF LoginSucceeds
  <2>3. CASE LoginFails
    BY <2>3 DEF LoginFails
  <2>4. CASE BootCancelled
    BY <2>4 DEF BootCancelled
  <2>5. CASE BootRetry
    BY <2>5 DEF BootRetry
  <2>6. CASE Spawn
    <3>1. \A t \in Drivers :
            pc'[t] = pc[t] \/ (pc[t] = "unborn" /\ pc'[t] = "idle")
      BY <2>6, <2>a DEF Spawn, BootInv, Unspawned
    <3>2. pc[Main] = "spawn" /\ pc'[Main] = "hold"
      BY <2>6, <2>a DEF Spawn
    <3>3. UNCHANGED <<state, exitIP, headerIP, session, loc>>
      BY <2>6 DEF Spawn
    <3> QED
      BY <3>1, <3>2, <3>3
  <2>7. CASE HoldEnds
    BY <2>7 DEF HoldEnds
  <2>8. ASSUME NEW t \in Connectors, BeginConnect(t) PROVE SerialInv'
    BY <2>8 DEF BeginConnect
  <2>9. ASSUME NEW t \in Connectors, EnsureLoggedIn(t) PROVE SerialInv'
    BY <2>9 DEF EnsureLoggedIn
  <2>10. ASSUME NEW t \in Connectors, Relogin(t) PROVE SerialInv'
    BY <2>10 DEF Relogin
  <2>11. ASSUME NEW t \in Connectors, NoLocation(t) PROVE SerialInv'
    BY <2>11 DEF NoLocation
  <2>12. ASSUME NEW t \in Connectors, ConnectSucceeds(t) PROVE SerialInv'
    BY <2>12 DEF ConnectSucceeds
  <2>13. ASSUME NEW t \in Connectors, ConnectFails(t) PROVE SerialInv'
    BY <2>13 DEF ConnectFails
  <2>14. ASSUME NEW t \in Connectors, VerifyPasses(t) PROVE SerialInv'
    BY <2>14 DEF VerifyPasses
  <2>15. ASSUME NEW t \in Connectors, VerifyLeaks(t) PROVE SerialInv'
    BY <2>15 DEF VerifyLeaks
  <2>16. ASSUME NEW t \in Connectors, LeakDisconnect(t) PROVE SerialInv'
    BY <2>16 DEF LeakDisconnect, DisconnectOutcome
  <2>17. ASSUME NEW t \in Connectors, RecordTunnelUp(t) PROVE SerialInv'
    BY <2>17 DEF RecordTunnelUp
  <2>18. ASSUME NEW t \in Connectors, TunnelUpListener(t) PROVE SerialInv'
    BY <2>18 DEF TunnelUpListener
  <2>19. ASSUME NEW t \in Connectors, PublishReady(t) PROVE SerialInv'
    BY <2>19 DEF PublishReady
  <2>20. ASSUME NEW w \in Watchdogs, WatchdogTick(w) PROVE SerialInv'
    BY <2>20 DEF WatchdogTick, BootInv, Unspawned, Spawned
  <2>21. ASSUME NEW w \in Watchdogs, WatchdogFails(w) PROVE SerialInv'
    BY <2>21 DEF WatchdogFails
  <2>22. ASSUME NEW r \in Rotators, CheckState(r) PROVE SerialInv'
    BY <2>22 DEF CheckState
  <2>23. ASSUME NEW r \in Rotators, Drain(r) PROVE SerialInv'
    BY <2>23 DEF Drain
  <2>24. ASSUME NEW r \in Rotators, Rotating(r) PROVE SerialInv'
    BY <2>24 DEF Rotating
  <2>25. ASSUME NEW r \in Rotators, Teardown(r) PROVE SerialInv'
    BY <2>25 DEF Teardown, DisconnectOutcome
  <2>26. ASSUME NEW r \in Rotators, NextAttempt(r) PROVE SerialInv'
    BY <2>26 DEF NextAttempt
  <2>27. ASSUME NEW r \in Rotators, RotationSucceeded(r) PROVE SerialInv'
    BY <2>27 DEF RotationSucceeded, RecordRotation
  <2>28. ASSUME NEW r \in Rotators, RotationFailed(r) PROVE SerialInv'
    BY <2>28 DEF RotationFailed, RecordRotation
  <2>29. ASSUME NEW r \in Rotators, Surrender(r) PROVE SerialInv'
    BY <2>29 DEF Surrender
  <2>30. ASSUME NEW r \in Timers, TimerFires(r) PROVE SerialInv'
    BY <2>30 DEF TimerFires, BootInv, Unspawned, Spawned, Rotators
  <2>31. ASSUME NEW h \in Http, PostRotate(h) PROVE SerialInv'
    BY <2>31 DEF PostRotate, Rotators
  <2>32. ASSUME NEW g \in Guards, WedgeTrips(g) PROVE SerialInv'
    BY <2>32 DEF WedgeTrips
  <2>33. ASSUME NEW c \in Recyclers, LifetimeReached(c) PROVE SerialInv'
    BY <2>33 DEF LifetimeReached
  <2>34. ASSUME NEW e \in Exiters, Recycle(e) PROVE SerialInv'
    BY <2>34 DEF Recycle
  <2>35. ASSUME NEW e \in Exiters, TakeShutdown(e) PROVE SerialInv'
    BY <2>35 DEF TakeShutdown
  <2>36. ASSUME NEW e \in Exiters, ShutdownDisconnect(e) PROVE SerialInv'
    BY <2>36 DEF ShutdownDisconnect, DisconnectOutcome
  <2>37. ASSUME NEW e \in Exiters, Exit(e) PROVE SerialInv'
    BY <2>37 DEF Exit
  <2>38. CASE Sigterm
    BY <2>38 DEF Sigterm
  <2>39. CASE TunnelDrops
    BY <2>39 DEF TunnelDrops
  <2>40. CASE DaemonLogsOut
    BY <2>40 DEF DaemonLogsOut
  <2>41. CASE OutageEnds
    BY <2>41 DEF OutageEnds
  <2>42. CASE ThrottleExpires
    BY <2>42 DEF ThrottleExpires
  <2>43. CASE DebounceExpires
    BY <2>43 DEF DebounceExpires
  <2>44. CASE Restart
    BY <2>44, BootPcStart DEF Restart, Drivers, Rotators, Spawned
  <2>45. CASE UNCHANGED vars
    BY <2>45 DEF vars
  <2> QED
    BY <2>1, <2>2, <2>3, <2>4, <2>5, <2>6, <2>7, <2>8, <2>9, <2>10, <2>11,
       <2>12, <2>13, <2>14, <2>15, <2>16, <2>17, <2>18, <2>19, <2>20,
       <2>21, <2>22, <2>23, <2>24, <2>25, <2>26, <2>27, <2>28, <2>29,
       <2>30, <2>31, <2>32, <2>33, <2>34, <2>35, <2>36, <2>37, <2>38,
       <2>39, <2>40, <2>41, <2>42, <2>43, <2>44, <2>45
    DEF Next, MainStep, ConnectStep, WatchdogStep, RotateStep, ExitStep,
        Environment
<1> QED
  BY <1>1, <1>2, TypeInvariant, BootInvariant, PTL DEF Spec

\* Without overlap /readyz is 503 for the whole of a rotation.
THEOREM SerialHidesReady == Spec /\ []Serialized => []RotationHidesReady
<1>1. SerialInv => RotationHidesReady
  BY DEF SerialInv, Hidden, RotationHidesReady, Drivers, ConnectLabels
<1> QED
  BY <1>1, SerialInvariant, PTL

\* Without overlap the header at rest is the recorded exit IP.
THEOREM SerialHeaderCurrent == Spec /\ []Serialized => []HeaderIsCurrent
<1>1. SerialInv => HeaderIsCurrent
  BY DEF SerialInv
<1> QED
  BY <1>1, SerialInvariant, PTL

\* Without overlap a Ready pod that sends a header exits where it says, or
\* nowhere.
THEOREM SerialExitsAsAdvertised ==
  Spec /\ []Serialized => []ReadyExitsAsAdvertised
<1>1. SerialInv => ReadyExitsAsAdvertised
  BY DEF SerialInv
<1> QED
  BY <1>1, SerialInvariant, PTL

\* Without overlap whoever is about to call the provider has withdrawn Ready.
LEMMA SerialUnready ==
  ASSUME BootInv, SerialInv, alive
  PROVE  /\ \A t \in Connectors :
              pc[t] \in ConnectLabels \ {"start"} => state # "Ready"
         /\ \A r \in Rotators : pc[r] = "teardown" => state # "Ready"
  BY DEF BootInv, BootOwnsState, Booting, SerialInv, Hidden, Connectors, Drivers

\* Without overlap a Ready pod loses its tunnel to the outside world or to an
\* exit path only: every other step that takes one down is made by a thread
\* that holds the state unready.
THEOREM SerialTeardown == Spec /\ []Serialized => TeardownOnlyUnready
<1> DEFINE Allowed == session # Down /\ session' = Down /\ state = "Ready" =>
                        \/ TunnelDrops
                        \/ ~alive
                        \/ \E e \in Exiters : pc[e] = "disconnect"
<1>1. BootInv /\ SerialInv /\ [Next]_vars => [Allowed]_vars
  <2> SUFFICES ASSUME BootInv, SerialInv, [Next]_vars
               PROVE  Allowed
    OBVIOUS
  <2> USE DEF provider
  <2>1. CASE MainStep
    BY <2>1 DEF MainStep, BootLogin, LoginSucceeds, LoginFails, BootCancelled,
                BootRetry, Spawn, HoldEnds
  <2>2. ASSUME NEW t \in Connectors, ConnectStep(t) PROVE Allowed
    <3>1. CASE ConnectSucceeds(t) \/ ConnectFails(t) \/ LeakDisconnect(t)
      BY <3>1, SerialUnready
      DEF ConnectSucceeds, ConnectFails, LeakDisconnect, ConnectLabels
    <3>2. CASE ~(ConnectSucceeds(t) \/ ConnectFails(t) \/ LeakDisconnect(t))
      BY <2>2, <3>2 DEF ConnectStep, BeginConnect, EnsureLoggedIn, Relogin,
         NoLocation, VerifyPasses, VerifyLeaks, RecordTunnelUp,
         TunnelUpListener, PublishReady
    <3> QED
      BY <3>1, <3>2
  <2>3. ASSUME NEW w \in Watchdogs, WatchdogStep(w) PROVE Allowed
    BY <2>3 DEF WatchdogStep, WatchdogTick, WatchdogFails
  <2>4. ASSUME NEW r \in Rotators, RotateStep(r) PROVE Allowed
    BY <2>4, SerialUnready DEF RotateStep, CheckState, Drain, Rotating,
       Teardown, NextAttempt, RotationSucceeded, RotationFailed, Surrender
  <2>5. ASSUME NEW e \in Exiters, ExitStep(e) PROVE Allowed
    BY <2>5 DEF ExitStep, Recycle, TakeShutdown, ShutdownDisconnect, Exit
  <2>6. ASSUME NEW r \in Timers, TimerFires(r) PROVE Allowed
    BY <2>6 DEF TimerFires
  <2>7. ASSUME NEW c \in Http, PostRotate(c) PROVE Allowed
    BY <2>7 DEF PostRotate
  <2>8. ASSUME NEW g \in Guards, WedgeTrips(g) PROVE Allowed
    BY <2>8 DEF WedgeTrips
  <2>9. ASSUME NEW c \in Recyclers, LifetimeReached(c) PROVE Allowed
    BY <2>9 DEF LifetimeReached
  <2>10. CASE Environment
    BY <2>10 DEF Environment, Sigterm, TunnelDrops, DaemonLogsOut, OutageEnds,
       ThrottleExpires, DebounceExpires, Restart
  <2>11. CASE UNCHANGED vars
    BY <2>11 DEF vars
  <2> QED
    BY <2>1, <2>2, <2>3, <2>4, <2>5, <2>6, <2>7, <2>8, <2>9, <2>10, <2>11
    DEF Next
<1>2. Spec /\ []Serialized => [][Allowed]_vars
  BY <1>1, SerialInvariant, BootInvariant, PTL DEF Spec
<1> QED
  BY <1>2 DEF TeardownOnlyUnready

-----------------------------------------------------------------------------
\* Without overlap a pod implements PodContract: every step of a goroutine is
\* one of the contract's, or a stutter.
THEOREM SerialKeepsContract == Spec /\ []Serialized => KeepsContract
<1> USE DEF Contract!Next, Contract!vars, Contract!Places, Contract!Prepare,
            Contract!Publish, Contract!Withdraw, Contract!Lose,
            Contract!Respawn
<1>1. Init => Contract!Init
  BY DEF Init, Contract!Init
<1>2. /\ TypeInv /\ TypeInv' /\ BootInv /\ SerialInv /\ [Next]_vars
      => [Contract!Next]_Contract!vars
  <2> SUFFICES ASSUME TypeInv, TypeInv', BootInv, SerialInv, [Next]_vars
               PROVE  Contract!Next \/ UNCHANGED Contract!vars
    OBVIOUS
  <2> USE DEF tracker, provider
  <2> headerIP' \in Locations \cup {Down} /\ session' \in Locations \cup {Down}
    BY DEF TypeInv, TypeOK
  <2>a. ASSUME UNCHANGED <<headerIP, session>>, state' # "Ready"
        PROVE  Contract!Next \/ UNCHANGED Contract!vars
    BY <2>a
  <2>b. ASSUME UNCHANGED <<headerIP, session, state>>
        PROVE  Contract!Next \/ UNCHANGED Contract!vars
    BY <2>b
  <2>1. CASE MainStep
    BY <2>1, <2>a, <2>b DEF MainStep, BootLogin, LoginSucceeds, LoginFails,
       BootCancelled, BootRetry, Spawn, HoldEnds
  <2>2. ASSUME NEW t \in Connectors, ConnectStep(t)
        PROVE  Contract!Next \/ UNCHANGED Contract!vars
    <3>1. CASE PublishReady(t)
      <4>1. /\ alive /\ pc[t] = "ready" /\ state' = "Ready"
            /\ UNCHANGED <<headerIP, session>>
        BY <3>1 DEF PublishReady
      <4>2. headerIP = Down \/ session \in {Down, headerIP}
        BY <4>1 DEF SerialInv, Carried
      <4>3. state # "Ready"
        BY <4>1, SerialUnready DEF ConnectLabels
      <4> QED
        BY <4>1, <4>2, <4>3
    <3>2. CASE ConnectSucceeds(t) \/ ConnectFails(t) \/ LeakDisconnect(t)
                 \/ TunnelUpListener(t)
      <4>1. alive /\ pc[t] \in ConnectLabels \ {"start"} /\ state' = state
        BY <3>2 DEF ConnectSucceeds, ConnectFails, LeakDisconnect,
           TunnelUpListener, ConnectLabels
      <4>2. state # "Ready"
        BY <4>1, SerialUnready
      <4> QED
        BY <4>1, <4>2
    <3>3. CASE BeginConnect(t)
      BY <3>3, <2>a DEF BeginConnect
    <3>4. CASE EnsureLoggedIn(t) \/ Relogin(t) \/ NoLocation(t)
                 \/ VerifyPasses(t) \/ VerifyLeaks(t) \/ RecordTunnelUp(t)
      BY <3>4, <2>b DEF EnsureLoggedIn, Relogin, NoLocation, VerifyPasses,
         VerifyLeaks, RecordTunnelUp
    <3> QED
      BY <2>2, <3>1, <3>2, <3>3, <3>4 DEF ConnectStep
  <2>3. ASSUME NEW w \in Watchdogs, WatchdogStep(w)
        PROVE  Contract!Next \/ UNCHANGED Contract!vars
    BY <2>3, <2>a, <2>b DEF WatchdogStep, WatchdogTick, WatchdogFails
  <2>4. ASSUME NEW r \in Rotators, RotateStep(r)
        PROVE  Contract!Next \/ UNCHANGED Contract!vars
    <3>1. CASE Teardown(r)
      <4>1. alive /\ pc[r] = "teardown" /\ state' = state
        BY <3>1 DEF Teardown
      <4>2. state # "Ready"
        BY <4>1, SerialUnready
      <4> QED
        BY <4>1, <4>2
    <3>2. CASE Drain(r) \/ Rotating(r) \/ Surrender(r)
      BY <3>2, <2>a DEF Drain, Rotating, Surrender
    <3>3. CASE CheckState(r) \/ NextAttempt(r) \/ RotationSucceeded(r)
                 \/ RotationFailed(r)
      BY <3>3, <2>b DEF CheckState, NextAttempt, RotationSucceeded,
         RotationFailed
    <3> QED
      BY <2>4, <3>1, <3>2, <3>3 DEF RotateStep
  <2>5. ASSUME NEW e \in Exiters, ExitStep(e)
        PROVE  Contract!Next \/ UNCHANGED Contract!vars
    <3>1. CASE ShutdownDisconnect(e)
      BY <3>1 DEF ShutdownDisconnect, DisconnectOutcome
    <3>2. CASE Recycle(e)
      BY <3>2, <2>a DEF Recycle
    <3>3. CASE TakeShutdown(e) \/ Exit(e)
      BY <3>3, <2>b DEF TakeShutdown, Exit
    <3> QED
      BY <2>5, <3>1, <3>2, <3>3 DEF ExitStep
  <2>6. ASSUME NEW r \in Timers, TimerFires(r)
        PROVE  Contract!Next \/ UNCHANGED Contract!vars
    BY <2>6, <2>b DEF TimerFires
  <2>7. ASSUME NEW c \in Http, PostRotate(c)
        PROVE  Contract!Next \/ UNCHANGED Contract!vars
    BY <2>7, <2>b DEF PostRotate
  <2>8. ASSUME NEW g \in Guards, WedgeTrips(g)
        PROVE  Contract!Next \/ UNCHANGED Contract!vars
    BY <2>8, <2>b DEF WedgeTrips
  <2>9. ASSUME NEW c \in Recyclers, LifetimeReached(c)
        PROVE  Contract!Next \/ UNCHANGED Contract!vars
    BY <2>9, <2>b DEF LifetimeReached
  <2>10. CASE Environment
    <3>1. CASE Restart
      BY <3>1 DEF Restart
    <3>2. CASE TunnelDrops
      BY <3>2 DEF TunnelDrops
    <3>3. CASE Sigterm \/ DaemonLogsOut \/ OutageEnds \/ ThrottleExpires
                 \/ DebounceExpires
      BY <3>3, <2>b DEF Sigterm, DaemonLogsOut, OutageEnds, ThrottleExpires,
         DebounceExpires
    <3> QED
      BY <2>10, <3>1, <3>2, <3>3 DEF Environment
  <2>11. CASE UNCHANGED vars
    BY <2>11, <2>b DEF vars
  <2> QED
    BY <2>1, <2>2, <2>3, <2>4, <2>5, <2>6, <2>7, <2>8, <2>9, <2>10, <2>11
    DEF Next
<1>3. Spec /\ []Serialized => Contract!Spec
  BY <1>1, <1>2, SerialInvariant, TypeInvariant, BootInvariant, PTL
  DEF Spec, Contract!Spec
<1> QED
  BY <1>3 DEF KeepsContract

\* A pod with one driver has no overlap to fear.
LEMMA OneDriverSerialized == ASSUME OneDriver PROVE Spec => []Serialized
<1>1. Serialized
  BY OneDriver DEF OneDriver, Serialized
<1> QED
  BY <1>1, PTL

\* So the promises hold outright of a pod whose rotation is switched off and
\* that nobody asks to rotate, or of one without a watchdog's reconnects.
THEOREM SoloKeepsPromises ==
  ASSUME OneDriver
  PROVE  Spec => /\ []RotationHidesReady
                 /\ []HeaderIsCurrent
                 /\ []ReadyExitsAsAdvertised
                 /\ TeardownOnlyUnready
                 /\ KeepsContract
<1>1. Spec => []Serialized
  BY OneDriver, OneDriverSerialized
<1> QED
  BY <1>1, SerialHidesReady, SerialHeaderCurrent, SerialExitsAsAdvertised,
     SerialTeardown, SerialKeepsContract

-----------------------------------------------------------------------------
\* What the exit paths do if nothing disturbs them.  ExitReleasesSession is
\* violated (pod_exit_dangling); these are all the ways to violate it.

\* No exit path is under way beside another.
ExitsApart ==
  \A e, f \in Exiters : pc[e] \in ExitLabels /\ pc[f] \in ExitLabels => e = f

\* Nobody connects when an exit path has disconnected.
NoLateConnect ==
  \A e \in Exiters, t \in Connectors : pc[e] = "exit" => pc[t] # "connect"

\* The provider can be reached when an exit path disconnects.
ReachableAtExit == \A e \in Exiters : pc[e] = "disconnect" => ~outage

UndisturbedExit == ExitsApart /\ NoLateConnect /\ ReachableAtExit

\* shutdownDone is the mark of an exit path past it, and past the Disconnect
\* there is no session.
Released ==
  /\ shutdownDone => \E e \in Exiters : pc[e] \in {"disconnect", "exit"}
  /\ \A e \in Exiters : pc[e] = "exit" => session = Down
  /\ ExitReleasesSession

\* Every exit path releases the provider session before the process goes away
\* (shutdown.go:28-31), unless a second one overtakes it, a connect follows
\* its Disconnect, or the provider is out of reach.
THEOREM UndisturbedExitReleases ==
  Spec /\ []UndisturbedExit => []ExitReleasesSession
<1> USE ThreadAssumption, ThreadKinds DEF Released, ExitReleasesSession
<1>1. Init => Released
  BY BootPcStart DEF Init, Exiters, Spawned
<1>2. TypeInv /\ BootInv /\ Released /\ UndisturbedExit /\ [Next]_vars
        => Released'
  <2> SUFFICES ASSUME TypeInv, BootInv, Released, UndisturbedExit, [Next]_vars
               PROVE  Released'
    OBVIOUS
  <2> USE DEF tracker, provider, process, locals, Goto
  <2> pc \in [Threads -> Labels]
    BY DEF TypeInv, TypeOK
  <2> /\ Exiters = {Main} \cup Timers \cup Guards \cup Recyclers
      /\ \A h \in Http : h \notin Exiters
      /\ \A w \in Watchdogs : w \notin Exiters
    BY DEF Exiters, Spawned
  <2>1. CASE BootLogin
    BY <2>1 DEF BootLogin
  <2>2. CASE LoginSucceeds
    BY <2>2 DEF LoginSucceeds
  <2>3. CASE LoginFails
    BY <2>3 DEF LoginFails
  <2>4. CASE BootCancelled
    BY <2>4 DEF BootCancelled
  <2>5. CASE BootRetry
    BY <2>5 DEF BootRetry
  <2>6. CASE Spawn
    BY <2>6 DEF Spawn, BootInv, Unspawned, Spawned
  <2>7. CASE HoldEnds
    BY <2>7 DEF HoldEnds
  <2>8. ASSUME NEW t \in Connectors, BeginConnect(t) PROVE Released'
    BY <2>8 DEF BeginConnect
  <2>9. ASSUME NEW t \in Connectors, EnsureLoggedIn(t) PROVE Released'
    BY <2>9 DEF EnsureLoggedIn
  <2>10. ASSUME NEW t \in Connectors, Relogin(t) PROVE Released'
    BY <2>10 DEF Relogin
  <2>11. ASSUME NEW t \in Connectors, NoLocation(t) PROVE Released'
    BY <2>11 DEF NoLocation
  <2>12. ASSUME NEW t \in Connectors, ConnectSucceeds(t) PROVE Released'
    BY <2>12 DEF ConnectSucceeds, UndisturbedExit, NoLateConnect
  <2>13. ASSUME NEW t \in Connectors, ConnectFails(t) PROVE Released'
    BY <2>13 DEF ConnectFails
  <2>14. ASSUME NEW t \in Connectors, VerifyPasses(t) PROVE Released'
    BY <2>14 DEF VerifyPasses
  <2>15. ASSUME NEW t \in Connectors, VerifyLeaks(t) PROVE Released'
    BY <2>15 DEF VerifyLeaks
  <2>16. ASSUME NEW t \in Connectors, LeakDisconnect(t) PROVE Released'
    BY <2>16 DEF LeakDisconnect, DisconnectOutcome
  <2>17. ASSUME NEW t \in Connectors, RecordTunnelUp(t) PROVE Released'
    BY <2>17 DEF RecordTunnelUp
  <2>18. ASSUME NEW t \in Connectors, TunnelUpListener(t) PROVE Released'
    BY <2>18 DEF TunnelUpListener
  <2>19. ASSUME NEW t \in Connectors, PublishReady(t) PROVE Released'
    BY <2>19 DEF PublishReady
  <2>20. ASSUME NEW w \in Watchdogs, WatchdogTick(w) PROVE Released'
    BY <2>20 DEF WatchdogTick
  <2>21. ASSUME NEW w \in Watchdogs, WatchdogFails(w) PROVE Released'
    BY <2>21 DEF WatchdogFails
  <2>22. ASSUME NEW r \in Rotators, CheckState(r) PROVE Released'
    BY <2>22 DEF CheckState
  <2>23. ASSUME NEW r \in Rotators, Drain(r) PROVE Released'
    BY <2>23 DEF Drain
  <2>24. ASSUME NEW r \in Rotators, Rotating(r) PROVE Released'
    BY <2>24 DEF Rotating
  <2>25. ASSUME NEW r \in Rotators, Teardown(r) PROVE Released'
    BY <2>25 DEF Teardown, DisconnectOutcome
  <2>26. ASSUME NEW r \in Rotators, NextAttempt(r) PROVE Released'
    BY <2>26 DEF NextAttempt
  <2>27. ASSUME NEW r \in Rotators, RotationSucceeded(r) PROVE Released'
    BY <2>27 DEF RotationSucceeded, RecordRotation
  <2>28. ASSUME NEW r \in Rotators, RotationFailed(r) PROVE Released'
    BY <2>28 DEF RotationFailed, RecordRotation
  <2>29. ASSUME NEW r \in Rotators, Surrender(r) PROVE Released'
    BY <2>29 DEF Surrender
  <2>30. ASSUME NEW r \in Timers, TimerFires(r) PROVE Released'
    BY <2>30 DEF TimerFires
  <2>31. ASSUME NEW h \in Http, PostRotate(h) PROVE Released'
    BY <2>31 DEF PostRotate
  <2>32. ASSUME NEW g \in Guards, WedgeTrips(g) PROVE Released'
    BY <2>32 DEF WedgeTrips
  <2>33. ASSUME NEW c \in Recyclers, LifetimeReached(c) PROVE Released'
    BY <2>33 DEF LifetimeReached
  <2>34. ASSUME NEW e \in Exiters, Recycle(e) PROVE Released'
    BY <2>34 DEF Recycle
  <2>35. ASSUME NEW e \in Exiters, TakeShutdown(e) PROVE Released'
    <3>1. ~shutdownDone
      BY <2>35 DEF TakeShutdown, UndisturbedExit, ExitsApart, ExitLabels
    <3> QED
      BY <2>35, <3>1 DEF TakeShutdown
  <2>36. ASSUME NEW e \in Exiters, ShutdownDisconnect(e) PROVE Released'
    BY <2>36 DEF ShutdownDisconnect, DisconnectOutcome, UndisturbedExit, ReachableAtExit
  <2>37. ASSUME NEW e \in Exiters, Exit(e) PROVE Released'
    BY <2>37 DEF Exit
  <2>38. CASE Sigterm
    BY <2>38 DEF Sigterm
  <2>39. CASE TunnelDrops
    BY <2>39 DEF TunnelDrops
  <2>40. CASE DaemonLogsOut
    BY <2>40 DEF DaemonLogsOut
  <2>41. CASE OutageEnds
    BY <2>41 DEF OutageEnds
  <2>42. CASE ThrottleExpires
    BY <2>42 DEF ThrottleExpires
  <2>43. CASE DebounceExpires
    BY <2>43 DEF DebounceExpires
  <2>44. CASE Restart
    BY <2>44, BootPcStart DEF Restart, Exiters, Spawned
  <2>45. CASE UNCHANGED vars
    BY <2>45 DEF vars
  <2> QED
    BY <2>1, <2>2, <2>3, <2>4, <2>5, <2>6, <2>7, <2>8, <2>9, <2>10, <2>11,
       <2>12, <2>13, <2>14, <2>15, <2>16, <2>17, <2>18, <2>19, <2>20,
       <2>21, <2>22, <2>23, <2>24, <2>25, <2>26, <2>27, <2>28, <2>29,
       <2>30, <2>31, <2>32, <2>33, <2>34, <2>35, <2>36, <2>37, <2>38,
       <2>39, <2>40, <2>41, <2>42, <2>43, <2>44, <2>45
    DEF Next, MainStep, ConnectStep, WatchdogStep, RotateStep, ExitStep,
        Environment
<1>3. Released => ExitReleasesSession
  OBVIOUS
<1> QED
  BY <1>1, <1>2, <1>3, TypeInvariant, BootInvariant, PTL DEF Spec
=============================================================================
