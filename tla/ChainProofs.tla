----------------------------- MODULE ChainProofs -----------------------------
(***************************************************************************)
(* A proxy-chain pod: the composition does nothing to the CONNECT proxy    *)
(* that Server.handle and the drain controller do not, a pod without an    *)
(* edge refuses, its dialer is the active edge's unless two drivers write  *)
(* at once, and the fetch proxy keeps a healthy connection, never dials by *)
(* itself, and would follow the dialer if its old connections were closed  *)
(* - for any number of drivers, edges, connections and requests.           *)
(***************************************************************************)
EXTENDS FetchProxy, ConnectProxyProofs

\* Provider, watchdog and dial health around the proxy of proxy.go are steps of
\* ConnectProxy or leave it alone.
THEOREM ChainImplementsProxy == ChainSpec => Spec
<1>1. ChainInit => Init
  BY DEF ChainInit
<1>2. [ChainNext]_cvars => [Next]_vars
  <2> SUFFICES ASSUME [ChainNext]_cvars PROVE Next \/ UNCHANGED vars
    OBVIOUS
  <2>1. ASSUME NEW d \in Drivers, Drive(d) PROVE Next \/ UNCHANGED vars
    <3>1. (\E r \in Rotations : Disconnect(r) \/ Reconnect(r)) \/ UNCHANGED vars
      BY <2>1, Zenon DEF Drive, Begin, Session, SignIn, SignInFails, ChooseEdge,
        Refused, NoEdges, GiveDialer, Claim, Settle, Leak, Teardown, Fail, GiveUp,
        Down, Drained
    <3> QED
      BY <3>1 DEF Next, Rotate
  <2>2. ASSUME NEW r \in Rotations,
               StartDrain(r) \/ PollDrained(r) \/ DrainTimesOut(r)
        PROVE  Next
    BY <2>2 DEF StartDrain, PollDrained, DrainTimesOut, Next, Rotate
  <2>3. ASSUME NEW c \in Conns, Relay(c) PROVE Next \/ UNCHANGED vars
    <3>1. Handle(c) \/ UNCHANGED vars
      BY <2>3, Zenon DEF Relay, LoadDialer, Dial, Arrive, PassGate, Leave, Handle
    <3> QED
      BY <3>1 DEF Next
  <2>4. CASE SessionAges
    BY <2>4 DEF SessionAges
  <2>5. CASE UNCHANGED cvars
    BY <2>5 DEF cvars
  <2> QED
    BY <2>1, <2>2, <2>3, <2>4, <2>5 DEF ChainNext
<1> QED
  BY <1>1, <1>2, PTL DEF ChainSpec, Spec

\* The counters of proxy.go:321-328, 381-382 stay exact in a proxy-chain pod.
THEOREM ChainCountersExact == ChainSpec => []CountersExact
  BY ChainImplementsProxy, NothingLeaks, PTL

\* The drain flag of drain.go:50-52 is released there too.
THEOREM ChainFlagReleased == ChainSpec => []DrainFlagReleased
  BY ChainImplementsProxy, FlagReleased, PTL

\* What the provider's variables range over, and more: a driver about to hand
\* over a dialer, or to claim it, knows its edge.
ChainTypes ==
  /\ dialer \in Edges \cup {"off"}
  /\ active \in Edges \cup {"none"}
  /\ minted \in BOOLEAN
  /\ at \in [Drivers -> Step]
  /\ edge \in [Drivers -> Edges \cup {"none"}]
  /\ via \in [Conns -> Edges \cup {"off", "none"}]
  /\ fails \in 0..FailThreshold
  /\ failed \in BOOLEAN
  /\ \A d \in Drivers : at[d] \in {"give", "claim"} => edge[d] \in Edges

LEMMA ChainTypesInvariant == ChainSpec => []ChainTypes
<1>1. ChainInit => ChainTypes
  BY FailThresholdAssumption DEF ChainInit, ChainTypes, Step
<1>2. ChainTypes /\ [ChainNext]_cvars => ChainTypes'
  <2> SUFFICES ASSUME ChainTypes, [ChainNext]_cvars PROVE ChainTypes'
    OBVIOUS
  <2> USE DEF ChainTypes, Step, Go, provider
  <2>1. ASSUME NEW d \in Drivers, Begin(d) \/ Session(d) \/ Refused(d) \/ Leak(d)
        PROVE  ChainTypes'
    BY <2>1 DEF Begin, Session, Refused, Leak
  <2>2. ASSUME NEW d \in Drivers, SignIn(d) PROVE ChainTypes'
    BY <2>2 DEF SignIn
  <2>3. ASSUME NEW d \in Drivers, SignInFails(d) \/ NoEdges(d) PROVE ChainTypes'
    <3>1. /\ UNCHANGED <<dialer, active, minted, edge, via, fails>>
          /\ at' = [at EXCEPT ![d] = "rest"]
          /\ failed' = TRUE
      BY <2>3 DEF SignInFails, NoEdges, Fail, GiveUp
    <3> QED
      BY <3>1
  <2>4. ASSUME NEW d \in Drivers, ChooseEdge(d) PROVE ChainTypes'
    BY <2>4 DEF ChooseEdge
  <2>5. ASSUME NEW d \in Drivers, GiveDialer(d) PROVE ChainTypes'
    BY <2>5 DEF GiveDialer
  <2>6. ASSUME NEW d \in Drivers, Claim(d) PROVE ChainTypes'
    BY <2>6 DEF Claim
  <2>7. ASSUME NEW d \in Drivers, Settle(d) PROVE ChainTypes'
    BY <2>7 DEF Settle
  <2>8. ASSUME NEW d \in Drivers, Teardown(d) PROVE ChainTypes'
    <3>1. /\ UNCHANGED <<minted, edge, via, fails>>
          /\ at' = [at EXCEPT ![d] = "off"] \/ at' = [at EXCEPT ![d] = "rest"]
          /\ dialer' \in {dialer, "off"} /\ active' \in {active, "none"}
          /\ failed' \in {failed, TRUE}
      BY <2>8 DEF Teardown, GiveUp
    <3> QED
      BY <3>1
  <2>9. ASSUME NEW c \in Conns, Relay(c) PROVE ChainTypes'
    <3>1. CASE LoadDialer(c)
      BY <3>1 DEF LoadDialer
    <3>2. CASE Dial(c)
      <4>1. /\ UNCHANGED <<dialer, active, minted, edge, at, failed>>
            /\ via' = via \/ via' = [via EXCEPT ![c] = "none"]
            /\ fails' \in {0, fails} \/ (fails < FailThreshold /\ fails' = fails + 1)
        BY <3>2 DEF Dial
      <4>2. fails' \in 0..FailThreshold
        BY <4>1, FailThresholdAssumption
      <4> QED
        BY <4>1, <4>2
    <3>3. CASE Arrive(c) \/ PassGate(c) \/ Leave(c)
      BY <3>3 DEF Arrive, PassGate, Leave
    <3> QED
      BY <2>9, <3>1, <3>2, <3>3 DEF Relay
  <2>10. ASSUME NEW r \in Rotations,
                StartDrain(r) \/ PollDrained(r) \/ DrainTimesOut(r)
         PROVE  ChainTypes'
    BY <2>10 DEF StartDrain, PollDrained, DrainTimesOut
  <2>11. CASE SessionAges
    BY <2>11 DEF SessionAges
  <2>12. CASE UNCHANGED cvars
    BY <2>12 DEF cvars
  <2> QED
    BY <2>1, <2>2, <2>3, <2>4, <2>5, <2>6, <2>7, <2>8, <2>9, <2>10, <2>11, <2>12
    DEF ChainNext, Drive
<1> QED
  BY <1>1, <1>2, PTL DEF ChainSpec

\* The variables of a proxy-chain pod keep their types: no dial is ever made
\* from the pod's own address (proxy.go:172-176).
THEOREM ChainTypeCorrect == ChainSpec => []ChainTypeOK
<1>1. TypeOK /\ ChainTypes => ChainTypeOK
  BY DEF ChainTypes, ChainTypeOK
<1> QED
  BY <1>1, ChainImplementsProxy, TypeCorrect, ChainTypesInvariant, PTL

\* A pod without an active edge refuses (tunnelbear.go:236-244), however many
\* Connects and Disconnects overlap: who takes the edge away is not done before
\* the dialer refuses, who gives a dialer not before there is an edge.
THEOREM FailsClosed == ChainSpec => []DisconnectedFailsClosed
<1>1. ChainInit => DisconnectedFailsClosed
  BY DEF ChainInit, DisconnectedFailsClosed
<1>2. ChainTypes /\ DisconnectedFailsClosed /\ [ChainNext]_cvars
        => DisconnectedFailsClosed'
  <2> SUFFICES ASSUME ChainTypes, DisconnectedFailsClosed, [ChainNext]_cvars
               PROVE  DisconnectedFailsClosed'
    OBVIOUS
  <2> USE DEF DisconnectedFailsClosed, Go
  <2>1. ASSUME UNCHANGED <<dialer, active>>,
               \A d \in Drivers : at'[d] \notin {"claim", "off"} =>
                                   at[d] \notin {"claim", "off"}
        PROVE  DisconnectedFailsClosed'
    BY <2>1
  <2>2. ASSUME NEW d \in Drivers, Drive(d) PROVE DisconnectedFailsClosed'
    <3> USE DEF ChainTypes, provider
    <3>1. CASE GiveDialer(d)
      <4>1. at'[d] = "claim"
        BY <3>1 DEF GiveDialer
      <4> QED
        BY <4>1
    <3>2. CASE Claim(d)
      <4>1. active' \in Edges
        BY <3>2 DEF Claim
      <4> QED
        BY <4>1, EdgesAssumption
    <3>3. CASE Teardown(d)
      <4>1. at'[d] = "off" \/ dialer' = "off"
        BY <3>3 DEF Teardown
      <4> QED
        BY <4>1
    <3>4. CASE Begin(d) \/ Session(d) \/ SignIn(d) \/ ChooseEdge(d) \/ Refused(d)
                 \/ Settle(d) \/ Leak(d)
      <4>1. /\ UNCHANGED <<dialer, active>>
            /\ \E s \in {"rest", "session", "login", "servers", "relogin", "again",
                          "give", "verify", "clear"} : at' = [at EXCEPT ![d] = s]
            /\ at[d] \notin {"claim", "off"}
        BY <3>4 DEF Begin, Session, SignIn, ChooseEdge, Refused, Settle, Leak
      <4> QED
        BY <2>1, <4>1
    <3>5. CASE SignInFails(d) \/ NoEdges(d)
      <4>1. /\ UNCHANGED <<dialer, active>>
            /\ at' = [at EXCEPT ![d] = "rest"]
            /\ at[d] \notin {"claim", "off"}
        BY <3>5 DEF SignInFails, NoEdges, Fail
      <4> QED
        BY <2>1, <4>1
    <3> QED
      BY <2>2, <3>1, <3>2, <3>3, <3>4, <3>5 DEF Drive
  <2>3. CASE UNCHANGED <<dialer, active, at>>
    BY <2>1, <2>3
  <2>4. ASSUME NEW c \in Conns, Relay(c) PROVE UNCHANGED <<dialer, active, at>>
    BY <2>4 DEF Relay, LoadDialer, Dial, Arrive, PassGate, Leave, provider
  <2>5. ASSUME NEW r \in Rotations,
               StartDrain(r) \/ PollDrained(r) \/ DrainTimesOut(r)
        PROVE  UNCHANGED <<dialer, active, at>>
    BY <2>5 DEF StartDrain, PollDrained, DrainTimesOut, provider
  <2>6. SessionAges \/ UNCHANGED cvars => UNCHANGED <<dialer, active, at>>
    BY DEF SessionAges, cvars, provider
  <2> QED
    BY <2>2, <2>3, <2>4, <2>5, <2>6 DEF ChainNext
<1> QED
  BY <1>1, <1>2, ChainTypesInvariant, PTL DEF ChainSpec

\* A driver between its two writes: the dialer is given and the edge not yet
\* active (tunnelbear.go:219-225), or the edge gone and the dialer not yet.
Writing(d) == at[d] \in {"claim", "off"}

WritesApart == \A d, e \in Drivers : Writing(d) /\ Writing(e) => d = e

\* What the provider says of itself is what the proxy does: the dialer is the
\* active edge's, or refuses when there is none.
DialerAgrees ==
  (\A d \in Drivers : ~Writing(d))
    => dialer = IF active = "none" THEN "off" ELSE active

\* ... and in between, the first write is still there for the second.
Agreed ==
  /\ DialerAgrees
  /\ \A d \in Drivers : at[d] = "claim" => dialer = edge[d]
  /\ \A d \in Drivers : at[d] = "off" => active = "none"

\* A refusing dialer under an active edge, which the watchdog has to heal
\* (main.go:465-473), or one edge's dialer under another's name, comes from two
\* drivers between their writes at once and from nothing else, however they
\* overlap otherwise.
THEOREM DialerFollowsActive == ChainSpec /\ []WritesApart => []DialerAgrees
<1> USE DEF Agreed, DialerAgrees, Writing, Go, provider
<1>1. ChainInit => Agreed
  BY DEF ChainInit
<1>2. ChainTypes /\ Agreed /\ WritesApart /\ WritesApart' /\ [ChainNext]_cvars
        => Agreed'
  <2> SUFFICES ASSUME ChainTypes, Agreed, WritesApart, WritesApart',
                      [ChainNext]_cvars
               PROVE  Agreed'
    OBVIOUS
  <2> at \in [Drivers -> Step] /\ edge \in [Drivers -> Edges \cup {"none"}]
    BY DEF ChainTypes
  <2>1. ASSUME NEW d \in Drivers, Drive(d) PROVE Agreed'
    <3>1. CASE GiveDialer(d)
      <4>1. /\ at' = [at EXCEPT ![d] = "claim"]
            /\ dialer' = edge[d] /\ UNCHANGED <<active, edge>>
        BY <3>1 DEF GiveDialer
      <4>2. \A e \in Drivers : at'[e] \in {"claim", "off"} => e = d
        BY <4>1 DEF WritesApart
      <4> QED
        BY <4>1, <4>2
    <3>2. CASE Claim(d)
      <4>1. /\ at[d] = "claim" /\ at' = [at EXCEPT ![d] = "verify"]
            /\ active' = edge[d] /\ dialer' = dialer
            /\ edge' = [edge EXCEPT ![d] = "none"]
        BY <3>2 DEF Claim
      <4>2. \A e \in Drivers : at'[e] \notin {"claim", "off"}
        BY <4>1 DEF WritesApart
      <4>3. edge[d] \in Edges
        BY <4>1 DEF ChainTypes
      <4> QED
        BY <4>1, <4>2, <4>3, EdgesAssumption
    <3>3. CASE Teardown(d)
      <4>1. /\ at' = [at EXCEPT ![d] = "off"]
            /\ active' = "none" /\ UNCHANGED <<dialer, edge>>
            \/ /\ at[d] = "off" /\ at' = [at EXCEPT ![d] = "rest"]
               /\ dialer' = "off" /\ UNCHANGED <<active, edge>>
        BY <3>3 DEF Teardown
      <4>2. \A e \in Drivers : at'[e] \in {"claim", "off"} => e = d /\ at'[d] = "off"
        BY <4>1 DEF WritesApart
      <4> QED
        BY <4>1, <4>2
    <3>4. CASE ChooseEdge(d)
      <4>1. /\ at[d] \notin {"claim", "off"} /\ at' = [at EXCEPT ![d] = "give"]
            /\ \E x \in Edges : edge' = [edge EXCEPT ![d] = x]
            /\ UNCHANGED <<dialer, active>>
        BY <3>4 DEF ChooseEdge
      <4> QED
        BY <4>1
    <3>5. CASE Begin(d) \/ Session(d) \/ SignIn(d) \/ Refused(d) \/ Settle(d)
                 \/ Leak(d) \/ SignInFails(d) \/ NoEdges(d)
      <4>1. /\ UNCHANGED <<dialer, active, edge>>
            /\ \E s \in Step \ {"claim", "off"} : at' = [at EXCEPT ![d] = s]
            /\ at[d] \notin {"claim", "off"}
        BY <3>5 DEF Begin, Session, SignIn, Refused, Settle, Leak, SignInFails,
           NoEdges, Fail, Step
      <4> QED
        BY <4>1
    <3> QED
      BY <2>1, <3>1, <3>2, <3>3, <3>4, <3>5 DEF Drive
  <2>2. CASE UNCHANGED <<dialer, active, at, edge>>
    BY <2>2
  <2>3. ASSUME NEW c \in Conns, Relay(c)
        PROVE  UNCHANGED <<dialer, active, at, edge>>
    BY <2>3 DEF Relay, LoadDialer, Dial, Arrive, PassGate, Leave
  <2>4. ASSUME NEW r \in Rotations,
               StartDrain(r) \/ PollDrained(r) \/ DrainTimesOut(r)
        PROVE  UNCHANGED <<dialer, active, at, edge>>
    BY <2>4 DEF StartDrain, PollDrained, DrainTimesOut
  <2>5. SessionAges \/ UNCHANGED cvars => UNCHANGED <<dialer, active, at, edge>>
    BY DEF SessionAges, cvars
  <2> QED
    BY <2>1, <2>2, <2>3, <2>4, <2>5 DEF ChainNext
<1>3. Agreed => DialerAgrees
  OBVIOUS
<1> QED
  BY <1>1, <1>2, <1>3, ChainTypesInvariant, PTL DEF ChainSpec

\* The fetch proxy takes no part in any of this.
THEOREM FetchImplementsChain == FetchSpec => ChainSpec
<1>1. FetchInit => ChainInit
  BY DEF FetchInit
<1>2. [FetchNext]_fvars => [ChainNext]_cvars
  <2> SUFFICES ASSUME [FetchNext]_fvars PROVE ChainNext \/ UNCHANGED cvars
    OBVIOUS
  <2>1. ASSUME NEW q \in Requests, RoundTrip(q) PROVE UNCHANGED cvars
    BY <2>1, Zenon DEF RoundTrip, Ask, Answer, Drop, LoadRoute, DialFetchFails,
      Store, SentFails, Finish
  <2>2. ASSUME NEW s \in Streams, StreamEnds(s) PROVE UNCHANGED cvars
    BY <2>2 DEF StreamEnds
  <2>3. UNCHANGED fvars => UNCHANGED cvars
    BY DEF fvars
  <2> QED
    BY <2>1, <2>2, <2>3 DEF FetchNext
<1> QED
  BY <1>1, <1>2, PTL DEF FetchSpec, ChainSpec

\* The failure of an old connection does not cost the pool a new one
\* (impersonate_transport.go:142-149), for any number of requests.
THEOREM NewConnKept == FetchSpec => HealthyConnKept
<1>1. [FetchNext]_fvars =>
        (pool \in alive /\ pool' # pool =>
           pool \notin alive' \/ pool' \in (alive' \ alive))
  <2> SUFFICES ASSUME [FetchNext]_fvars, pool \in alive, pool' # pool
               PROVE  pool \notin alive' \/ pool' \in (alive' \ alive)
    OBVIOUS
  <2>1. ASSUME NEW q \in Requests, RoundTrip(q)
        PROVE  pool \notin alive' \/ pool' \in (alive' \ alive)
    <3>1. CASE Drop(q)
      BY <3>1 DEF Drop
    <3>2. CASE Store(q)
      BY <3>2 DEF Store
    <3>3. CASE Ask(q) \/ Answer(q) \/ LoadRoute(q) \/ DialFetchFails(q)
                 \/ SentFails(q) \/ Finish(q)
      BY <3>3 DEF Ask, Answer, LoadRoute, DialFetchFails, SentFails, Finish
    <3> QED
      BY <2>1, <3>1, <3>2, <3>3 DEF RoundTrip
  <2>2. ASSUME NEW s \in Streams, StreamEnds(s) PROVE FALSE
    BY <2>2 DEF StreamEnds
  <2>3. (ChainNext /\ UNCHANGED fetching) \/ UNCHANGED fvars => pool' = pool
    BY DEF fetching, fvars
  <2> QED
    BY <2>1, <2>2, <2>3 DEF FetchNext
<1> QED
  BY <1>1, PTL DEF FetchSpec, HealthyConnKept

\* What the fetch proxy's variables range over, and where its connections go.
FetchTypes ==
  /\ fetch \in [Requests -> FetchStep]
  /\ on \in [Requests -> Streams \cup {"none"}]
  /\ route \in [Requests -> Edges \cup {"off", "none"}]
  /\ pool \in Streams \cup {"none"}
  /\ alive \subseteq Streams
  /\ exit \in [Streams -> Edges \cup {"none"}]

\* A request with a connection, and one that dials.
Using(q) == fetch[q] \in {"reuse", "sent", "reading"}
Dialing(q) == fetch[q] = "dialing"

\* No page is fetched, and no connection kept for later pages, from the pod's
\* own address (main.go:203-206): every connection goes through an edge, also
\* those that a Disconnect or another Connect has left behind.
FetchThroughEdge ==
  /\ \A s \in alive : exit[s] \in Edges
  /\ \A q \in Requests : Using(q) => exit[on[q]] \in Edges

FetchInv ==
  /\ FetchTypes /\ FetchThroughEdge
  /\ \A q \in Requests : Dialing(q) => route[q] \in Edges \cup {"off"}
  /\ \A q \in Requests : Using(q) => on[q] \in Streams

\* FetchInv is inductive, as long as the chain's dialer is an edge's or the one
\* that refuses.
LEMMA FetchInvariant == FetchSpec => []FetchInv
<1> USE DEF FetchInv, FetchTypes, FetchThroughEdge, FetchStep, Using, Dialing,
      To, Release
<1>1. FetchInit => FetchInv
  BY DEF FetchInit
<1>2. ChainTypes /\ FetchInv /\ [FetchNext]_fvars => FetchInv'
  <2> SUFFICES ASSUME ChainTypes, FetchInv, [FetchNext]_fvars PROVE FetchInv'
    OBVIOUS
  <2>1. ASSUME NEW q \in Requests, Ask(q) PROVE FetchInv'
    BY <2>1 DEF Ask
  <2>2. ASSUME NEW q \in Requests, Answer(q) PROVE FetchInv'
    BY <2>2 DEF Answer
  <2>3. ASSUME NEW q \in Requests, Drop(q) PROVE FetchInv'
    BY <2>3 DEF Drop
  <2>4. ASSUME NEW q \in Requests, LoadRoute(q) PROVE FetchInv'
    BY <2>4 DEF LoadRoute, ChainTypes
  <2>5. ASSUME NEW q \in Requests, DialFetchFails(q) PROVE FetchInv'
    BY <2>5 DEF DialFetchFails
  <2>6. ASSUME NEW q \in Requests, Store(q) PROVE FetchInv'
    <3>1. PICK s \in Streams \ alive :
            /\ \A p \in Requests : on[p] # s
            /\ on' = [on EXCEPT ![q] = s]
            /\ pool' = s
            /\ alive' = alive \cup {s}
            /\ exit' = [exit EXCEPT ![s] = route[q]]
      BY <2>6 DEF Store
    <3>2. /\ Dialing(q) /\ route[q] \in Edges
          /\ fetch' = [fetch EXCEPT ![q] = "sent"]
          /\ route' = [route EXCEPT ![q] = "none"]
      BY <2>6 DEF Store
    <3> QED
      BY <3>1, <3>2
  <2>7. ASSUME NEW q \in Requests, SentFails(q) \/ Finish(q) PROVE FetchInv'
    BY <2>7 DEF SentFails, Finish
  <2>8. ASSUME NEW s \in Streams, StreamEnds(s) PROVE FetchInv'
    BY <2>8 DEF StreamEnds
  <2>9. CASE (ChainNext /\ UNCHANGED fetching) \/ UNCHANGED fvars
    BY <2>9 DEF fetching, fvars
  <2> QED
    BY <2>1, <2>2, <2>3, <2>4, <2>5, <2>6, <2>7, <2>8, <2>9
    DEF FetchNext, RoundTrip
<1> QED
  BY <1>1, <1>2, FetchImplementsChain, ChainTypesInvariant, PTL DEF FetchSpec

\* The variables of the pod with a fetch proxy keep their types.
THEOREM FetchTypeCorrect == FetchSpec => []FetchTypeOK
<1>1. ChainTypeOK /\ FetchInv => FetchTypeOK
  BY DEF FetchInv, FetchTypes, FetchTypeOK
<1> QED
  BY <1>1, FetchImplementsChain, ChainTypeCorrect, FetchInvariant, PTL

\* The fetch proxy never dials by itself in a proxy-chain pod, for any number of
\* requests, connections and edges.
THEOREM FetchNeverDirect == FetchSpec => []FetchThroughEdge
<1>1. FetchInv => FetchThroughEdge
  BY DEF FetchInv
<1> QED
  BY <1>1, FetchInvariant, PTL

\* Nobody changes the dialer under a connection that the pool keeps, or under a
\* request that is dialling.
DialerMovesAlone ==
  [][dialer' # dialer
       => pool \notin alive /\ \A q \in Requests : ~Dialing(q)]_fvars

\* The pool's connection goes through the installed dialer's edge, and so does
\* whatever will take its place.
Following ==
  /\ pool \in alive => exit[pool] = dialer
  /\ \A q \in Requests : Dialing(q) => route[q] = dialer

\* FetchFollowsDialer, which a pod violates (impersonate_transport.go:70), holds
\* of every behaviour in which the cache is empty when the dialer changes: that
\* neither Connect nor Disconnect closes the old connection, nor cancels a dial,
\* is all there is to it.
THEOREM FollowsIfClosed ==
  ASSUME "none" \notin Streams
  PROVE  FetchSpec /\ DialerMovesAlone => FetchFollowsDialer
<1> DEFINE Quiet == dialer' # dialer
                     => pool \notin alive /\ \A q \in Requests : ~Dialing(q)
<1> USE DEF Following, Dialing, To, Release
<1>1. FetchInit => Following
  BY DEF FetchInit
<1>2. FetchInv /\ Following /\ [FetchNext]_fvars /\ [Quiet]_fvars => Following'
  <2> SUFFICES ASSUME FetchInv, Following, [FetchNext]_fvars, [Quiet]_fvars
               PROVE  Following'
    OBVIOUS
  <2>a. Quiet
    BY DEF fvars, cvars
  <2> /\ fetch \in [Requests -> FetchStep]
      /\ route \in [Requests -> Edges \cup {"off", "none"}]
      /\ exit \in [Streams -> Edges \cup {"none"}]
      /\ alive \subseteq Streams
    BY DEF FetchInv, FetchTypes
  <2>1. ASSUME NEW q \in Requests, RoundTrip(q) PROVE Following'
    <3>0. dialer' = dialer
      BY <2>1, Zenon DEF RoundTrip, Ask, Answer, Drop, LoadRoute, DialFetchFails,
        Store, SentFails, Finish, cvars
    <3>1. CASE Ask(q)
      BY <3>0, <3>1 DEF Ask
    <3>2. CASE Answer(q) \/ SentFails(q) \/ Finish(q)
      BY <3>0, <3>2 DEF Answer, SentFails, Finish
    <3>3. CASE Drop(q)
      BY <3>0, <3>3 DEF Drop
    <3>4. CASE LoadRoute(q)
      BY <3>0, <3>4 DEF LoadRoute
    <3>5. CASE DialFetchFails(q)
      BY <3>0, <3>5 DEF DialFetchFails
    <3>6. CASE Store(q)
      BY <3>0, <3>6 DEF Store
    <3> QED
      BY <2>1, <3>1, <3>2, <3>3, <3>4, <3>5, <3>6 DEF RoundTrip
  <2>2. ASSUME NEW s \in Streams, StreamEnds(s) PROVE Following'
    <3>1. dialer' = dialer
      BY <2>2 DEF StreamEnds, cvars
    <3> QED
      BY <2>2, <3>1 DEF StreamEnds
  <2>3. CASE ChainNext /\ UNCHANGED fetching
    BY <2>3, <2>a DEF fetching
  <2>4. CASE UNCHANGED fvars
    BY <2>4 DEF fvars, cvars, fetching
  <2> QED
    BY <2>1, <2>2, <2>3, <2>4 DEF FetchNext
<1>3. FetchInv /\ Following /\ [FetchNext]_fvars
        => \A q \in Requests :
             fetch[q] = "none" /\ fetch'[q] = "reuse" => exit[pool] = dialer
  <2> SUFFICES ASSUME FetchInv, Following, [FetchNext]_fvars, NEW q \in Requests,
                      fetch[q] = "none", fetch'[q] = "reuse"
               PROVE  pool \in alive
    OBVIOUS
  <2> fetch \in [Requests -> FetchStep]
    BY DEF FetchInv, FetchTypes
  <2>1. ASSUME NEW p \in Requests, RoundTrip(p) PROVE pool \in alive
    <3>1. CASE Ask(p)
      BY <3>1 DEF Ask
    <3> QED
      BY <2>1, <3>1 DEF RoundTrip, Answer, Drop, LoadRoute, DialFetchFails, Store,
         SentFails, Finish
  <2> QED
    BY <2>1 DEF FetchNext, StreamEnds, fetching, fvars
<1> QED
  BY <1>1, <1>2, <1>3, FetchInvariant, PTL
  DEF FetchSpec, DialerMovesAlone, FetchFollowsDialer
=============================================================================
