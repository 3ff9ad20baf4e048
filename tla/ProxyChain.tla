----------------------------- MODULE ProxyChain -----------------------------
(***************************************************************************)
(* A proxy-chain provider (internal/provider/tunnelbear) behind the        *)
(* CONNECT proxy: there is no kernel tunnel, the provider hands the proxy  *)
(* a dialer that reaches targets through one of the vendor's edges.        *)
(*                                                                         *)
(* Rotations drain the proxy, disconnect and connect (ConnectProxy.tla);   *)
(* the watchdog only connects, when an attempt has failed or the dials the *)
(* proxy has seen do.  The state tracker keeps the two apart for most of   *)
(* the time, not always (TunnelPod.tla), so here they overlap at will.     *)
(***************************************************************************)
EXTENDS ConnectProxy

CONSTANTS Watchdogs,    \* threads that connect without disconnecting first
          Edges,        \* the vendor's proxies, one per exit
          FailThreshold \* dialFailureThreshold

ASSUME DriversAssumption == Watchdogs \cap Rotations = {}
ASSUME EdgesAssumption == Edges \cap {"off", "direct", "none"} = {}
ASSUME FailThresholdAssumption == FailThreshold \in Nat \ {0}

Drivers == Rotations \cup Watchdogs

VARIABLES
  dialer, \* the proxy's: an edge's, disconnectedDialer ("off"), none ("direct")
  active, \* activeServer
  minted, \* the session is younger than its TTL
  at,     \* per driver: its step in the provider
  edge,   \* per driver: the edge it was given
  via,    \* per connection: where its dial goes
  fails,  \* consecutiveDialFails, as far as they matter
  failed  \* the tracker's state is Failed

provider == <<active, minted, edge>>
cvars == <<vars, dialer, provider, at, via, fails, failed>>

Step == {"rest", "session", "login", "servers", "relogin", "again", "give",
         "claim", "verify", "clear", "off"}

\* AttachProxy has installed disconnectedDialer; the boot login is over.
ChainInit ==
  /\ Init
  /\ dialer = "off" /\ active = "none"
  /\ minted = TRUE
  /\ at = [d \in Drivers |-> "rest"]
  /\ edge = [d \in Drivers |-> "none"]
  /\ via = [c \in Conns |-> "none"]
  /\ fails = 0
  /\ failed = TRUE

Go(d, from, to) == at[d] = from /\ at' = [at EXCEPT ![d] = to]

Down(d) == d \in Rotations /\ rot[d] = "down"
Drained(d) == d \in Rotations /\ rot[d] = "drained"

\* An attempt has failed.  A rotation goes on until it runs out of them.
GiveUp(d) ==
  /\ failed' = TRUE
  /\ \/ UNCHANGED vars
     \/ Down(d) /\ Reconnect(d)

Fail(d, from) ==
  /\ Go(d, from, "rest") /\ GiveUp(d)
  /\ UNCHANGED <<dialer, provider, via, fails>>

-----------------------------------------------------------------------------
\* TunnelBear.Connect.

\* The watchdog leaves alone a tunnel that looks healthy; a rotation connects
\* once it has disconnected.  (To count, the last dial must also be at most two
\* minutes old, main.go:472.  There is no clock here: a watchdog that finds the
\* losses too old connects after the next ones, which clients supply.)
Begin(d) ==
  /\ Down(d) \/ (d \in Watchdogs /\ (failed \/ fails = FailThreshold))
  /\ Go(d, "rest", "session")
  /\ UNCHANGED <<vars, dialer, provider, via, fails, failed>>

\* ensureSession: the cached token, or a login without the lock.
Session(d) ==
  /\ Go(d, "session", IF minted THEN "servers" ELSE "login")
  /\ UNCHANGED <<vars, dialer, provider, via, fails, failed>>

SignIn(d) ==
  /\ Go(d, "login", "servers") \/ Go(d, "relogin", "again")
  /\ minted' = TRUE
  /\ UNCHANGED <<vars, dialer, active, edge, via, fails, failed>>

SignInFails(d) == Fail(d, "login") \/ Fail(d, "relogin")

\* The service names the edges of the location, and one is chosen.
ChooseEdge(d) ==
  /\ Go(d, "servers", "give") \/ Go(d, "again", "give")
  /\ \E e \in Edges : edge' = [edge EXCEPT ![d] = e]
  /\ UNCHANGED <<vars, dialer, active, minted, via, fails, failed>>

\* It does not, for want of a valid token perhaps: one forced login, one retry.
Refused(d) ==
  /\ Go(d, "servers", "relogin")
  /\ UNCHANGED <<vars, dialer, provider, via, fails, failed>>

\* It does not again, or has no edges there.
NoEdges(d) == Fail(d, "servers") \/ Fail(d, "again")

\* SetDialer(makeEdgeDialer(...)), and with it SetExitIP.
GiveDialer(d) ==
  /\ Go(d, "give", "claim")
  /\ dialer' = edge[d]
  /\ UNCHANGED <<vars, provider, via, fails, failed>>

\* Under the lock, after it: Connected is true from here on.
Claim(d) ==
  /\ Go(d, "claim", "verify")
  /\ active' = edge[d] /\ edge' = [edge EXCEPT ![d] = "none"]
  /\ UNCHANGED <<vars, dialer, minted, via, fails, failed>>

\* The exit-IP contract holds: the tunnel is up, a rotation over.
Settle(d) ==
  /\ Go(d, "verify", "rest")
  /\ failed' = FALSE
  /\ IF Down(d) THEN Reconnect(d) ELSE UNCHANGED vars
  /\ UNCHANGED <<dialer, provider, via, fails>>

\* It does not: connectTunnel disconnects.
Leak(d) ==
  /\ Go(d, "verify", "clear")
  /\ UNCHANGED <<vars, dialer, provider, via, fails, failed>>

\* Mutant: the dialer first, the claim to be connected afterwards.
TeardownOpen(d) ==
  /\ \/ /\ Go(d, "clear", "off") \/ (Drained(d) /\ Go(d, "rest", "off"))
        /\ dialer' = "off"
        /\ UNCHANGED <<vars, active, failed>>
     \/ /\ Go(d, "off", "rest")
        /\ active' = "none" /\ UNCHANGED dialer
        /\ IF Drained(d) THEN Disconnect(d) /\ UNCHANGED failed ELSE GiveUp(d)
  /\ UNCHANGED <<minted, edge, via, fails>>

\* Mutant: the dialer is taken away, and the proxy dials by itself.
TeardownDirect(d) ==
  /\ \/ /\ Go(d, "clear", "off") \/ (Drained(d) /\ Go(d, "rest", "off"))
        /\ active' = "none"
        /\ UNCHANGED <<vars, dialer, failed>>
     \/ /\ Go(d, "off", "rest")
        /\ dialer' = "direct" /\ UNCHANGED active
        /\ IF Drained(d) THEN Disconnect(d) /\ UNCHANGED failed ELSE GiveUp(d)
  /\ UNCHANGED <<minted, edge, via, fails>>

\* TunnelBear.Disconnect: the active edge under the lock, then the dialer.
Teardown(d) ==
  /\ \/ /\ Go(d, "clear", "off") \/ (Drained(d) /\ Go(d, "rest", "off"))
        /\ active' = "none"
        /\ UNCHANGED <<vars, dialer, failed>>
     \/ /\ Go(d, "off", "rest")
        /\ dialer' = "off" /\ UNCHANGED active
        /\ IF Drained(d) THEN Disconnect(d) /\ UNCHANGED failed ELSE GiveUp(d)
  /\ UNCHANGED <<minted, edge, via, fails>>

\* sessionTTL passes.
SessionAges ==
  /\ minted /\ minted' = FALSE
  /\ UNCHANGED <<vars, dialer, active, at, edge, via, fails, failed>>

-----------------------------------------------------------------------------
\* Server.handle, with the dialer it finds.

\* The dialer is loaded after the drain flag, and kept for the dial.
LoadDialer(c) ==
  /\ conn[c] = "dialing" /\ via[c] = "none"
  /\ via' = [via EXCEPT ![c] = dialer]
  /\ UNCHANGED <<vars, dialer, provider, at, fails, failed>>

\* Mutant: a failed dial is not recorded.
DialUnrecorded(c) ==
  /\ via[c] # "none"
  /\ \/ DialSucceeds(c) /\ via[c] # "off" /\ fails' = 0 /\ UNCHANGED via
     \/ DialFails(c) /\ via' = [via EXCEPT ![c] = "none"] /\ UNCHANGED fails
  /\ UNCHANGED <<dialer, provider, at, failed>>

\* The dial and recordDial; disconnectedDialer refuses every target.
Dial(c) ==
  /\ via[c] # "none"
  /\ \/ DialSucceeds(c) /\ via[c] # "off" /\ fails' = 0 /\ UNCHANGED via
     \/ /\ DialFails(c)
        /\ via' = [via EXCEPT ![c] = "none"]
        /\ fails' = IF fails < FailThreshold THEN fails + 1 ELSE fails
  /\ UNCHANGED <<dialer, provider, at, failed>>

Arrive(c) ==
  /\ Accept(c) \/ BadRequest(c) \/ Open(c)
  /\ UNCHANGED <<dialer, provider, at, via, fails, failed>>

PassGate(c) ==
  /\ Gate(c)
  /\ UNCHANGED <<dialer, provider, at, via, fails, failed>>

Leave(c) ==
  /\ ReplyFails(c) \/ Close(c)
  /\ via' = [via EXCEPT ![c] = "none"]
  /\ UNCHANGED <<dialer, provider, at, fails, failed>>

StartDrain(r) ==
  /\ TriggerDrain(r)
  /\ UNCHANGED <<dialer, provider, at, via, fails, failed>>

PollDrained(r) ==
  /\ WaitDrained(r)
  /\ UNCHANGED <<dialer, provider, at, via, fails, failed>>

DrainTimesOut(r) ==
  /\ WaitTimesOut(r)
  /\ UNCHANGED <<dialer, provider, at, via, fails, failed>>

Drive(d) == \/ Begin(d) \/ Session(d) \/ SignIn(d) \/ SignInFails(d)
            \/ ChooseEdge(d) \/ Refused(d) \/ NoEdges(d) \/ GiveDialer(d)
            \/ Claim(d) \/ Settle(d) \/ Leak(d) \/ Teardown(d)

Relay(c) == LoadDialer(c) \/ Dial(c) \/ Arrive(c) \/ PassGate(c) \/ Leave(c)

ChainNext ==
  \/ \E d \in Drivers : Drive(d)
  \/ \E r \in Rotations : StartDrain(r) \/ PollDrained(r) \/ DrainTimesOut(r)
  \/ \E c \in Conns : Relay(c)
  \/ SessionAges

ChainSpec == ChainInit /\ [][ChainNext]_cvars

\* Every call is bounded; clients come, some with good requests; the watchdog
\* ticks and the drain polls, though it need not time out; a service that is
\* asked again and again answers.
ChainFairness ==
  /\ \A d \in Drivers :
       WF_cvars(Drive(d)) /\ SF_cvars(SignIn(d)) /\ SF_cvars(ChooseEdge(d))
  /\ \A c \in Conns : WF_cvars(Relay(c)) /\ SF_cvars(PassGate(c))
  /\ \A r \in Rotations : WF_cvars(PollDrained(r))

FairChainSpec == ChainSpec /\ ChainFairness

-----------------------------------------------------------------------------
\* The values the variables range over: no dial is made from the pod's own
\* address (proxy.go:172-176).
ChainTypeOK ==
  /\ TypeOK
  /\ dialer \in Edges \cup {"off"}
  /\ active \in Edges \cup {"none"}
  /\ minted \in BOOLEAN
  /\ at \in [Drivers -> Step]
  /\ edge \in [Drivers -> Edges \cup {"none"}]
  /\ via \in [Conns -> Edges \cup {"off", "none"}]
  /\ fails \in 0..FailThreshold
  /\ failed \in BOOLEAN

\* A pod that does not claim to be connected relays nothing: outside the
\* moment between a driver's two writes, without an active edge the dialer is
\* the one that refuses (tunnelbear.go:236-244, proxy.go:172-175), however
\* Connects and Disconnects overlap.
DisconnectedFailsClosed ==
  active = "none" /\ (\A d \in Drivers : at[d] \notin {"claim", "off"})
    => dialer = "off"

\* A pod that refuses every dial does not stay so: after a rotation that gave
\* up, and also where a Disconnect and a Connect have crossed and left the
\* refusing dialer under an active edge (main.go:465-473).
RefusalHealed == dialer = "off" ~> dialer # "off"
=============================================================================
