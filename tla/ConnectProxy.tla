---------------------------- MODULE ConnectProxy ----------------------------
(***************************************************************************)
(* The in-process CONNECT proxy (internal/proxy/proxy.go) and the drain    *)
(* controller through which a rotation bleeds it before it takes the       *)
(* tunnel down (cmd/tundler-tunnel/drain.go).                              *)
(*                                                                         *)
(* A connection is one run of Server.handle.  The counters are variables   *)
(* of their own, moved exactly where the code moves them, so that an early *)
(* return which forgets one shows.                                         *)
(***************************************************************************)
EXTENDS Naturals, FiniteSets

CONSTANTS Conns,     \* client connections that may exist at a time
          Rotations, \* threads that may run a rotation or a recycle's drain
          Capacity   \* maxConcurrent

ASSUME CapacityAssumption == Capacity \in Nat
ASSUME ConnsAssumption == IsFiniteSet(Conns)

VARIABLES
  conn,        \* where handle(c) is
  sem,         \* tokens taken from Server.sem
  openTunnels, \* Server.openTunnels
  draining,    \* Server.draining
  rot          \* where each rotation is

vars == <<conn, sem, openTunnels, draining, rot>>

ConnPhase == {"none", "parsing", "dialing", "dialed", "open"}
RotPhase  == {"idle", "waiting", "drained", "down"}

Init ==
  /\ conn = [c \in Conns |-> "none"]
  /\ sem = 0
  /\ openTunnels = 0
  /\ draining = FALSE
  /\ rot = [r \in Rotations |-> "idle"]

Move(c, from, to) == conn[c] = from /\ conn' = [conn EXCEPT ![c] = to]

\* handle returns: its deferred receive gives the token back.
Return(c, from) == Move(c, from, "none") /\ sem' = sem - 1

\* The token is acquired without blocking; a full proxy answers 503.
Accept(c) ==
  /\ conn[c] = "none" /\ sem < Capacity
  /\ Move(c, "none", "parsing")
  /\ sem' = sem + 1
  /\ UNCHANGED <<openTunnels, draining, rot>>

\* No CONNECT line within connectParseTimeout, or a bad one: 400.
BadRequest(c) ==
  /\ Return(c, "parsing")
  /\ UNCHANGED <<openTunnels, draining, rot>>

\* Mutant: the drain flag is not read.
GateOpen(c) ==
  /\ Move(c, "parsing", "dialing")
  /\ UNCHANGED <<sem, openTunnels, draining, rot>>

\* The drain flag is read once, after the request has been parsed: 503, or on
\* to the upstream dial.
Gate(c) ==
  /\ IF draining THEN Return(c, "parsing")
                 ELSE Move(c, "parsing", "dialing") /\ UNCHANGED sem
  /\ UNCHANGED <<openTunnels, draining, rot>>

\* The dial follows whatever route, or dialer, the pod has at that moment.
DialSucceeds(c) ==
  /\ Move(c, "dialing", "dialed")
  /\ UNCHANGED <<sem, openTunnels, draining, rot>>

\* 502, within upstreamDialTimeout.
DialFails(c) ==
  /\ Return(c, "dialing")
  /\ UNCHANGED <<openTunnels, draining, rot>>

\* The 200 is written and only now the connection counts as an open tunnel.
Open(c) ==
  /\ Move(c, "dialed", "open")
  /\ openTunnels' = openTunnels + 1
  /\ UNCHANGED <<sem, draining, rot>>

\* Mutant: this early return keeps its token.
ReplyFailsLeaking(c) ==
  /\ Move(c, "dialed", "none")
  /\ UNCHANGED <<sem, openTunnels, draining, rot>>

ReplyFails(c) ==
  /\ Return(c, "dialed")
  /\ UNCHANGED <<openTunnels, draining, rot>>

\* Both splices have ended: a side closed, or the tunnel deadline passed.
Close(c) ==
  /\ Return(c, "open")
  /\ openTunnels' = openTunnels - 1
  /\ UNCHANGED <<draining, rot>>

-----------------------------------------------------------------------------

RotMove(r, from, to) == rot[r] = from /\ rot' = [rot EXCEPT ![r] = to]

\* TriggerGracefulDrain.
TriggerDrain(r) ==
  /\ RotMove(r, "idle", "waiting")
  /\ draining' = TRUE
  /\ UNCHANGED <<conn, sem, openTunnels>>

\* WaitForActiveConnectionsToDrain returns, and its defer clears the flag: a
\* poll saw no open tunnel ...
WaitDrained(r) ==
  /\ openTunnels = 0
  /\ RotMove(r, "waiting", "drained")
  /\ draining' = FALSE
  /\ UNCHANGED <<conn, sem, openTunnels>>

\* Mutant: the flag is cleared on the drained path only.
WaitTimesOutClosed(r) ==
  /\ openTunnels > 0
  /\ RotMove(r, "waiting", "drained")
  /\ UNCHANGED <<conn, sem, openTunnels, draining>>

\* ... or drainWaitTimeout passed, or the context was cancelled.
WaitTimesOut(r) ==
  /\ openTunnels > 0
  /\ RotMove(r, "waiting", "drained")
  /\ draining' = FALSE
  /\ UNCHANGED <<conn, sem, openTunnels>>

\* prov.Disconnect.
Disconnect(r) ==
  /\ RotMove(r, "drained", "down")
  /\ UNCHANGED <<conn, sem, openTunnels, draining>>

\* connectWithRetry ends, with a tunnel or without one.
Reconnect(r) ==
  /\ RotMove(r, "down", "idle")
  /\ UNCHANGED <<conn, sem, openTunnels, draining>>

Handle(c) == \/ Accept(c) \/ BadRequest(c) \/ Gate(c) \/ DialSucceeds(c)
             \/ DialFails(c) \/ Open(c) \/ ReplyFails(c) \/ Close(c)

Rotate(r) == \/ TriggerDrain(r) \/ WaitDrained(r) \/ WaitTimesOut(r)
             \/ Disconnect(r) \/ Reconnect(r)

Next == (\E c \in Conns : Handle(c)) \/ (\E r \in Rotations : Rotate(r))

Spec == Init /\ [][Next]_vars

\* Every phase of handle is bounded by a deadline of its own, and the drain
\* controller polls.  Clients need not come, and no rotation need start, end
\* or time out.
Fairness ==
  /\ \A c \in Conns :
       WF_vars(BadRequest(c) \/ Gate(c) \/ DialSucceeds(c) \/ DialFails(c)
                 \/ Open(c) \/ ReplyFails(c) \/ Close(c))
  /\ \A r \in Rotations : WF_vars(WaitDrained(r))

FairSpec == Spec /\ Fairness

-----------------------------------------------------------------------------
\* The values the variables range over.
TypeOK ==
  /\ conn \in [Conns -> ConnPhase]
  /\ sem \in 0..Capacity
  /\ openTunnels \in 0..Capacity
  /\ draining \in BOOLEAN
  /\ rot \in [Rotations -> RotPhase]

InPhase(P) == {c \in Conns : conn[c] \in P}

\* No path through handle leaks or double-returns a token or a tunnel count
\* (proxy.go:321-328, 381-382): both counters are exactly the connections they
\* stand for, so the proxy neither wedges at its limit nor drains too early.
CountersExact ==
  /\ sem = Cardinality(InPhase(ConnPhase \ {"none"}))
  /\ openTunnels = Cardinality(InPhase({"open"}))

\* The drain flag never outlives the waits that set it (drain.go:50-52), even
\* when rotations overlap or the wait times out: the proxy does not go on
\* refusing clients after the last of them is over.
DrainFlagReleased ==
  draining => \E r \in Rotations : rot[r] = "waiting"

\* Behind the closed gate a drain completes without its timeout: the tunnels
\* in flight run out and the poll finds none (drain.go:36-46), unless the end
\* of an overlapping wait has opened the gate again.
DrainCompletes ==
  \A r \in Rotations : rot[r] = "waiting" ~> rot[r] = "drained" \/ ~draining
=============================================================================
