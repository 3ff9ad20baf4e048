------------------------- MODULE ConnectProxyProofs -------------------------
(***************************************************************************)
(* The proofs of ConnectProxy: its counters are the cardinalities of the   *)
(* connections they stand for, hence its types - the proxy never holds     *)
(* more than Capacity connections - its drain flag is always released, and *)
(* a drain cuts nobody it counts and, without overlap, admits nobody.      *)
(***************************************************************************)
EXTENDS ConnectProxy, FiniteSetTheorems, TLAPS

Busy == ConnPhase \ {"none"}

\* The types TypeOK is made of that hold without counting.
Shape ==
  /\ conn \in [Conns -> ConnPhase]
  /\ rot \in [Rotations -> RotPhase]
  /\ draining \in BOOLEAN
  /\ sem <= Capacity

CountInv == Shape /\ CountersExact

\* A connection that moves into a set of phases is counted once more.
LEMMA CountIn ==
  ASSUME NEW P, NEW c \in Conns, NEW to \in P, Shape,
         conn[c] \notin P, conn' = [conn EXCEPT ![c] = to]
  PROVE  /\ Cardinality(InPhase(P)) \in Nat
         /\ Cardinality(InPhase(P)') = Cardinality(InPhase(P)) + 1
<1>1. IsFiniteSet(InPhase(P))
  BY ConnsAssumption, FS_Subset DEF InPhase
<1>2. InPhase(P)' = InPhase(P) \cup {c}
  BY DEF InPhase, Shape
<1>3. c \notin InPhase(P)
  BY DEF InPhase
<1> QED
  BY <1>1, <1>2, <1>3, FS_AddElement, FS_CardinalityType

\* ... out of it, once less.
LEMMA CountOut ==
  ASSUME NEW P, NEW c \in Conns, NEW to, to \notin P, Shape,
         conn[c] \in P, conn' = [conn EXCEPT ![c] = to]
  PROVE  /\ Cardinality(InPhase(P)) \in Nat
         /\ Cardinality(InPhase(P)) > 0
         /\ Cardinality(InPhase(P)') = Cardinality(InPhase(P)) - 1
<1>1. IsFiniteSet(InPhase(P))
  BY ConnsAssumption, FS_Subset DEF InPhase
<1>2. InPhase(P)' = InPhase(P) \ {c}
  BY DEF InPhase, Shape
<1>3. c \in InPhase(P)
  BY DEF InPhase
<1>4. Cardinality(InPhase(P)) \in Nat /\ Cardinality(InPhase(P)) # 0
  BY <1>1, <1>3, FS_CardinalityType, FS_EmptySet
<1>5. Cardinality(InPhase(P) \ {c}) = Cardinality(InPhase(P)) - 1
  BY <1>1, <1>3, FS_RemoveElement
<1> QED
  BY <1>2, <1>4, <1>5

\* ... and one that stays in it, or out of it, changes no count.
LEMMA CountSame ==
  ASSUME NEW P, NEW c \in Conns, NEW to, Shape,
         conn[c] \in P <=> to \in P, conn' = [conn EXCEPT ![c] = to]
  PROVE  InPhase(P)' = InPhase(P)
  BY DEF InPhase, Shape

\* CountInv is inductive.
LEMMA CountInvariant == Spec => []CountInv
<1> USE DEF CountInv, CountersExact, Busy, Move, Return, RotMove, ConnPhase
<1>1. Init => CountInv
  <2> SUFFICES ASSUME Init
               PROVE  CountInv
    OBVIOUS
  <2>1. InPhase(Busy) = {} /\ InPhase({"open"}) = {}
    BY DEF Init, InPhase
  <2>2. Cardinality(InPhase(Busy)) = 0 /\ Cardinality(InPhase({"open"})) = 0
    BY <2>1, FS_EmptySet
  <2>3. Shape
    <3>1. conn \in [Conns -> ConnPhase]
      BY DEF Init
    <3>2. rot \in [Rotations -> RotPhase]
      BY DEF Init, RotPhase
    <3>3. draining \in BOOLEAN
      BY DEF Init
    <3>4. sem <= Capacity
      BY CapacityAssumption DEF Init
    <3> QED
      BY <3>1, <3>2, <3>3, <3>4 DEF Shape
  <2> QED
    BY <2>2, <2>3 DEF Init
<1>2. CountInv /\ [Next]_vars => CountInv'
  <2> SUFFICES ASSUME CountInv, [Next]_vars
               PROVE  CountInv'
    OBVIOUS
  <2>1. ASSUME NEW c \in Conns, Accept(c) PROVE CountInv'
    <3>1. sem' = Cardinality(InPhase(Busy))' /\ sem' <= Capacity
      <4>1. /\ Cardinality(InPhase(Busy)) \in Nat
            /\ Cardinality(InPhase(Busy)') = Cardinality(InPhase(Busy)) + 1
        BY <2>1, CountIn DEF Accept
      <4> QED
        BY <2>1, <4>1, CapacityAssumption DEF Accept
    <3>2. InPhase({"open"})' = InPhase({"open"})
      BY <2>1, CountSame DEF Accept
    <3> QED
      BY <2>1, <3>1, <3>2 DEF Accept, Shape
  <2>2. ASSUME NEW c \in Conns,
               BadRequest(c) \/ DialFails(c) \/ ReplyFails(c)
                 \/ (Gate(c) /\ draining)
        PROVE  CountInv'
    <3>1. /\ conn[c] \in Busy \ {"open"} /\ conn' = [conn EXCEPT ![c] = "none"]
          /\ sem' = sem - 1
          /\ UNCHANGED <<openTunnels, draining, rot>>
      BY <2>2 DEF BadRequest, DialFails, ReplyFails, Gate
    <3>2. sem' = Cardinality(InPhase(Busy))' /\ sem' <= Capacity
      <4>1. /\ Cardinality(InPhase(Busy)) \in Nat
            /\ Cardinality(InPhase(Busy)') = Cardinality(InPhase(Busy)) - 1
        BY <3>1, CountOut
      <4> QED
        BY <3>1, <4>1, CapacityAssumption DEF Shape
    <3>3. InPhase({"open"})' = InPhase({"open"})
      BY <3>1, CountSame
    <3> QED
      BY <3>1, <3>2, <3>3 DEF Shape
  <2>3. ASSUME NEW c \in Conns, DialSucceeds(c) \/ (Gate(c) /\ ~draining)
        PROVE  CountInv'
    <3>1. /\ conn[c] \in Busy \ {"open"}
          /\ \E to \in Busy \ {"open"} : conn' = [conn EXCEPT ![c] = to]
          /\ UNCHANGED <<sem, openTunnels, draining, rot>>
      BY <2>3 DEF DialSucceeds, Gate
    <3>2. /\ InPhase(Busy)' = InPhase(Busy)
          /\ InPhase({"open"})' = InPhase({"open"})
      BY <3>1, CountSame
    <3> QED
      BY <3>1, <3>2 DEF Shape
  <2>4. ASSUME NEW c \in Conns, Open(c) PROVE CountInv'
    <3>1. InPhase(Busy)' = InPhase(Busy)
      BY <2>4, CountSame DEF Open
    <3>2. openTunnels' = Cardinality(InPhase({"open"}))'
      BY <2>4, CountIn DEF Open
    <3> QED
      BY <2>4, <3>1, <3>2 DEF Open, Shape
  <2>5. ASSUME NEW c \in Conns, Close(c) PROVE CountInv'
    <3>1. sem' = Cardinality(InPhase(Busy))' /\ sem' <= Capacity
      <4>1. /\ Cardinality(InPhase(Busy)) \in Nat
            /\ Cardinality(InPhase(Busy)') = Cardinality(InPhase(Busy)) - 1
        BY <2>5, CountOut DEF Close
      <4> QED
        BY <2>5, <4>1, CapacityAssumption DEF Close, Shape
    <3>2. openTunnels' = Cardinality(InPhase({"open"}))'
      BY <2>5, CountOut DEF Close
    <3> QED
      BY <2>5, <3>1, <3>2 DEF Close, Shape
  <2>6. ASSUME NEW r \in Rotations, Rotate(r) PROVE CountInv'
    BY <2>6 DEF Rotate, TriggerDrain, WaitDrained, WaitTimesOut, Disconnect,
       Reconnect, Shape, RotPhase, InPhase
  <2>7. CASE UNCHANGED vars
    BY <2>7 DEF vars, Shape, InPhase
  <2> QED
    BY <2>1, <2>2, <2>3, <2>4, <2>5, <2>6, <2>7 DEF Next, Handle
<1> QED
  BY <1>1, <1>2, PTL DEF Spec

\* No path through handle leaks a token or a tunnel count.
THEOREM NothingLeaks == Spec => []CountersExact
<1>1. CountInv => CountersExact
  BY DEF CountInv
<1> QED
  BY <1>1, CountInvariant, PTL

\* The proxy never holds more connections than its capacity, and never counts
\* a tunnel it does not hold.
THEOREM TypeCorrect == Spec => []TypeOK
<1>1. CountInv => TypeOK
  <2> SUFFICES ASSUME CountInv
               PROVE  TypeOK
    OBVIOUS
  <2> DEFINE B == InPhase(ConnPhase \ {"none"})
             O == InPhase({"open"})
  <2>1. O \subseteq B /\ B \subseteq Conns
    BY DEF InPhase, ConnPhase
  <2>2. IsFiniteSet(B) /\ IsFiniteSet(O)
    BY <2>1, ConnsAssumption, FS_Subset
  <2>3. Cardinality(B) \in Nat /\ Cardinality(O) \in Nat
    BY <2>2, FS_CardinalityType
  <2>4. Cardinality(O) <= Cardinality(B)
    BY <2>1, <2>2, FS_Subset
  <2>5. sem = Cardinality(B) /\ openTunnels = Cardinality(O)
    BY DEF CountInv, CountersExact
  <2> HIDE DEF B, O
  <2> QED
    BY <2>3, <2>4, <2>5, CapacityAssumption DEF CountInv, Shape, TypeOK
<1> QED
  BY <1>1, CountInvariant, PTL

\* The drain flag never outlives the waits that set it, however rotations
\* overlap.
THEOREM FlagReleased == Spec => []DrainFlagReleased
<1>1. Init => DrainFlagReleased
  BY DEF Init, DrainFlagReleased
<1>2. CountInv /\ DrainFlagReleased /\ [Next]_vars => DrainFlagReleased'
  <2> SUFFICES ASSUME CountInv, DrainFlagReleased, [Next]_vars
               PROVE  DrainFlagReleased'
    OBVIOUS
  <2> USE DEF DrainFlagReleased, Move, Return, RotMove
  <2>1. ASSUME NEW c \in Conns, Handle(c) PROVE DrainFlagReleased'
    BY <2>1 DEF Handle, Accept, BadRequest, Gate, DialSucceeds, DialFails,
       Open, ReplyFails, Close
  <2>2. ASSUME NEW r \in Rotations, Rotate(r) PROVE DrainFlagReleased'
    <3>1. rot \in [Rotations -> RotPhase]
      BY DEF CountInv, Shape
    <3> QED
      BY <2>2, <3>1 DEF Rotate, TriggerDrain, WaitDrained, WaitTimesOut,
         Disconnect, Reconnect
  <2>3. CASE UNCHANGED vars
    BY <2>3 DEF vars
  <2> QED
    BY <2>1, <2>2, <2>3 DEF Next
<1> QED
  BY <1>1, <1>2, CountInvariant, PTL DEF Spec

\* A drain that ends by its poll cuts no client: when the counter read zero no
\* connection was relaying (drain.go:36-46).  What it does not see is a request
\* past the gate (proxy.go:345).
DrainLeavesNoTunnel ==
  [][\A r \in Rotations : WaitDrained(r) => InPhase({"open"}) = {}]_vars

\* Every drain that ends without its timeout has waited for the last of the
\* tunnels, for any number of connections and of overlapping rotations.
THEOREM DrainCutsNobody == Spec => DrainLeavesNoTunnel
<1>1. CountInv /\ [Next]_vars
        => \A r \in Rotations : WaitDrained(r) => InPhase({"open"}) = {}
  <2> SUFFICES ASSUME CountInv, NEW r \in Rotations, WaitDrained(r)
               PROVE  InPhase({"open"}) = {}
    OBVIOUS
  <2>1. Cardinality(InPhase({"open"})) = 0
    BY DEF CountInv, CountersExact, WaitDrained
  <2>2. IsFiniteSet(InPhase({"open"}))
    BY ConnsAssumption, FS_Subset DEF InPhase
  <2> QED
    BY <2>1, <2>2, FS_EmptySet
<1> QED
  BY <1>1, CountInvariant, PTL DEF Spec, DrainLeavesNoTunnel

\* Past the gate: dialling, dialled or relaying.
Past == {"dialing", "dialed", "open"}

\* While a rotation waits nobody new gets past the gate (proxy.go:340-346), so
\* that whoever is there when it disconnects was there when the drain began.
WaitAdmitsNobody ==
  [][\A r \in Rotations :
       rot[r] = "waiting" => InPhase(Past)' \subseteq InPhase(Past)]_vars

\* It takes overlapping rotations to break this: the first wait that ends opens
\* the gate under the others.
OneRotation == \A r, s \in Rotations : r = s

\* With one rotation at a time a drain admits nobody, whatever clients do.
THEOREM DrainAdmitsNobody == ASSUME OneRotation PROVE Spec => WaitAdmitsNobody
<1> DEFINE Gated == \A r \in Rotations : rot[r] = "waiting" => draining
<1> USE DEF Move, Return, RotMove
<1>1. Init => Gated
  BY DEF Init
<1>2. CountInv /\ Gated /\ [Next]_vars => Gated'
  <2> SUFFICES ASSUME CountInv, Gated, [Next]_vars PROVE Gated'
    OBVIOUS
  <2>1. ASSUME NEW c \in Conns, Handle(c) PROVE UNCHANGED <<rot, draining>>
    BY <2>1 DEF Handle, Accept, BadRequest, Gate, DialSucceeds, DialFails,
       Open, ReplyFails, Close
  <2>2. ASSUME NEW r \in Rotations, Rotate(r) PROVE Gated'
    <3>1. rot \in [Rotations -> RotPhase]
      BY DEF CountInv, Shape
    <3>2. \/ draining'
          \/ draining' = FALSE /\ rot'[r] # "waiting"
          \/ draining' = draining /\ rot'[r] # "waiting"
      BY <2>2, <3>1 DEF Rotate, TriggerDrain, WaitDrained, WaitTimesOut,
         Disconnect, Reconnect
    <3>3. \A s \in Rotations : s = r
      BY OneRotation DEF OneRotation
    <3> QED
      BY <3>2, <3>3
  <2> QED
    BY <2>1, <2>2 DEF Next, vars
<1>3. CountInv /\ Gated /\ [Next]_vars
        => \A r \in Rotations :
             rot[r] = "waiting" => InPhase(Past)' \subseteq InPhase(Past)
  <2> SUFFICES ASSUME CountInv, draining, [Next]_vars
               PROVE  InPhase(Past)' \subseteq InPhase(Past)
    OBVIOUS
  <2> conn \in [Conns -> ConnPhase]
    BY DEF CountInv, Shape
  <2>1. ASSUME NEW c \in Conns, Handle(c)
        PROVE  InPhase(Past)' \subseteq InPhase(Past)
    <3>1. \E to \in ConnPhase :
            /\ conn' = [conn EXCEPT ![c] = to]
            /\ to \in Past => conn[c] \in Past
      BY <2>1 DEF Handle, Accept, BadRequest, Gate, DialSucceeds, DialFails,
         Open, ReplyFails, Close, Past, ConnPhase
    <3> QED
      BY <3>1 DEF InPhase
  <2>2. ASSUME NEW r \in Rotations, Rotate(r) PROVE conn' = conn
    BY <2>2 DEF Rotate, TriggerDrain, WaitDrained, WaitTimesOut, Disconnect,
       Reconnect
  <2> QED
    BY <2>1, <2>2 DEF Next, vars, InPhase
<1> QED
  BY <1>1, <1>2, <1>3, CountInvariant, PTL DEF Spec, WaitAdmitsNobody
=============================================================================
