-------------------------- MODULE WedgeGuardProofs --------------------------
(***************************************************************************)
(* The wedge guard catches every continuous wedge in bounded time and      *)
(* leaves a recovering pod alone, for every ticker period and threshold.   *)
(***************************************************************************)
EXTENDS WedgeGuard, TLAPS

\* The variables of WedgeGuard keep their types (runWedgeGuard).
THEOREM TypeCorrect == Spec => []TypeOK
<1>1. Init => TypeOK
  <2> SUFFICES ASSUME Init PROVE TypeOK
    OBVIOUS
  <2>1. since \in [set : BOOLEAN, age : Nat]
    BY DEF Init, Unset
  <2>2. /\ sinceTick \in 0..Period /\ dark \in Nat
        /\ bright \in 0..(Period + 1) /\ rested \in 0..(Threshold + 1)
    BY PeriodAssumption, ThresholdAssumption DEF Init
  <2>3. ready \in BOOLEAN /\ tripped \in BOOLEAN
    BY DEF Init
  <2> QED
    BY <2>1, <2>2, <2>3 DEF TypeOK
<1>2. TypeOK /\ [Next]_vars => TypeOK'
  <2> SUFFICES ASSUME TypeOK, [Next]_vars
               PROVE  TypeOK'
    OBVIOUS
  <2> USE PeriodAssumption, ThresholdAssumption
          DEF TypeOK, Unset, SetAt, observed
  <2>1. CASE Advance
    <3>1. /\ dark' \in Nat /\ bright' \in 0..(Period + 1)
          /\ rested' \in 0..(Threshold + 1)
      BY <2>1 DEF Advance, Observe
    <3>2. /\ sinceTick' \in 0..Period /\ since' \in [set : BOOLEAN, age : Nat]
          /\ UNCHANGED <<ready, tripped>>
      BY <2>1 DEF Advance
    <3> QED
      BY <3>1, <3>2
  <2>2. CASE ChangeState
    BY <2>2 DEF ChangeState
  <2>3. CASE Tick
    <3>1. since' \in {since, Unset, SetAt(0)} /\ tripped' \in {tripped, TRUE}
      BY <2>3, Zenon DEF Tick
    <3>2. since' \in [set : BOOLEAN, age : Nat]
      <4>1. Unset \in [set : BOOLEAN, age : Nat]
        OBVIOUS
      <4>2. SetAt(0) \in [set : BOOLEAN, age : Nat]
        OBVIOUS
      <4> HIDE DEF Unset, SetAt
      <4> QED
        BY <3>1, <4>1, <4>2, Zenon
    <3>3. tripped' \in BOOLEAN
      BY <3>1
    <3>4. /\ sinceTick' \in 0..Period
          /\ UNCHANGED <<ready, observed>>
      BY <2>3 DEF Tick
    <3> QED
      BY <3>2, <3>3, <3>4
  <2>4. CASE UNCHANGED vars
    BY <2>4 DEF vars
  <2> QED
    BY <2>1, <2>2, <2>3, <2>4 DEF Next
<1> QED
  BY <1>1, <1>2, PTL DEF Spec

\* What WedgeCaught rests on.  As long as the guard has not tripped: without
\* nonReadySince the darkness is younger than the last tick; with it, the
\* darkness began at most a period before it was set, and the last tick found
\* it no older than the threshold.
Caught ==
  /\ ready => dark = 0
  /\ ~tripped /\ ~since.set => dark <= sinceTick
  /\ ~tripped /\ since.set => /\ dark <= since.age + Period
                              /\ since.age <= Threshold + sinceTick

\* Caught is inductive relative to the types.
LEMMA CaughtInvariant == Spec => []Caught
<1>1. Init => Caught
  BY DEF Init, Caught, Unset
<1>2. TypeOK /\ Caught /\ [Next]_vars => Caught'
  <2> SUFFICES ASSUME TypeOK, Caught, [Next]_vars
               PROVE  Caught'
    OBVIOUS
  <2> USE PeriodAssumption, ThresholdAssumption DEF TypeOK, Caught, observed
  <2>1. CASE Advance
    BY <2>1 DEF Advance, Observe, SetAt
  <2>2. CASE ChangeState
    BY <2>2 DEF ChangeState
  <2>3. CASE Tick
    BY <2>3 DEF Tick, Unset, SetAt
  <2>4. CASE UNCHANGED vars
    BY <2>4 DEF vars
  <2> QED
    BY <2>1, <2>2, <2>3, <2>4 DEF Next
<1> QED
  BY <1>1, <1>2, TypeCorrect, PTL DEF Spec

\* A genuine wedge is caught in bounded time (main.go:481-484), whatever the
\* period of the ticker and the threshold are.
THEOREM WedgesAreCaught == Spec => []WedgeCaught
<1>1. TypeOK /\ Caught => WedgeCaught
  BY PeriodAssumption, ThresholdAssumption DEF TypeOK, Caught, WedgeCaught
<1> QED
  BY <1>1, TypeCorrect, CaughtInvariant, PTL

\* What NoFalseAlarm rests on.  With nonReadySince the pod has been Ready for
\* no longer than since the last sample, which found it otherwise, and the
\* last long spell of Ready is over for at least as long as it is set.
Patient ==
  /\ ~ready => bright = 0
  /\ since.set => /\ bright <= sinceTick
                  /\ since.age <= rested \/ rested > Threshold
  /\ NoFalseAlarm

\* Patient is inductive relative to the types.
LEMMA PatientInvariant == Spec => []Patient
<1>1. Init => Patient
  BY DEF Init, Patient, NoFalseAlarm, Unset
<1>2. TypeOK /\ Patient /\ [Next]_vars => Patient'
  <2> SUFFICES ASSUME TypeOK, Patient, [Next]_vars
               PROVE  Patient'
    OBVIOUS
  <2> USE PeriodAssumption, ThresholdAssumption
          DEF TypeOK, Patient, NoFalseAlarm, observed
  <2>1. CASE Advance
    <3>1. since.set => bright' <= sinceTick' /\ bright' <= Period
      BY <2>1 DEF Advance, Observe
    <3>2. since.set => rested' = IF rested <= Threshold THEN rested + 1 ELSE rested
      BY <2>1, <3>1 DEF Advance, Observe
    <3>3. /\ since'.set = since.set
          /\ since.set => since'.age = since.age + 1
          /\ UNCHANGED <<ready, tripped>>
          /\ ~ready => bright' = bright
          /\ ~tripped
      BY <2>1 DEF Advance, Observe, SetAt
    <3> QED
      BY <3>1, <3>2, <3>3
  <2>2. CASE ChangeState
    BY <2>2 DEF ChangeState
  <2>3. CASE Tick
    BY <2>3 DEF Tick, Unset, SetAt
  <2>4. CASE UNCHANGED vars
    BY <2>4 DEF vars
  <2> QED
    BY <2>1, <2>2, <2>3, <2>4 DEF Next
<1> QED
  BY <1>1, <1>2, TypeCorrect, PTL DEF Spec

\* A pod that keeps coming back for more than a period within the threshold is
\* never ended (main.go:490-492), whatever the period and the threshold are.
THEOREM RecoveringSpared == Spec => []NoFalseAlarm
<1>1. Patient => NoFalseAlarm
  BY DEF Patient
<1> QED
  BY <1>1, PatientInvariant, PTL
=============================================================================
