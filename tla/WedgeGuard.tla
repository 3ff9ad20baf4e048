----------------------------- MODULE WedgeGuard -----------------------------
(***************************************************************************)
(* runWedgeGuard (cmd/tundler-tunnel/main.go): a ticker samples the        *)
(* tracker, and the process exits once the samples have shown it not Ready *)
(* for longer than a threshold.  Time advances in units; the state may     *)
(* change at any moment between two samples.                               *)
(***************************************************************************)
EXTENDS Naturals

CONSTANTS Period,    \* of the ticker, 30 s
          Threshold  \* WEDGE_GUARD_THRESHOLD_SECONDS

ASSUME PeriodAssumption == Period \in Nat \ {0}
ASSUME ThresholdAssumption == Threshold \in Nat

VARIABLES
  ready,     \* the tracker's state is Ready
  sinceTick, \* time since the last tick
  since,     \* nonReadySince, as the time passed since then, if it is set
  dark,      \* time the state has continuously been not Ready
  bright,    \* time it has continuously been Ready, up to more than a period
  rested,    \* time since it last had been Ready for more than a period, or
             \* since the start, up to more than the threshold
  tripped    \* the guard has decided to exit the process

observed == <<dark, bright, rested>>
vars == <<ready, sinceTick, since, observed, tripped>>

Unset == [set |-> FALSE, age |-> 0]
SetAt(a) == [set |-> TRUE, age |-> a]

Init ==
  /\ ready \in BOOLEAN
  /\ sinceTick = 0
  /\ since = Unset
  /\ dark = 0 /\ bright = 0 /\ rested = 0
  /\ tripped = FALSE

\* A unit of time passes, and the observer's three stopwatches run.
Observe ==
  /\ dark' = IF ready THEN 0 ELSE dark + 1
  /\ bright' = IF ready /\ bright <= Period THEN bright + 1 ELSE bright
  /\ rested' = IF bright' > Period THEN 0
               ELSE IF rested <= Threshold THEN rested + 1 ELSE rested

\* Mutant: the ticker does not fire.
AdvanceUnsampled ==
  /\ ~tripped
  /\ sinceTick' = sinceTick + 1
  /\ since' = IF since.set THEN SetAt(since.age + 1) ELSE since
  /\ Observe
  /\ UNCHANGED <<ready, tripped>>

Advance ==
  /\ ~tripped /\ sinceTick < Period
  /\ sinceTick' = sinceTick + 1
  /\ since' = IF since.set THEN SetAt(since.age + 1) ELSE since
  /\ Observe
  /\ UNCHANGED <<ready, tripped>>

\* StateTracker.Set, by whoever drives the pod.
ChangeState ==
  /\ ~tripped
  /\ ready' = ~ready
  /\ dark' = 0 /\ bright' = 0
  /\ UNCHANGED <<sinceTick, since, rested, tripped>>

\* Mutant: every sample that is not Ready sets nonReadySince.
TickRestarting ==
  /\ ~tripped /\ sinceTick = Period
  /\ sinceTick' = 0
  /\ since' = IF ready THEN Unset ELSE SetAt(0)
  /\ tripped' = (~ready /\ since.set /\ since.age > Threshold)
  /\ UNCHANGED <<ready, observed>>

\* Mutant: a sample that is Ready does not clear nonReadySince.
TickUnforgiving ==
  /\ ~tripped /\ sinceTick = Period
  /\ sinceTick' = 0
  /\ since' = IF ready \/ since.set THEN since ELSE SetAt(0)
  /\ tripped' = (~ready /\ since.set /\ since.age > Threshold)
  /\ UNCHANGED <<ready, observed>>

\* One tick: Ready clears nonReadySince, the first other sample sets it, a
\* later one compares.
Tick ==
  /\ ~tripped /\ sinceTick = Period
  /\ sinceTick' = 0
  /\ \/ ready /\ since' = Unset /\ UNCHANGED tripped
     \/ ~ready /\ ~since.set /\ since' = SetAt(0) /\ UNCHANGED tripped
     \/ ~ready /\ since.set /\ since.age <= Threshold /\ UNCHANGED <<since, tripped>>
     \/ ~ready /\ since.set /\ since.age > Threshold /\ UNCHANGED since /\ tripped' = TRUE
  /\ UNCHANGED <<ready, observed>>

Next == Advance \/ ChangeState \/ Tick

Spec == Init /\ [][Next]_vars

-----------------------------------------------------------------------------
\* The values the variables range over.
TypeOK ==
  /\ ready \in BOOLEAN
  /\ sinceTick \in 0..Period
  /\ since \in [set : BOOLEAN, age : Nat]
  /\ dark \in Nat /\ bright \in 0..(Period + 1) /\ rested \in 0..(Threshold + 1)
  /\ tripped \in BOOLEAN

\* A genuine wedge is caught in bounded time (main.go:481-484): the state is
\* never continuously not Ready for more than the threshold and two periods
\* without the guard having tripped.
WedgeCaught == ~tripped => dark <= Threshold + 2 * Period

\* A recovering pod is left alone (main.go:490-492): whoever has been Ready for
\* more than a period - no sample can miss that - within the threshold is not
\* ended, whatever happened between the samples before and after.
NoFalseAlarm == tripped => rested > Threshold
=============================================================================
