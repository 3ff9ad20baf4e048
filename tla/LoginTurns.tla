----------------------------- MODULE LoginTurns -----------------------------
(***************************************************************************)
(* What the re-login throttle of a pod promises: logins take turns.  A     *)
(* turn is given with a time, no earlier than the last turn's and the      *)
(* throttle, and no later than now; the caller logs in and gives it back.  *)
(* Turns may overlap: the throttle says nothing of how long a login takes. *)
(*                                                                         *)
(* Relogin.tla, with its two atomics and its stale readings of the clock,  *)
(* implements this.                                                        *)
(***************************************************************************)
EXTENDS Naturals

CONSTANTS Callers, Throttle, Start, Horizon

VARIABLES
  clock,
  due,  \* the earliest time of the next turn
  busy  \* the callers whose turn it is

vars == <<clock, due, busy>>

Init ==
  /\ clock = Start
  /\ due = Throttle
  /\ busy = {}

Take(c) ==
  /\ c \notin busy
  /\ \E t \in due..clock : due' = t + Throttle
  /\ busy' = busy \cup {c}
  /\ UNCHANGED clock

GiveBack(c) ==
  /\ c \in busy
  /\ busy' = busy \ {c}
  /\ UNCHANGED <<clock, due>>

Second ==
  /\ clock < Horizon
  /\ clock' = clock + 1
  /\ UNCHANGED <<due, busy>>

Next == (\E c \in Callers : Take(c) \/ GiveBack(c)) \/ Second

Spec == Init /\ [][Next]_vars
=============================================================================
