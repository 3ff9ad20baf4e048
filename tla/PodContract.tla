---------------------------- MODULE PodContract ----------------------------
(***************************************************************************)
(* What a pod promises to those who look at it from outside: the readiness *)
(* probe that routes clients to it (/readyz), the exit IP in its header,   *)
(* and where its traffic really exits.  It says Ready only once the header *)
(* names the exit or is left out, changes neither while it says so, and    *)
(* withdraws the word before it touches either.  A tunnel may be lost at   *)
(* any moment, and a process may end and another begin.                    *)
(*                                                                         *)
(* TunnelPod.tla implements this as long as its drivers do not overlap.    *)
(***************************************************************************)
CONSTANTS Locations, Down

VARIABLES
  ready,      \* /readyz answers 200
  advertised, \* the location whose exit IP the header shows; Down: no header
  exit        \* the location the traffic exits at

vars == <<ready, advertised, exit>>

Places == Locations \cup {Down}

Init == ~ready /\ advertised = Down /\ exit = Down

\* Out of sight the pod may connect, disconnect and announce what it likes.
Prepare ==
  /\ ~ready /\ ~ready'
  /\ advertised' \in Places /\ exit' \in Places

Publish ==
  /\ ~ready /\ ready'
  /\ advertised = Down \/ exit \in {Down, advertised}
  /\ UNCHANGED <<advertised, exit>>

Withdraw == ready /\ ~ready' /\ UNCHANGED <<advertised, exit>>

\* The tunnel drops, or an exit path takes it down.
Lose == exit' = Down /\ UNCHANGED <<ready, advertised>>

\* The next process; a daemon may have kept the tunnel of the last one.
Respawn == ~ready' /\ advertised' = Down /\ exit' \in {exit, Down}

Next == Prepare \/ Publish \/ Withdraw \/ Lose \/ Respawn

Spec == Init /\ [][Next]_vars
=============================================================================
