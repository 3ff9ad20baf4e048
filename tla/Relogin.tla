------------------------------- MODULE Relogin -------------------------------
(***************************************************************************)
(* ensureLoggedIn (cmd/tundler-tunnel/connect.go) run by several threads:  *)
(* the watchdog and rotations.  It re-logs-in only when the daemon reports *)
(* logged-out, and reserves its turn with a compare-and-swap of            *)
(* lastReloginUnix.  The clock, two atomics and the provider are read one  *)
(* after the other, with other threads in between.                         *)
(***************************************************************************)
EXTENDS Naturals

CONSTANTS Callers,  \* threads that may be in ensureLoggedIn
          Throttle, \* reloginThrottleSec
          Start,    \* Unix time at the start of the process
          Horizon   \* bound on the clock, for TLC

ASSUME ThrottleAssumption == Throttle \in Nat \ {0}
ASSUME StartAssumption == Start \in Nat /\ Start > Throttle
ASSUME HorizonAssumption == Horizon \in Nat

VARIABLES
  clock,       \* time.Now().Unix()
  auth,        \* what prov.LoggedIn reports
  lastRelogin, \* lastReloginUnix
  pc,          \* per caller: its next call
  now, last,   \* per caller: its locals
  reserved     \* the times with which a compare-and-swap has succeeded

vars == <<clock, auth, lastRelogin, pc, now, last, reserved>>

Init ==
  /\ clock = Start
  /\ auth = TRUE
  /\ lastRelogin = 0
  /\ pc = [c \in Callers |-> "idle"]
  /\ now = [c \in Callers |-> 0]
  /\ last = [c \in Callers |-> 0]
  /\ reserved = {}

Goto(c, from, to) == pc[c] = from /\ pc' = [pc EXCEPT ![c] = to]

\* The caller forgets its locals when ensureLoggedIn returns.
Return(c, from) ==
  /\ Goto(c, from, "idle")
  /\ now' = [now EXCEPT ![c] = 0]
  /\ last' = [last EXCEPT ![c] = 0]

\* prov.LoggedIn: a logged-in daemon ends the call at once.
CheckLoggedIn(c) ==
  /\ ~auth
  /\ Goto(c, "idle", "now")
  /\ UNCHANGED <<clock, auth, lastRelogin, now, last, reserved>>

ReadClock(c) ==
  /\ Goto(c, "now", "load")
  /\ now' = [now EXCEPT ![c] = clock]
  /\ UNCHANGED <<clock, auth, lastRelogin, last, reserved>>

\* Mutant: no throttle.
LoadLastUnthrottled(c) ==
  /\ Goto(c, "load", "cas")
  /\ last' = [last EXCEPT ![c] = lastRelogin]
  /\ UNCHANGED <<clock, auth, lastRelogin, now, reserved>>

\* Load, and the throttle: an error unless the last re-login is old enough.
LoadLast(c) ==
  /\ IF now[c] < lastRelogin + Throttle
       THEN Return(c, "load")
       ELSE /\ Goto(c, "load", "cas")
            /\ last' = [last EXCEPT ![c] = lastRelogin]
            /\ UNCHANGED now
  /\ UNCHANGED <<clock, auth, lastRelogin, reserved>>

\* Mutant: a Store in place of the CompareAndSwap.
ReserveBlindly(c) ==
  /\ Goto(c, "cas", "login")
  /\ lastRelogin' = now[c]
  /\ reserved' = reserved \cup {now[c]}
  /\ UNCHANGED <<clock, auth, now, last>>

\* Mutant: the end of the throttle is stored in place of its start.
ReserveAhead(c) ==
  /\ pc[c] = "cas"
  /\ IF lastRelogin = last[c]
       THEN /\ Goto(c, "cas", "login")
            /\ lastRelogin' = now[c] + Throttle
            /\ reserved' = reserved \cup {now[c]}
            /\ UNCHANGED <<now, last>>
       ELSE Return(c, "cas") /\ UNCHANGED <<lastRelogin, reserved>>
  /\ UNCHANGED <<clock, auth>>

\* CompareAndSwap: whoever loses reports a re-login in progress.
Reserve(c) ==
  /\ pc[c] = "cas"
  /\ IF lastRelogin = last[c]
       THEN /\ Goto(c, "cas", "login")
            /\ lastRelogin' = now[c]
            /\ reserved' = reserved \cup {now[c]}
            /\ UNCHANGED <<now, last>>
       ELSE Return(c, "cas") /\ UNCHANGED <<lastRelogin, reserved>>
  /\ UNCHANGED <<clock, auth>>

Login(c) ==
  /\ Return(c, "login")
  /\ auth' \in {TRUE, auth}
  /\ UNCHANGED <<clock, lastRelogin, reserved>>

\* The daemon may lose its session at any time.
SessionLost ==
  /\ auth /\ auth' = FALSE
  /\ UNCHANGED <<clock, lastRelogin, pc, now, last, reserved>>

Second ==
  /\ clock < Horizon
  /\ clock' = clock + 1
  /\ UNCHANGED <<auth, lastRelogin, pc, now, last, reserved>>

Ensure(c) == CheckLoggedIn(c) \/ ReadClock(c) \/ LoadLast(c) \/ Reserve(c) \/ Login(c)

Next == (\E c \in Callers : Ensure(c)) \/ SessionLost \/ Second

Spec == Init /\ [][Next]_vars

-----------------------------------------------------------------------------
\* The values the variables range over: no time kept is in the future.
TypeOK ==
  /\ clock \in Nat
  /\ auth \in BOOLEAN
  /\ lastRelogin \in 0..clock
  /\ pc \in [Callers -> {"idle", "now", "load", "cas", "login"}]
  /\ now \in [Callers -> 0..clock]
  /\ last \in [Callers -> 0..clock]
  /\ reserved \in SUBSET (0..clock)

\* No login storm (connect.go:15-19): any two re-logins this process reserves
\* are at least the throttle apart, whatever threads find the daemon logged
\* out and however their checks interleave.
ReloginsApart ==
  \A s, t \in reserved : s < t => s + Throttle <= t

\* The throttle implements turns (LoginTurns.tla): whatever the readings of the
\* clock and of lastReloginUnix miss of each other, each login that starts is
\* reserved for a time a throttle after the last (connect.go:15-19, 39-46).
Turns == INSTANCE LoginTurns
           WITH due <- lastRelogin + Throttle,
                busy <- {c \in Callers : pc[c] = "login"}

TakesTurns == Turns!Spec

\* A reservation is one thread's: nobody else is logging in under the same
\* one.
OneLoginPerReservation ==
  \A c, d \in Callers :
    pc[c] = "login" /\ pc[d] = "login" /\ now[c] = now[d] => c = d
=============================================================================
