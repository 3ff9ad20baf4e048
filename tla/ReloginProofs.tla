--------------------------- MODULE ReloginProofs ---------------------------
(***************************************************************************)
(* The re-login throttle holds for any number of threads and any throttle  *)
(* of at least one second.                                                 *)
(***************************************************************************)
EXTENDS Relogin, TLAPS

\* The variables of Relogin keep their types, and no time that is kept is in
\* the future of the clock.
THEOREM TypeCorrect == Spec => []TypeOK
<1>1. Init => TypeOK
  BY StartAssumption, ThrottleAssumption DEF Init, TypeOK
<1>2. TypeOK /\ [Next]_vars => TypeOK'
  <2> SUFFICES ASSUME TypeOK, [Next]_vars
               PROVE  TypeOK'
    OBVIOUS
  <2> USE DEF TypeOK, Goto, Return
  <2>1. ASSUME NEW c \in Callers, CheckLoggedIn(c) PROVE TypeOK'
    BY <2>1 DEF CheckLoggedIn
  <2>2. ASSUME NEW c \in Callers, ReadClock(c) PROVE TypeOK'
    BY <2>2 DEF ReadClock
  <2>3. ASSUME NEW c \in Callers, LoadLast(c) PROVE TypeOK'
    <3>1. CASE now[c] < lastRelogin + Throttle
      BY <2>3, <3>1 DEF LoadLast
    <3>2. CASE ~(now[c] < lastRelogin + Throttle)
      BY <2>3, <3>2 DEF LoadLast
    <3> QED
      BY <3>1, <3>2
  <2>4. ASSUME NEW c \in Callers, Reserve(c) PROVE TypeOK'
    <3>1. now[c] \in 0..clock
      OBVIOUS
    <3>2. auth' \in BOOLEAN /\ clock' = clock
      BY <2>4 DEF Reserve
    <3>3. CASE lastRelogin = last[c]
      <4>1. reserved' \in SUBSET (0..clock) /\ lastRelogin' \in 0..clock
        BY <2>4, <3>1, <3>3 DEF Reserve
      <4>2. pc' \in [Callers -> {"idle", "now", "load", "cas", "login"}]
        BY <2>4, <3>3 DEF Reserve
      <4> QED
        BY <2>4, <3>2, <3>3, <4>1, <4>2 DEF Reserve
    <3>4. CASE lastRelogin # last[c]
      <4>1. Return(c, "cas") /\ UNCHANGED <<lastRelogin, reserved>>
        BY <2>4, <3>4 DEF Reserve
      <4> QED
        BY <3>2, <4>1
    <3> QED
      BY <3>3, <3>4
  <2>5. ASSUME NEW c \in Callers, Login(c) PROVE TypeOK'
    <3>1. auth' \in BOOLEAN
      BY <2>5, Zenon DEF Login
    <3>2. Return(c, "login") /\ UNCHANGED <<clock, lastRelogin, reserved>>
      BY <2>5 DEF Login
    <3> QED
      BY <3>1, <3>2
  <2>6. CASE SessionLost
    BY <2>6 DEF SessionLost
  <2>7. CASE Second
    <3>1. clock' \in Nat /\ 0..clock \subseteq 0..clock'
      BY <2>7 DEF Second
    <3> QED
      BY <2>7, <3>1 DEF Second
  <2>8. CASE UNCHANGED vars
    BY <2>8 DEF vars
  <2> QED
    BY <2>1, <2>2, <2>3, <2>4, <2>5, <2>6, <2>7, <2>8 DEF Next, Ensure
<1> QED
  BY <1>1, <1>2, PTL DEF Spec

\* What the throttle rests on: lastRelogin is the latest reservation, and
\* whoever is about to swap read a clock that is a throttle later than the
\* reservation it will compare with.
Latest ==
  /\ \A s \in reserved : s <= lastRelogin
  /\ lastRelogin # 0 => lastRelogin \in reserved
  /\ \A c \in Callers : pc[c] = "cas" => last[c] + Throttle <= now[c]

\* Latest and ReloginsApart are inductive together, relative to the types.
LEMMA ApartInvariant == Spec => [](Latest /\ ReloginsApart)
<1>1. Init => Latest /\ ReloginsApart
  BY DEF Init, Latest, ReloginsApart
<1>2. TypeOK /\ Latest /\ ReloginsApart /\ [Next]_vars
        => (Latest /\ ReloginsApart)'
  <2> SUFFICES ASSUME TypeOK, Latest, ReloginsApart, [Next]_vars
               PROVE  Latest' /\ ReloginsApart'
    OBVIOUS
  <2> USE ThrottleAssumption DEF TypeOK, Latest, ReloginsApart, Goto, Return
  <2>1. ASSUME NEW c \in Callers, CheckLoggedIn(c)
        PROVE  Latest' /\ ReloginsApart'
    BY <2>1 DEF CheckLoggedIn
  <2>2. ASSUME NEW c \in Callers, ReadClock(c)
        PROVE  Latest' /\ ReloginsApart'
    BY <2>2 DEF ReadClock
  <2>3. ASSUME NEW c \in Callers, LoadLast(c)
        PROVE  Latest' /\ ReloginsApart'
    BY <2>3 DEF LoadLast
  <2>4. ASSUME NEW c \in Callers, Reserve(c)
        PROVE  Latest' /\ ReloginsApart'
    <3>1. CASE lastRelogin = last[c]
      <4>1. /\ reserved' = reserved \cup {now[c]}
            /\ lastRelogin' = now[c]
            /\ last[c] + Throttle <= now[c]
            /\ \A s \in reserved : s + Throttle <= now[c]
        BY <2>4, <3>1 DEF Reserve
      <4> QED
        BY <2>4, <3>1, <4>1 DEF Reserve
    <3>2. CASE lastRelogin # last[c]
      <4>1. Return(c, "cas") /\ UNCHANGED <<lastRelogin, reserved>>
        BY <2>4, <3>2 DEF Reserve
      <4> QED
        BY <4>1
    <3> QED
      BY <3>1, <3>2
  <2>5. ASSUME NEW c \in Callers, Login(c)
        PROVE  Latest' /\ ReloginsApart'
    BY <2>5 DEF Login
  <2>6. CASE SessionLost
    BY <2>6 DEF SessionLost
  <2>7. CASE Second
    BY <2>7 DEF Second
  <2>8. CASE UNCHANGED vars
    BY <2>8 DEF vars
  <2> QED
    BY <2>1, <2>2, <2>3, <2>4, <2>5, <2>6, <2>7, <2>8 DEF Next, Ensure
<1> QED
  BY <1>1, <1>2, TypeCorrect, PTL DEF Spec

\* No login storm (connect.go:15-19): any two re-logins are at least the
\* throttle apart, however many threads find the daemon logged out.
THEOREM NoLoginStorm == Spec => []ReloginsApart
  BY ApartInvariant, PTL

\* Whoever logs in does so under a reservation.
Reserved ==
  \A c \in Callers : pc[c] = "login" => now[c] \in reserved

\* A reservation is later than all before it, and so nobody else's: no two
\* threads log in under the same one.
THEOREM OneLogin == Spec => []OneLoginPerReservation
<1>1. Init => Reserved /\ OneLoginPerReservation
  BY DEF Init, Reserved, OneLoginPerReservation
<1>2. TypeOK /\ Latest /\ Reserved /\ OneLoginPerReservation /\ [Next]_vars
        => (Reserved /\ OneLoginPerReservation)'
  <2> SUFFICES ASSUME TypeOK, Latest, Reserved, OneLoginPerReservation, [Next]_vars
               PROVE  Reserved' /\ OneLoginPerReservation'
    OBVIOUS
  <2> USE DEF TypeOK, Reserved, OneLoginPerReservation, Goto, Return
  <2>1. ASSUME NEW c \in Callers, CheckLoggedIn(c)
        PROVE  Reserved' /\ OneLoginPerReservation'
    BY <2>1 DEF CheckLoggedIn
  <2>2. ASSUME NEW c \in Callers, ReadClock(c)
        PROVE  Reserved' /\ OneLoginPerReservation'
    BY <2>2 DEF ReadClock
  <2>3. ASSUME NEW c \in Callers, LoadLast(c)
        PROVE  Reserved' /\ OneLoginPerReservation'
    BY <2>3 DEF LoadLast
  <2>4. ASSUME NEW c \in Callers, Reserve(c)
        PROVE  Reserved' /\ OneLoginPerReservation'
    <3>1. CASE lastRelogin = last[c]
      <4>1. /\ pc[c] = "cas" /\ pc' = [pc EXCEPT ![c] = "login"]
            /\ reserved' = reserved \cup {now[c]} /\ now' = now
        BY <2>4, <3>1 DEF Reserve
      <4>2. now[c] \notin reserved
        BY <3>1, <4>1, ThrottleAssumption DEF Latest
      <4> QED
        BY <4>1, <4>2
    <3>2. CASE lastRelogin # last[c]
      <4>1. Return(c, "cas") /\ UNCHANGED <<lastRelogin, reserved>>
        BY <2>4, <3>2 DEF Reserve
      <4> QED
        BY <4>1
    <3> QED
      BY <3>1, <3>2
  <2>5. ASSUME NEW c \in Callers, Login(c)
        PROVE  Reserved' /\ OneLoginPerReservation'
    BY <2>5 DEF Login
  <2>6. CASE SessionLost
    BY <2>6 DEF SessionLost
  <2>7. CASE Second
    BY <2>7 DEF Second
  <2>8. CASE UNCHANGED vars
    BY <2>8 DEF vars
  <2> QED
    BY <2>1, <2>2, <2>3, <2>4, <2>5, <2>6, <2>7, <2>8 DEF Next, Ensure
<1> QED
  BY <1>1, <1>2, TypeCorrect, ApartInvariant, PTL DEF Spec

\* The throttle of connect.go:39-46 implements turns: a swap that succeeds is a
\* turn, taken a throttle after the last; the end of a login gives it back;
\* readings, refusals and lost swaps change nothing of it.
THEOREM ThrottleTakesTurns == Spec => TakesTurns
<1> DEFINE busy == {c \in Callers : pc[c] = "login"}
<1>1. Init => Turns!Init
  <2> SUFFICES ASSUME Init PROVE Turns!Init
    OBVIOUS
  <2>1. lastRelogin + Throttle = Throttle
    BY ThrottleAssumption DEF Init
  <2> QED
    BY <2>1 DEF Init, Turns!Init
<1>2. TypeOK /\ Latest /\ [Next]_vars => [Turns!Next]_Turns!vars
  <2> SUFFICES ASSUME TypeOK, Latest, [Next]_vars
               PROVE  Turns!Next \/ UNCHANGED Turns!vars
    OBVIOUS
  <2> USE DEF TypeOK, Goto, Return
  <2>1. ASSUME NEW c \in Callers,
               CheckLoggedIn(c) \/ ReadClock(c) \/ LoadLast(c)
        PROVE  UNCHANGED Turns!vars
    <3>1. busy' = busy
      BY <2>1 DEF CheckLoggedIn, ReadClock, LoadLast
    <3>2. clock' = clock /\ lastRelogin' = lastRelogin
      BY <2>1 DEF CheckLoggedIn, ReadClock, LoadLast
    <3> QED
      BY <3>1, <3>2 DEF Turns!vars
  <2>2. ASSUME NEW c \in Callers, Reserve(c)
        PROVE  Turns!Next \/ UNCHANGED Turns!vars
    <3>1. CASE lastRelogin = last[c]
      <4>1. /\ pc[c] = "cas" /\ pc' = [pc EXCEPT ![c] = "login"]
            /\ lastRelogin' = now[c] /\ clock' = clock
        BY <2>2, <3>1 DEF Reserve
      <4>2. c \notin busy /\ busy' = busy \cup {c}
        BY <4>1
      <4>3. now[c] \in (lastRelogin + Throttle)..clock
        BY <3>1, <4>1, ThrottleAssumption DEF Latest
      <4>4. Turns!Take(c)
        BY <4>1, <4>2, <4>3 DEF Turns!Take
      <4> QED
        BY <4>4 DEF Turns!Next
    <3>2. CASE lastRelogin # last[c]
      <4>1. /\ pc[c] = "cas" /\ pc' = [pc EXCEPT ![c] = "idle"]
            /\ lastRelogin' = lastRelogin /\ clock' = clock
        BY <2>2, <3>2 DEF Reserve
      <4>2. busy' = busy
        BY <4>1
      <4> QED
        BY <4>1, <4>2 DEF Turns!vars
    <3> QED
      BY <3>1, <3>2
  <2>3. ASSUME NEW c \in Callers, Login(c) PROVE Turns!Next
    <3>1. /\ pc[c] = "login" /\ pc' = [pc EXCEPT ![c] = "idle"]
          /\ lastRelogin' = lastRelogin /\ clock' = clock
      BY <2>3 DEF Login
    <3>2. c \in busy /\ busy' = busy \ {c}
      BY <3>1
    <3>3. Turns!GiveBack(c)
      BY <3>1, <3>2 DEF Turns!GiveBack
    <3> QED
      BY <3>3 DEF Turns!Next
  <2>4. CASE Second
    <3>1. /\ clock < Horizon /\ clock' = clock + 1
          /\ lastRelogin' = lastRelogin /\ busy' = busy
      BY <2>4 DEF Second
    <3>2. Turns!Second
      BY <3>1 DEF Turns!Second
    <3> QED
      BY <3>2 DEF Turns!Next
  <2>5. CASE SessionLost \/ UNCHANGED vars
    <3>1. clock' = clock /\ lastRelogin' = lastRelogin /\ busy' = busy
      BY <2>5 DEF SessionLost, vars
    <3> QED
      BY <3>1 DEF Turns!vars
  <2> QED
    BY <2>1, <2>2, <2>3, <2>4, <2>5 DEF Next, Ensure
<1> QED
  BY <1>1, <1>2, TypeCorrect, ApartInvariant, PTL DEF Spec, TakesTurns, Turns!Spec
=============================================================================
