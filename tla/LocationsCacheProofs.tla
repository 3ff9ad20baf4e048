------------------------ MODULE LocationsCacheProofs ------------------------
(***************************************************************************)
(* After boot no caller of the locations cache is told that there is no    *)
(* catalog - for any number of callers and any answers of the provider.    *)
(***************************************************************************)
EXTENDS LocationsCache, TLAPS

\* The variables of LocationsCache keep their types.
THEOREM TypeCorrect == Spec => []TypeOK
<1>1. Init => TypeOK
  BY DEF Init, TypeOK
<1>2. TypeOK /\ [Next]_vars => TypeOK'
  <2> SUFFICES ASSUME TypeOK, [Next]_vars
               PROVE  TypeOK'
    OBVIOUS
  <2> USE DEF TypeOK, Goto
  <2>1. ASSUME NEW c \in Everyone, ReadCache(c) PROVE TypeOK'
    BY <2>1 DEF ReadCache
  <2>2. ASSUME NEW c \in Everyone, FetchAny(c) PROVE TypeOK'
    BY <2>2 DEF FetchAny, Fetch
  <2>3. ASSUME NEW c \in Everyone, Store(c) PROVE TypeOK'
    BY <2>3 DEF Store
  <2>4. ASSUME NEW c \in Everyone, Finish(c) PROVE TypeOK'
    BY <2>4 DEF Finish
  <2>5. CASE Expire
    BY <2>5 DEF Expire
  <2>6. ASSUME NEW c \in Everyone, Pick(c) PROVE TypeOK'
    BY <2>6 DEF Pick
  <2>7. CASE UNCHANGED vars
    BY <2>7 DEF vars
  <2> QED
    BY <2>1, <2>2, <2>3, <2>4, <2>5, <2>6, <2>7 DEF Next, Step
<1> QED
  BY <1>1, <1>2, PTL DEF Spec

\* What NeverEmptyAfterBoot rests on: only a non-empty answer is on its way
\* into the cache; before the end of boot nobody but main is in a call, and
\* main cannot have picked a location out of an empty cache; afterwards the
\* cache holds a catalog, and so does every copy of it.
Filled ==
  /\ \A c \in Everyone : pc[c] = "store" => got[c] # Empty
  /\ ~booted => \A c \in Callers : pc[c] = "idle"
  /\ pc[Boot] = "returned" /\ got[Boot] # Empty => cached # Empty
  /\ pc[Boot] = "picked" => cached # Empty
  /\ booted => /\ cached # Empty
               /\ pc[Boot] = "idle"
               /\ \A c \in Callers :
                    /\ pc[c] = "fetch" => seen[c] # Empty
                    /\ pc[c] = "returned" => got[c] # Empty
  /\ \A c \in Everyone : seen[c] # Empty => cached # Empty

\* Filled is inductive relative to the types.
LEMMA FilledInvariant == Spec => []Filled
<1>1. Init => Filled
  BY DEF Init, Filled, Everyone
<1>2. TypeOK /\ Filled /\ [Next]_vars => Filled'
  <2> SUFFICES ASSUME TypeOK, Filled, [Next]_vars
               PROVE  Filled'
    OBVIOUS
  <2> USE BootAssumption, EmptyAssumption DEF TypeOK, Filled, Goto, Everyone
  <2>1. ASSUME NEW c \in Everyone, ReadCache(c) PROVE Filled'
    BY <2>1 DEF ReadCache
  <2>2. ASSUME NEW c \in Everyone, FetchAny(c) PROVE Filled'
    BY <2>2 DEF FetchAny, Fetch
  <2>3. ASSUME NEW c \in Everyone, Store(c) PROVE Filled'
    BY <2>3 DEF Store
  <2>4. ASSUME NEW c \in Everyone, Finish(c) PROVE Filled'
    BY <2>4 DEF Finish
  <2>5. CASE Expire
    BY <2>5 DEF Expire
  <2>6. ASSUME NEW c \in Everyone, Pick(c) PROVE Filled'
    BY <2>6 DEF Pick
  <2>7. CASE UNCHANGED vars
    BY <2>7 DEF vars
  <2> QED
    BY <2>1, <2>2, <2>3, <2>4, <2>5, <2>6, <2>7 DEF Next, Step
<1> QED
  BY <1>1, <1>2, TypeCorrect, PTL DEF Spec

\* Once the pod has booted no call reports "0 available"
\* (locations_cache.go:31-34).
THEOREM BootedNeverEmpty == Spec => []NeverEmptyAfterBoot
<1>1. Filled => NeverEmptyAfterBoot
  BY DEF Filled, NeverEmptyAfterBoot, Everyone
<1> QED
  BY <1>1, FilledInvariant, PTL
=============================================================================
