--------------------------- MODULE LocationsCache ---------------------------
(***************************************************************************)
(* cachedLocationsProvider.Locations (cmd/tundler-tunnel/                  *)
(* locations_cache.go).  The lock covers the read and the write of the     *)
(* cache, not the provider call between them.  The boot connect is the     *)
(* only caller until it has connected to a location of some catalog        *)
(* (BootIsExclusive of TunnelPod.tla); from then on the watchdog and the   *)
(* rotations call it at the same time.                                     *)
(***************************************************************************)
EXTENDS FiniteSets

CONSTANTS Boot,     \* the main goroutine
          Callers,  \* the goroutines that start after boot
          Catalogs, \* the non-empty catalogs the provider may answer
          Empty     \* the empty one: a provider that tells an error, a cold start

ASSUME EmptyAssumption == Empty \notin Catalogs
ASSUME BootAssumption == Boot \notin Callers

Everyone == Callers \cup {Boot}

VARIABLES
  booted,  \* the boot connect has succeeded
  cached,  \* the cached catalog
  fresh,   \* it is younger than the TTL
  pc,      \* per caller: its next step
  seen,    \* per caller: its copy of the cache while it asks the provider
  got      \* per caller: what the provider answered, or the call returned

vars == <<booted, cached, fresh, pc, seen, got>>

Init ==
  /\ booted = FALSE
  /\ cached = Empty
  /\ fresh = FALSE
  /\ pc = [c \in Everyone |-> "idle"]
  /\ seen = [c \in Everyone |-> Empty]
  /\ got = [c \in Everyone |-> Empty]

Goto(c, from, to) == pc[c] = from /\ pc' = [pc EXCEPT ![c] = to]

\* Under the lock: a fresh catalog is returned, anything else is fetched.
ReadCache(c) ==
  /\ booted <=> c # Boot
  /\ IF cached # Empty /\ fresh
       THEN Goto(c, "idle", "returned") /\ got' = [got EXCEPT ![c] = cached] /\ UNCHANGED seen
       ELSE Goto(c, "idle", "fetch") /\ seen' = [seen EXCEPT ![c] = cached] /\ UNCHANGED got
  /\ UNCHANGED <<booted, cached, fresh>>

\* Mutant: an empty answer is returned although there is a cached copy.
FetchWithoutFallback(c, a) ==
  /\ Goto(c, "fetch", IF a = Empty THEN "returned" ELSE "store")
  /\ got' = [got EXCEPT ![c] = a]
  /\ seen' = [seen EXCEPT ![c] = Empty]
  /\ UNCHANGED <<booted, cached, fresh>>

\* The provider answers a.  On nothing the copy read before the call is
\* served, if there is one; anything else is taken for a catalog.
Fetch(c, a) ==
  /\ Goto(c, "fetch", IF a = Empty THEN "returned" ELSE "store")
  /\ got' = [got EXCEPT ![c] = IF a = Empty THEN seen[c] ELSE a]
  /\ seen' = [seen EXCEPT ![c] = Empty]
  /\ UNCHANGED <<booted, cached, fresh>>

FetchAny(c) == \E a \in Catalogs \cup {Empty} : Fetch(c, a)

\* Under the lock again.
Store(c) ==
  /\ Goto(c, "store", "returned")
  /\ cached' = got[c]
  /\ fresh' = TRUE
  /\ UNCHANGED <<booted, seen, got>>

\* The caller picks a location of what it was given, if it was given any.
Pick(c) ==
  /\ Goto(c, "returned", IF got[c] = Empty THEN "idle" ELSE "picked")
  /\ got' = [got EXCEPT ![c] = Empty]
  /\ UNCHANGED <<booted, cached, fresh, seen>>

\* Its attempt to connect there ends: the boot connect with success, or it
\* calls again.
Finish(c) ==
  /\ Goto(c, "picked", "idle")
  /\ booted' \in IF c = Boot THEN BOOLEAN ELSE {booted}
  /\ UNCHANGED <<cached, fresh, seen, got>>

\* The TTL passes.
Expire ==
  /\ fresh /\ fresh' = FALSE
  /\ UNCHANGED <<booted, cached, pc, seen, got>>

Step(c) == ReadCache(c) \/ FetchAny(c) \/ Store(c) \/ Pick(c) \/ Finish(c)

Next == (\E c \in Everyone : Step(c)) \/ Expire

Spec == Init /\ [][Next]_vars

-----------------------------------------------------------------------------
\* The values the variables range over.
TypeOK ==
  /\ booted \in BOOLEAN
  /\ cached \in Catalogs \cup {Empty}
  /\ fresh \in BOOLEAN
  /\ pc \in [Everyone -> {"idle", "fetch", "store", "returned", "picked"}]
  /\ seen \in [Everyone -> Catalogs \cup {Empty}]
  /\ got \in [Everyone -> Catalogs \cup {Empty}]

\* Once the pod has booted, no call reports "0 available"
\* (locations_cache.go:31-34): not with the daemon wedged, the TTL over and
\* other callers storing their answers in between.  Without it one empty
\* answer would end a rotation at once (connect.go:276-279).
NeverEmptyAfterBoot ==
  booted => \A c \in Everyone : pc[c] = "returned" => got[c] # Empty
=============================================================================
