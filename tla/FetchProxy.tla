----------------------------- MODULE FetchProxy -----------------------------
(***************************************************************************)
(* The impersonating fetch proxy (internal/proxy/impersonate_*.go) beside  *)
(* the CONNECT proxy of a proxy-chain pod.  It fetches pages of one host,  *)
(* dials through whatever dialer the provider has installed, and keeps one *)
(* HTTP/2 connection for all requests.  The drain flag means nothing to    *)
(* it, and it records no dials.                                            *)
(***************************************************************************)
EXTENDS ProxyChain

CONSTANTS Requests, \* requests in flight at a time
          Streams   \* connections that exist at a time

VARIABLES
  fetch, \* per request: where RoundTrip is
  on,    \* per request: its connection
  route, \* per request: where its dial goes
  pool,  \* conns[host]
  alive, \* the open connections
  exit   \* per connection: the edge it goes through

fetching == <<fetch, on, route, pool, alive, exit>>
fvars == <<cvars, fetching>>

FetchStep == {"none", "reuse", "dial", "dialing", "sent", "reading"}

FetchInit ==
  /\ ChainInit
  /\ fetch = [q \in Requests |-> "none"]
  /\ on = [q \in Requests |-> "none"]
  /\ route = [q \in Requests |-> "none"]
  /\ pool = "none"
  /\ alive = {}
  /\ exit = [s \in Streams |-> "none"]

To(q, from, to) == fetch[q] = from /\ fetch' = [fetch EXCEPT ![q] = to]
Release(q) == on' = [on EXCEPT ![q] = "none"]

\* cachedH2: a connection that takes requests is used, any other forgotten.
Ask(q) ==
  /\ IF pool \in alive
       THEN /\ To(q, "none", "reuse")
            /\ on' = [on EXCEPT ![q] = pool] /\ UNCHANGED pool
       ELSE /\ To(q, "none", "dial")
            /\ pool' = "none" /\ UNCHANGED on
  /\ UNCHANGED <<cvars, route, alive, exit>>

Answer(q) ==
  /\ on[q] \in alive
  /\ To(q, "reuse", "reading") \/ To(q, "sent", "reading")
  /\ UNCHANGED <<cvars, on, route, pool, alive, exit>>

\* dropH2: an error on a cached connection, be it the server's, the
\* connection's or only the client's, closes it for everybody; it leaves the
\* pool if it is still there.  A client that is gone gets no second try.
Drop(q) ==
  /\ To(q, "reuse", "dial") \/ To(q, "reuse", "none")
  /\ pool' = IF pool = on[q] THEN "none" ELSE pool
  /\ alive' = alive \ {on[q]}
  /\ Release(q)
  /\ UNCHANGED <<cvars, route, exit>>

\* DialUpstream loads the dialer.  Without one the pod dials by itself.
LoadRoute(q) ==
  /\ To(q, "dial", "dialing")
  /\ route' = [route EXCEPT ![q] = dialer]
  /\ UNCHANGED <<cvars, on, pool, alive, exit>>

DialFetchFails(q) ==
  /\ To(q, "dialing", "none")
  /\ route' = [route EXCEPT ![q] = "none"]
  /\ UNCHANGED <<cvars, on, pool, alive, exit>>

\* The handshake, storeH2 and the request: the pool's connection, if another
\* request has dialled one in the meantime, is overwritten and stays open.
Store(q) ==
  /\ route[q] # "off"
  /\ To(q, "dialing", "sent")
  /\ \E s \in Streams \ alive :
       /\ s # pool /\ \A p \in Requests : on[p] # s
       /\ on' = [on EXCEPT ![q] = s]
       /\ pool' = s
       /\ alive' = alive \cup {s}
       /\ exit' = [exit EXCEPT ![s] = route[q]]
  /\ route' = [route EXCEPT ![q] = "none"]
  /\ UNCHANGED cvars

\* A request on a connection of its own that fails is not repeated, and drops
\* nothing.
SentFails(q) ==
  /\ To(q, "sent", "none")
  /\ Release(q)
  /\ UNCHANGED <<cvars, route, pool, alive, exit>>

\* The body has been copied, or cut.
Finish(q) ==
  /\ To(q, "reading", "none")
  /\ Release(q)
  /\ UNCHANGED <<cvars, route, pool, alive, exit>>

\* The server closes a connection, or its edge fails.  Neither a Disconnect
\* nor another Connect does.
StreamEnds(s) ==
  /\ s \in alive /\ alive' = alive \ {s}
  /\ UNCHANGED <<cvars, fetch, on, route, pool, exit>>

RoundTrip(q) == \/ Ask(q) \/ Answer(q) \/ Drop(q) \/ LoadRoute(q)
                \/ DialFetchFails(q) \/ Store(q) \/ SentFails(q) \/ Finish(q)

FetchNext ==
  \/ ChainNext /\ UNCHANGED fetching
  \/ \E q \in Requests : RoundTrip(q)
  \/ \E s \in Streams : StreamEnds(s)

FetchSpec == FetchInit /\ [][FetchNext]_fvars

-----------------------------------------------------------------------------
\* The values the variables range over; no connection is made from the pod's
\* own address.
FetchTypeOK ==
  /\ ChainTypeOK
  /\ fetch \in [Requests -> FetchStep]
  /\ on \in [Requests -> Streams \cup {"none"}]
  /\ route \in [Requests -> Edges \cup {"off", "none"}]
  /\ pool \in Streams \cup {"none"}
  /\ alive \subseteq Streams
  /\ exit \in [Streams -> Edges \cup {"none"}]

\* A request that fails on an old connection does not cost the pool the new
\* one (impersonate_transport.go:142-149): a live connection leaves the pool
\* only if it is closed in the same step, or for one that has just been opened.
HealthyConnKept ==
  [][(pool \in alive /\ pool' # pool)
       => (pool \notin alive' \/ pool' \in (alive' \ alive))]_fvars

\* Requests take the way the CONNECT proxy's would (main.go:203-206): the edge
\* of the installed dialer, none between a teardown and the next Connect.
FetchFollowsDialer ==
  [][\A q \in Requests :
       fetch[q] = "none" /\ fetch'[q] = "reuse" => exit[pool] = dialer]_fvars
=============================================================================
