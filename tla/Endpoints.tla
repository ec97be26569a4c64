------------------------------ MODULE Endpoints -------------------------------
(***************************************************************************)
(* The fetchers that app/routers/ hands to the cache, and how they nest.   *)
(*                                                                         *)
(* A fetcher is a table of moves: at a step, with an outcome, it learns    *)
(* parts of its answer and goes on.  A step is a call to an upstream       *)
(* service or, when it is a key, an await of another cached fetcher, often *)
(* under asyncio.wait_for.  The cache is the one of TtlCache with its      *)
(* clients and disconnects left out.  An answer is the set of parts it     *)
(* has; the outcome of a call is "ok", "part" (incomplete), "none" (an     *)
(* empty answer) or "fail".                                                *)
(***************************************************************************)
EXTENDS Integers, FiniteSets

CONSTANTS
  Asked,   \* sets of keys; the clients of one behaviour ask for one of them
  None,    \* no entry, no fetch
  MaxAges  \* how often an entry grows older in a behaviour

Move(step, outcomes, next, parts) ==
  {[step |-> step, out |-> o, next |-> next, parts |-> parts] : o \in outcomes}

Lost == {"none", "fail"}

\* get_routes_at_stop
RoutesAt == Move("html", {"ok"}, "done", {"routes"}) \cup Move("html", {"none"}, "done", {})
            \cup Move("html", {"fail"}, "raise", {})

\* fetch_filtered_announcements: negative cache on failure
Notices == Move("soap", {"ok"}, "done", {"notices"}) \cup Move("soap", {"none"}, "done", {})
           \cup Move("soap", {"fail"}, "negative", {})

\* get_stop_announcements; its two branches share nothing, so they run in turn.
\* Without routes fetch_filtered_announcements returns before it looks anything up
StopNotices ==
  Move("routesAt", {"ok"}, "notices", {}) \cup Move("routesAt", Lost, "mobiett", {})
  \cup Move("notices", {"ok"}, "mobiett", {"notices"}) \cup Move("notices", Lost, "mobiett", {})
  \cup Move("mobiett", {"ok"}, "done", {"traffic"}) \cup Move("mobiett", Lost, "done", {})

\* Faulty variant of RouteStops: a failure without stops is an empty answer.
RouteStopsEmpty ==
  Move("ntc", {"ok"}, "done", {"stops", "coords"}) \cup Move("ntc", {"part"}, "coords", {"stops"})
  \cup Move("ntc", Lost, "soap", {})
  \cup Move("coords", {"ok"}, "done", {"coords"}) \cup Move("coords", {"part"} \cup Lost, "done", {})
  \cup Move("soap", {"ok"}, "done", {"stops", "coords"}) \cup Move("soap", {"part"}, "done", {"stops"})
  \cup Move("soap", Lost, "done", {})

\* get_route_stops: both directions; SOAP, whose stops get the coordinates the memory
\* has, also when stops lack coordinates
RouteStops ==
  Move("ntc", {"ok"}, "done", {"stops", "coords"}) \cup Move("ntc", {"part"}, "coords", {"stops"})
  \cup Move("ntc", Lost, "soap", {})
  \cup Move("coords", {"ok"}, "done", {"coords"}) \cup Move("coords", {"part"} \cup Lost, "done", {})
  \cup Move("soap", {"ok"}, "done", {"stops", "coords"}) \cup Move("soap", {"part"}, "done", {"stops"})
  \cup Move("soap", {"none"}, "done", {}) \cup Move("soap", {"fail"}, "raise", {})

\* get_route_announcements: notices, then the notices of a few stops of the route
RouteNotices ==
  Move("notices", {"ok"}, "routeStops", {"notices"}) \cup Move("notices", Lost, "routeStops", {})
  \cup Move("routeStops", {"ok"}, "mobiett", {}) \cup Move("routeStops", Lost, "done", {})
  \cup Move("mobiett", {"ok"}, "done", {"traffic"}) \cup Move("mobiett", Lost, "done", {})

\* get_route_schedule: NTCAPI, then SOAP when there is no data
Schedule ==
  Move("ntc", {"ok"}, "done", {"times"}) \cup Move("ntc", Lost, "soap", {})
  \cup Move("soap", {"ok"}, "done", {"times"}) \cup Move("soap", {"none"}, "done", {})
  \cup Move("soap", {"fail"}, "raise", {})

\* get_route_metadata of NTCAPI asks for both directions; one that fails is left out
BothDirections(done, empty) ==
  Move("outward", {"ok"}, "inward", {"outward"}) \cup Move("outward", Lost, "inwardOnly", {})
  \cup Move("inward", {"ok"}, done, {"inward"}) \cup Move("inward", Lost, done, {})
  \cup Move("inwardOnly", {"ok"}, done, {"inward"}) \cup Move("inwardOnly", Lost, empty, {})

\* get_route_metadata: NTCAPI, then the web site when there is no data
Metadata ==
  BothDirections("done", "site")
  \cup Move("site", {"ok"}, "done", {"outward", "inward"}) \cup Move("site", {"none"}, "done", {})
  \cup Move("site", {"fail"}, "raise", {})

\* get_route_buses of IettClient: Mobiett positions with the plates of SOAP, or the buses of
\* either alone; a time limit on both ends it without any
MergedBuses(without) ==
  Move("json", {"ok"}, "soapToo", {}) \cup Move("json", Lost, "soap", {})
  \cup Move("soapToo", {"ok"}, "done", {"buses", "plates"})
  \cup Move("soapToo", Lost, "done", {"buses"}) \cup Move("soapToo", {"fail"}, without, {})
  \cup Move("soap", {"ok"}, "done", {"buses", "plates"}) \cup Move("soap", Lost, without, {})

\* get_route_buses: NTCAPI with the HAT_ID of the metadata, IettClient, the fleet in
\* memory; metadata without a HAT_ID counts as a call that answers nothing
Buses ==
  Move("meta", {"ok"}, "ybs", {}) \cup Move("meta", Lost, "json", {})
  \cup Move("ybs", {"ok"}, "done", {"buses"}) \cup Move("ybs", Lost, "json", {})
  \cup MergedBuses("fleet")
  \cup Move("fleet", {"ok"}, "done", {"buses"}) \cup Move("fleet", {"none"}, "done", {})

\* search_routes and search_stops of IettClient: by one column of Mobiett and, when nothing
\* is found, by the other; rows without a usable code are dropped
MobiettSearch(first, second, empty, failed) ==
  Move(first, {"ok"}, "done", {"data"}) \cup Move(first, {"part"}, empty, {})
  \cup Move(first, {"none"}, second, {}) \cup Move(second, {"ok"}, "done", {"data"})
  \cup Move(second, {"part", "none"}, empty, {})
  \cup Move(first, {"fail"}, failed, {}) \cup Move(second, {"fail"}, failed, {})

RouteSearch == MobiettSearch("byCode", "byName", "done", "raise")

\* _fetch_name of get_arrivals: a name that is not found is not cached
RouteName == MobiettSearch("byCode", "byName", "skip", "raise")

\* get_arrivals: NTCAPI, completed with route names and plates, or the HTML page
Arrivals(page, after) ==
  Move("ntc", {"ok"}, "plates", {"etas"}) \cup Move("ntc", {"part"}, "name", {"etas"})
  \cup Move("ntc", {"none"}, "done", {}) \cup Move("ntc", {"fail"}, page, {})
  \cup Move("name", {"ok"}, "plates", {"names"}) \cup Move("name", Lost, "plates", {})
  \cup Move("plates", {"ok"}, after, {"plates"}) \cup Move("plates", Lost, after, {})
  \cup Move("html", {"ok"}, after, {"etas"}) \cup Move("html", {"none"}, "done", {})
  \cup Move("html", {"fail"}, "raise", {})

\* get_stop_arrivals_via: the routes of both stops, uncached, before the page
ViaPage ==
  Move("common", {"ok"}, "html", {}) \cup Move("common", {"none"}, "unused", {})
  \cup Move("common", {"fail"}, "raise", {})
  \cup Move("unused", {"ok", "none"}, "done", {}) \cup Move("unused", {"fail"}, "raise", {})

\* get_arrivals with `via': what there is is filtered, unless the routes cannot be had
Via ==
  Arrivals("common", "routesAt") \cup ViaPage
  \cup Move("routesAt", {"ok"}, "done", {"filtered"}) \cup Move("routesAt", {"none"}, "empty", {})
  \cup Move("routesAt", {"fail"}, "done", {})

\* get_official_announcements: fetch_official_announcements answers a failure
\* with an empty page
Official == Move("site", {"ok"}, "done", {"items"}) \cup Move("site", Lost, "done", {})

\* search_stops, once the stop index is ready: upstream, then the table
StopSearch ==
  MobiettSearch("byName", "byCode", "done", "table")
  \cup Move("table", {"ok"}, "done", {"data"}) \cup Move("table", Lost, "raise", {})

\* get_stop_detail: upstream, completed from memory or the table; or these alone
StopDetail ==
  Move("soap", {"ok"}, "enrich", {"data"}) \cup Move("soap", Lost, "table", {})
  \cup Move("enrich", {"ok"}, "done", {"enriched"}) \cup Move("enrich", {"none"}, "done", {})
  \cup Move("enrich", {"fail"}, "raise", {})
  \cup Move("table", {"ok"}, "done", {"data"}) \cup Move("table", Lost, "raise", {})

\* endpoints with one source: info, raw arrivals, traffic
Single == Move("html", {"ok"}, "done", {"data"}) \cup Move("html", {"none"}, "done", {})
          \cup Move("html", {"fail"}, "raise", {})

Moves ==
  [routesAt |-> RoutesAt, notices |-> Notices, stopNotices |-> StopNotices,
   routeStops |-> RouteStops, routeNotices |-> RouteNotices,
   meta |-> Metadata, schedule |-> Schedule, buses |-> Buses, name |-> RouteName,
   arrivals |-> Arrivals("html", "done"), via |-> Via, official |-> Official,
   routeSearch |-> RouteSearch, stopSearch |-> StopSearch, stopDetail |-> StopDetail,
   single |-> Single]

Key == DOMAIN Moves

First ==
  [routesAt |-> "html", notices |-> "soap", stopNotices |-> "routesAt", routeStops |-> "ntc",
   routeNotices |-> "notices", meta |-> "outward", schedule |-> "ntc", buses |-> "meta",
   name |-> "byCode", arrivals |-> "ntc", via |-> "ntc", official |-> "site",
   routeSearch |-> "byCode", stopSearch |-> "byName", stopDetail |-> "soap",
   single |-> "html"]

\* parents that await a child under asyncio.wait_for
Limited == {<<"stopNotices", "routesAt">>, <<"stopNotices", "notices">>,
            <<"routeNotices", "notices">>, <<"routeNotices", "routeStops">>}

Ends == {"done", "empty", "skip", "negative", "raise"}

ASSUME AskedAssumption == Asked \subseteq SUBSET Key
ASSUME MaxAgesAssumption == MaxAges \in Nat
ASSUME ChainAssumption ==
  \A k \in Key : \A m \in Moves[k] : m.next \in Ends \/ \E n \in Moves[k] : n.step = m.next

Steps == [k \in Key |-> {m.step : m \in Moves[k]}]
Parts == UNION {{m.parts : m \in Moves[k]} : k \in Key}

\* an entry: its parts, its age, and whether any source has answered for it
Stored == [has : SUBSET UNION Parts, age : {"fresh", "stale", "expired"}, heard : BOOLEAN]

\* a fetcher that runs: where it is and what it has, who awaits it if it is not the
\* background, the entry that a leader may fall back on, and whether it awaits another
Fetcher(k) ==
  [step : Ends \cup Steps[k], got : SUBSET UNION Parts, heard : BOOLEAN,
   leader : Key \cup {"client", "background"}, base : Stored \cup {None}, waits : BOOLEAN]

ASSUME NoneAssumption == None \notin Stored /\ \A k \in Key : None \notin Fetcher(k)

VARIABLES
  asked,   \* the keys that clients ask for
  cache,   \* _store
  fetch,   \* the fetchers that run
  ages     \* ageing so far

vars == <<asked, cache, fetch, ages>>

Entry(has, heard) == [has |-> has, age |-> "fresh", heard |-> heard]

\* a fetcher that starts
Start(k, leader) == [step |-> First[k], got |-> {}, heard |-> FALSE, leader |-> leader,
                     base |-> IF leader = "background" THEN None ELSE cache[k], waits |-> FALSE]

\* a stale entry is served and refreshed in the background; an expired or missing
\* one is fetched
Usable(k) == cache[k] # None /\ cache[k].age \in {"fresh", "stale"}

\* a lookup of k has to start its fetcher
Needed(k) == fetch[k] = None /\ ~(cache[k] # None /\ cache[k].age = "fresh")

Leader(k, who) == IF Usable(k) THEN "background" ELSE who

\* cache_get_or_fetch by an endpoint
Ask(k) ==
  /\ k \in asked /\ Needed(k)
  /\ fetch' = [fetch EXCEPT ![k] = Start(k, Leader(k, "client"))]
  /\ UNCHANGED <<asked, cache, ages>>

\* cache_get_or_fetch by the fetcher p: an answer at once, or a wait
Outcome(has) == IF has = {} THEN "none" ELSE "ok"

\* fetcher p after an outcome of its step
Taken(p, out, heard) ==
  {[f |-> [fetch[p] EXCEPT !.step = m.next, !.got = @ \cup m.parts, !.waits = FALSE,
                           !.heard = @ \/ heard]] :
     m \in {n \in Moves[p] : n.step = fetch[p].step /\ n.out = out}}

Nested(p) == fetch[p] # None /\ fetch[p].step \in Key

Nest(p) ==
  LET c == fetch[p].step
  IN  /\ Nested(p) /\ ~fetch[p].waits
      /\ \E f \in IF Usable(c) THEN {t.f : t \in Taken(p, Outcome(cache[c].has), cache[c].heard)}
                  ELSE {[fetch[p] EXCEPT !.waits = TRUE]} :
           fetch' = [fetch EXCEPT ![p] = f, ![c] = IF Needed(c) THEN Start(c, Leader(c, p)) ELSE @]
      /\ UNCHANGED <<asked, cache, ages>>

\* a call to an upstream service ends, at the latest by its timeout
Call(k, out) ==
  /\ fetch[k] # None /\ fetch[k].step \notin Key \cup Ends
  /\ \E t \in Taken(k, out, out # "fail") : fetch' = [fetch EXCEPT ![k] = t.f]
  /\ UNCHANGED <<asked, cache, ages>>

\* Faulty variant of Left: the fetchers that follow are left with a future nobody resolves.
LeftWaiting(p, c) == fetch

\* the fetchers when the leader p of c is cancelled: those that follow ask again
Left(p, c) ==
  [k \in Key |-> IF k # p /\ Nested(k) /\ fetch[k].waits /\ fetch[k].step = c
                 THEN [fetch[k] EXCEPT !.waits = FALSE] ELSE fetch[k]]

\* wait_for gives up; a child that p leads is cancelled
GiveUp(p) ==
  LET c == fetch[p].step
      leads == fetch[c] # None /\ fetch[c].leader = p
  IN  /\ Nested(p) /\ fetch[p].waits /\ <<p, c>> \in Limited
      /\ \E t \in Taken(p, "fail", FALSE) :
           fetch' = IF leads THEN [Left(p, c) EXCEPT ![p] = t.f, ![c] = None]
                    ELSE [fetch EXCEPT ![p] = t.f]
      /\ UNCHANGED <<asked, cache, ages>>

\* Faulty variant of Delivered: an empty result does not reach the fetchers that wait.
DeliveredFull(k, out, heard) ==
  [p \in Key |-> IF p = k THEN None
     ELSE IF Nested(p) /\ fetch[p].waits /\ fetch[p].step = k /\ out = "ok"
     THEN (CHOOSE t \in Taken(p, out, heard) : TRUE).f ELSE fetch[p]]

\* the fetchers when k has ended and its future is resolved
Delivered(k, out, heard) ==
  [p \in Key |-> IF p = k THEN None
     ELSE IF Nested(p) /\ fetch[p].waits /\ fetch[p].step = k
     THEN (CHOOSE t \in Taken(p, out, heard) : TRUE).f ELSE fetch[p]]

\* the fetcher returns: the answer is stored
Return(k) ==
  LET has == IF fetch[k].step = "empty" THEN {} ELSE fetch[k].got
  IN  /\ fetch[k] # None /\ fetch[k].step \in {"done", "empty"}
      /\ cache' = [cache EXCEPT ![k] = Entry(has, fetch[k].heard)]
      /\ fetch' = Delivered(k, Outcome(has), fetch[k].heard)
      /\ UNCHANGED <<asked, ages>>

\* SkipCache: an empty answer that is not stored, or was by the fetcher itself
Skip(k) ==
  /\ fetch[k] # None /\ fetch[k].step \in {"skip", "negative"}
  /\ cache' = IF fetch[k].step = "skip" THEN cache ELSE [cache EXCEPT ![k] = Entry({}, FALSE)]
  /\ fetch' = Delivered(k, "none", fetch[k].heard)
  /\ UNCHANGED <<asked, ages>>

\* an exception: a leader falls back on the entry there was, however old
Raise(k) ==
  LET base == fetch[k].base
  IN  /\ fetch[k] # None /\ fetch[k].step = "raise"
      /\ fetch' = IF base = None THEN Delivered(k, "fail", FALSE)
                  ELSE Delivered(k, Outcome(base.has), base.heard)
      /\ UNCHANGED <<asked, cache, ages>>

\* the next age of an entry; a negative one has no stale window, an expired one is swept
Aged(k) ==
  IF cache[k].age = "fresh" /\ (k = "notices" => cache[k].heard)
  THEN [cache[k] EXCEPT !.age = "stale"]
  ELSE IF cache[k].age = "expired" THEN None ELSE [cache[k] EXCEPT !.age = "expired"]

\* time
Age(k) ==
  /\ cache[k] # None /\ ages < MaxAges
  /\ cache' = [cache EXCEPT ![k] = Aged(k)]
  /\ ages' = ages + 1
  /\ UNCHANGED <<asked, fetch>>

Init ==
  /\ asked \in Asked
  /\ cache = [k \in Key |-> None]
  /\ fetch = [k \in Key |-> None]
  /\ ages = 0

Run(k) ==
  \/ Nest(k) \/ Return(k) \/ Skip(k) \/ Raise(k)
  \/ \E out \in {"ok", "part", "none", "fail"} : Call(k, out)

Next == \E k \in Key : Ask(k) \/ Run(k) \/ GiveUp(k) \/ Age(k)

Spec == Init /\ [][Next]_vars

\* upstream calls have timeouts and the loop runs what is ready
FairSpec == Spec /\ \A k \in Key : WF_vars(Run(k))

-----------------------------------------------------------------------------
(* Properties *)

\* Every variable stays in its domain.
TypeOK ==
  /\ asked \in Asked /\ ages \in 0 .. MaxAges
  /\ cache \in [Key -> Stored \cup {None}]
  /\ DOMAIN fetch = Key
  /\ \A k \in Key : fetch[k] # None =>
       /\ fetch[k] \in Fetcher(k)
       /\ fetch[k].waits => fetch[k].step \in Key

\* no answer, mostly 502, when no source answers
Strict == {"routesAt", "routeStops", "meta", "schedule", "name", "arrivals", "via",
           "routeSearch", "stopSearch", "stopDetail", "single"}

\* An outage is not cached: where a handler answers 502, nothing is stored unless a source
\* has answered, so that no failure takes the place of a stale answer (routes.py:244-258,
\* stops.py:355-359).
OutageNotCached == TypeOK /\ \A k \in Strict : cache[k] # None => cache[k].heard

\* Fetchers await one another without a cycle and every wait ends (routes.py:489-510), also
\* when the time limit of another cancels the call they follow (stops.py:557-566,
\* routes.py:448-460).
FetchesEnd ==
  \A k \in {"stopNotices", "routeNotices", "buses", "arrivals", "via"} :
    fetch[k] # None ~> fetch[k] = None

=============================================================================
