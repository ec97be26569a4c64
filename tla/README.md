# Verification of iett-middle

TLA+ models of the parts of this service that keep state across requests, TLC
runs over small instances of them, and TLAPS proofs that hold for every value of
the constants. `PROJECT.json` lists the components, the runs, the mutants, the
source lines behind every definition, the findings, the hazards and the theorems.

    tlc -config TtlCache.cfg MCTtlCache       # one run; see "Runs"
    tlapm TtlCacheProofs.tla                  # one proof module

## The system

iett-middle is a FastAPI process on one asyncio event loop. It puts a JSON API in
front of several services of the Istanbul bus operator (SOAP, two OAuth services,
HTML pages, the ARAC vehicle service, traffic, OSRM). Code runs without
interruption between two awaits; the only threads are those of the default
executor, which writes to SQLite and parses large responses.

| component | state | operations | correct when |
|---|---|---|---|
| TTL cache (`services/cache.py`) | entries with a fresh and a stale window in insertion order, futures in flight, background tasks | get-or-fetch, set, delete, invalidate, sweep | one upstream call per key, no request waits for ever, no older value over a newer one, size bounded, failures fall back |
| SOAP router (`services/soap_router.py`) | health of direct access and of each proxy, call histories | post: direct call, probe, proxy selection, retry | quota, spacing and cooldown of each gateway, which concurrent posts exceed by their number at most, every post ends, direct access comes back |
| fleet store (`deps.py`) | fleet, two indexes, trails, last routes, time stamps, plate mappings | full and partial updates, plate lookups | indexes agree with the fleet, nothing leaks, what should survive a parked bus does |
| vehicle cache (`services/vehicle_cache.py`) | SQLite table | batch upsert from executor threads, search | a plate once learned is not lost |
| fleet refresh (`deps.py`, `fleet_poller.py`, `routers/fleet.py`) | refresh task, time stamps, cooldown | refresh if stale, manual refresh, periodic refresh, cancel | one refresh at a time, snapshots in order, never stuck |
| stop store (`deps.py`, `stop_indexer.py`, `stop_cache.py`) | stops by code, index of located stops, SQLite table | preload, daily catalogue, discovered stops | merges take no known fact back, index and dict agree |
| token and id caches (`ntcapi_client.py`, `mobiett_client.py`) | bearer tokens, route ids | ensure token, call, drop on 401 | one fetch at a time and only when needed, a token outlives its call if its lifetime is known well enough, a 401 does not repeat, the id cache stays bounded |
| ARAC sessions (`routers/arac.py`, `arac_client.py`) | captcha cookies, single-use hashes | captcha, session, detail | a captcha is gone after its request, a hash is sent once, an answer is about the vehicle asked for |
| routers (stops, routes, announcements, garages, traffic) | none; they go through the cache | fallback chains, negative caching | an outage is not stored as an answer, nobody waits in a circle or for a call that was cancelled |
| lifespan (`main.py`) | four background tasks, the HTTP session | start, ordered shutdown | nothing runs on what is closed, every cancellation is taken for one, a failing round ends no loop |
| parsers, scrapers, normalizers, coercion | none | pure functions | documented rules for plates, routes, destinations |

How they interact: routers read through the cache; a fetcher calls a client; the
IETT client posts through the SOAP router; route fetches and the refresh task
write the fleet store, which hands jobs to the executor for the vehicle cache;
arrivals look up plates and write mappings; the lifespan starts and stops the
pollers. Hard behaviours: awaits between a check and the use of it, cancellation
of a task others wait for, background refreshes that outlive their request,
upstream answers that arrive out of order, executor jobs in any order, restarts
that keep only the tables.

## Modules

| module | models | status |
|---|---|---|
| `CoalescedReads` | the abstract cache: one upstream call per key, values current during it | refined by `TtlCache` |
| `WriteBehind` | the abstract store with a table: what is in memory, on its way to the table, in the table | refined by `StopStore` and `FleetStore` |
| `TtlCache` | `cache.py`, whole | checked, proved |
| `SoapRouter` | `soap_router.py`, whole | checked, proved |
| `FleetStore` | the fleet half of `deps.py`, the plate column of `vehicle_cache.py` | checked, proved |
| `FleetRefresh` | `ensure_fleet_fresh`, `fleet_poller.py`, `routers/fleet.py`, the shutdown in `main.py` as far as they need it | checked, proved |
| `Lifespan` | extends `FleetRefresh` with the other three background tasks and the whole shutdown | checked, proved |
| `StopStore` | the stop half of `deps.py`, `stop_cache.py`, `stop_indexer.py`, the endpoints that record stops | checked, proved |
| `TokenCache` | tokens of `ntcapi_client.py` and `mobiett_client.py`, `utils/lock.py`, the HAT_ID cache | checked, proved |
| `AracSession` | `arac.py` and `arac_client.py` | checked, proved |
| `Endpoints` | the cached fetchers of `routers/` with their sources, and how they nest | checked, proved |
| `TtlCacheProofs`, `SoapRouterProofs`, `FleetStoreProofs`, `FleetRefreshProofs`, `StopStoreProofs`, `TokenCacheProofs`, `AracSessionProofs`, `EndpointsProofs` | theorems about the module they extend (`FleetRefreshProofs`: about `Lifespan` too) | proved |
| `MC*` | constants and mappings for TLC | |

`FleetRefresh` keeps of a snapshot one bus with the number of its latest known
move, `FleetStore` keeps what an update does to every table; both read
`update_fleet`, each for its own question. In the same way `Endpoints` keeps of the
cache who fetches and what is stored, and leaves clients that disconnect,
eviction and the order of equal requests to `TtlCache`.

### TtlCache

One action is what a task does between two suspensions. The bodies of
`async with _lock` await nothing, so the lock is never contended and is not a
variable. The suspensions are `await fetcher()` (leader and background),
`await asyncio.shield(fut)` (follower) and the start of a created task.

- `store`, `older` are `_store` and the order of the dict (which decides what is
  evicted); an age is `fresh`, `stale` or `expired`, and `Age` moves one entry at
  any moment, so jitter and every pair of TTLs are covered.
- `inflight` and `fetch` are `_inflight` and its futures, each with its task. A
  value is the version of the upstream data it was read from; `base` is the
  version when the call started.
- `Request` is `cache_get_or_fetch` up to its first suspension, one disjunct per
  branch (`HitFresh`, `HitStale`, `HitStaleRefresh`, `Follow`, `Lead`). `Wake`
  is the follower after its await, `FetchOk`, `FetchSkip`, `BackgroundFail`,
  `LeaderFallback`, `LeaderFail` the end of a fetcher, `TaskCut` and
  `FollowerCut` a cancelled task.
- `Remove` is every delete and invalidation, `Sweep` one round of `sweep_forever`.

A background task that is cancelled before its first step never unregisters its
future; nothing cancels those tasks, so only a running task is cut in the model.

### SoapRouter

`StartDirect` and `StartPool` open a post; `Pool` is one turn of the proxy loop
(purge, quota, spacing, least recently called) up to the sleep or the call;
`Awake` ends the sleep, `ProxyOk` records the call (after the response, as the code
does), `ProxyFail` excludes the proxy and turns again, `Abort` is a client that
disconnects. Time stamps are ages capped where the code stops telling them apart.
Two variables are not in the code: `sent` lists the requests a gateway really received
within the window, so that quota, spacing and isolation are stated of what the gateway
sees, and `lost` the ends of those that failed or were cancelled, which `record_call`
never counts. One unit of time stands for the spacing interval (2 s).

### FleetStore

`update_fleet` and `record_plate_mapping` await nothing: `UpdateFleet` and
`Answer` are one action each, all tables and the executor job included. `Ask` and
`Answer` are the two sides of the await in `get_arrivals`. `Persist(i)` commits
any waiting job; `Restart` loses memory and jobs. Upstream services spell a door
number in several ways and the code keys its dicts by three forms of it, all of which
are kept apart: `Kapino` as spelt (fleet, trails, time stamps), `Name` in upper case (last
routes) and `Door` with nothing but letters and digits (indexes, mappings). The clients trim
and pad a door number and keep its case, so two spellings may share a `Name`.
`unstamped` is not in the code: the doors whose mapping a lookup recorded while no bus of
theirs had a time stamp.
Where the last of several dicts wins (`_clean_fleet`, `_plate_fleet`) or the oldest
mappings are evicted, any candidate may be chosen. Under `WriteBehind` the items are the
clean door numbers: `memory` has those for which a bus or a mapping shows a plate,
`waiting` those with a plate in a job, `table` those with one in `saved`.

### FleetRefresh

`EnsureFresh` is `ensure_fleet_fresh`, called by `GetFleet`, `PostRefresh`, `Poll`
and `ReadFallback`. A task goes from created to fetching to parsing (a thread)
and applies its snapshot in one step. `StopPoller`, `CancelRefresh`,
`CancelReturns` and `Close` follow `lifespan`; the fetches of the routes router go
on during them because nothing cancels the background tasks of the cache.

### Lifespan

`Begins`, `Preloaded`, `Worked`, `Failed`, `Wakes` are the three loops; the
sweeper has nothing to await but its sleep. `Cancel` is `task.cancel()` in the order
of `lifespan`, with `StopPoller`, `CancelRefresh`, `CancelReturns` and `Close` of
`FleetRefresh` between and after them (`Rest`). `Lands` is the cancellation, wherever
the task is suspended: the sweeper, the indexer and the refresher let it pass, the
notice poller returns when it was in its call and raises from its sleep, and
`lifespan` takes both. The server ends its requests before the shutdown, so `GetFleet`
and `PostRefresh` stop with it.

### StopStore

`stops`, `index`, `updated` are `_stop_by_code`, `_stop_index` (as a count per
code, so that a stop listed twice would show) and whether `_stop_index_updated_at` is
set. A stop is a function from facts to none, zero or known: 0.0 is what SOAP
sends and what the Mobiett parser puts for a missing coordinate, and the code tells it
from None in some places and not in others. `RecordStops` is `record_stops_batch`,
`UpdateStopIndex` is `update_stop_index`, both whole, the executor job included.
`PreloadRead` and `PreloadRecord` are the two sides of the thread in the indexer.
`DetailAsk`, `DetailAnswered`, `DetailFromTable` follow one request of
`get_stop_detail` over its awaits; `live` says that the dict it holds is still the one
in memory, which the first catalogue may replace. `Chosen` is the choice between the
SOAP and the JSON answer. `Commit(i)` commits any waiting batch, `CommitFails` loses it,
`Restart` loses memory and batches. Under `WriteBehind` the items are the codes of stops
with a name: in the dict, in a batch, in the table.

### WriteBehind

Both halves of `deps.py` keep a dict, hand what it learns to the executor and read the
table later. `WriteBehind` is what they have in common: the memory takes in only items
that are handed on in the same step, wait already or are in the table (`Learn`); what
leaves the backlog is stored (`Commit`), or a loss is counted (`Lose`, `Restart`); the table
never shrinks. So without a loss everything in memory waits or is stored, and what was
learned once stays. The memory may forget at any time: a catalogue replaces the dict, a
snapshot drops a bus, a mapping expires or is evicted.

### TokenCache

`client` is chosen once: the two clients differ in what a 401 and a token response
without token do. `queue` is the `LazyLock` of `utils/lock.py`: its head holds it.
`Ensure` is `_ensure_token` up to its first suspension, `Woken` the second check,
`FetchOk` and `FetchFail` the end of the token request, `Send`, `Reject` and
`CallEnds` a service call, `HatAnswered` the end of `get_hat_id`, which continues
with `get_live_fleet`. `Cancel` is a `wait_for` or a client that leaves, at any await.
A token carries the lifetime the process believes in (`left`) and what the gateway grants
(`real`). `Believed` is how the first comes about: `expires_in` as it stands; in ntcapi an
`expire_date`, read by a clock that may be apart from the gateway's by `Skews` and
replaced by an hour when it is within the next minute or beyond a day; an hour when the
answer says nothing, and in mobiett whenever there is no `expires_in`. The answer that brings a
token may be as old as the time the request took. `fit` is not in the code: whether the
token was granted for longer than two timeouts and is believed to last longer than it
does by no more than the margin less a timeout. A lifetime that is not a number fails in the
code and is not modelled.

### AracSession

A request is one coroutine: `create` uses a captcha that was fetched before and hands
out a session key, `detail` comes back with a key, `auto` reads a captcha of its own.
All look up a hash (`Lookup` in the table, `Query`, `Store`), with a second search for
the whole name when the digits found only others (`AskAgain`). `verified` is the
portal: the vehicle for which a cookie jar has solved its captcha. The portal takes a
captcha and a hash once, lists any vehicles for a door number and those that bear it for
a plate, and two vehicles may swap plates at any time. A hash is marked as sent when it is
posted with the captcha (`Sent`). `End` ends a handler, its
`finally` included. Session keys in `keys` are kept for the property; the code gives
them to the client.

### Endpoints

A fetcher is a table of moves, one definition per fetcher: at a step, with an outcome
(`ok`, `part`, `none`, `fail`), it gains parts of its answer and goes to the next
step, or to one of the ends `done`, `empty` (all filtered away), `skip` and `negative`
(`SkipCache`), `raise`. A step that is a key awaits that cached fetcher (`Nest`,
`Delivered`), any other is an upstream call (`Call`). `GiveUp` is `asyncio.wait_for`
around a nested fetcher: it cancels the child if this parent leads it, and those that
followed the child ask again. Gathered calls that share nothing are made in turn.
`heard` is not in the code: whether any source has answered.

## Runs

| run | instance | states | shows |
|---|---|---|---|
| `cache` | 2 clients, 1 fetched and 1 written key, room for 1 | 65 296 | single flight, registrations are live, fallbacks are current, values only move forward, size bound, cancellation stays with its task, every request answered, refinement of `CoalescedReads` |
| `soap_sequential` | 1 caller, 2 gateways, quota 3 in 4, cooldown 2 | 110 620 | quota, failed requests included; posts end |
| `soap_concurrent` | 2 callers, 1 gateway, quota 3 in 3, cooldown 2, 1 disconnect | 183 859 | what is left of quota, spacing and isolation: exceeded by the callers at most; direct access comes back |
| `fleet_indexes` | 2 buses, 2 plates, 1 lookup, room for 1 mapping, 2 jobs, 1 loss or restart | 142 468 | indexes agree when lookups and snapshots tell different plates, plates are written behind (`WriteBehind`) |
| `fleet_routes` | 2 spellings of one door, 2 places, 1 route, 1 plate, 1 lookup, expiry after 2 | 128 098 | indexes agree, what is kept apart from the fleet hangs on a time stamp, routes survive 24 hours |
| `refresh_shared` | 2 tasks, 2 route fetches, 2 moves | 111 146 | one refresh at a time, snapshots keep coming |
| `lifespan` | 2 tasks, 1 move, no route fetches | 113 808 | nothing runs after the close, shutdown ends, failing rounds end no loop, snapshots in order |
| `stops` | 1 stop with 4 facts, 1 detail request, 1 batch at a time, 1 loss or restart | 913 168 | list and dict agree, only 0.0 takes a known fact back, names are written behind (`WriteBehind`) |
| `tokens` | 2 callers, 2 routes in room for 1, 2 lifetimes stated in 3 ways, 4 clocks, 1 revocation | 200 387 | one needed fetch at a time, fit tokens outlive their calls, 401s do not repeat, id cache bounded, nobody stuck at the lock |
| `arac` | 2 requests, 2 vehicles, 2 plates, 1 captcha, 1 swap | 901 602 | hashes sent once, the vehicle asked for, captchas consumed, the second search is the last |
| `endpoints` | every endpoint with what it nests, two that share; 2 ageings | 209 271 | no outage stored, no circular wait, nobody waits for a call that was cancelled |
| `cache_fallback` | 2 clients, 1 key | | a violation, see "Findings" |

Of every component but `Lifespan`, `TypeOK` is a theorem; where it is a
conjunct of a property of a run it is checked with that property as well.

Bounds. Two clients are a leader and a follower; a third that arrives later is the
first again, since a client asks as often as it likes. Two versions distinguish older
from newer. Two gateways are one to exclude and one to fall back on, which one caller
needs; what callers share is one gateway. Two buses with room for one mapping make the
eviction of another's mapping real, and two plates let a lookup that was asked before a
snapshot bring another plate than it. Two spellings of one door (`fleet_routes`) make the
last-wins choice of an index real. The two buses, the two spellings, plates and places are
interchangeable, so the runs of the fleet identify states up to their permutation
(`AlikeBuses`, `AlikeSpellings`). Refresh tasks are reused once they have ended; with the
registered one and one left over from a shutdown two are enough. Stops share
only whether there is an index yet: merges, list and table are per code, so one code
with all its sources is the whole case. In `stops` the executor has room for one batch
and no answer is recorded while it waits, so memory does not change under a waiting batch,
and after a loss or a restart no detail request is followed (`NoRequestAfterLoss`). Batches that
wait for each other beside a memory that goes on are covered by the theorems `FactsAccumulate`,
`NamesReachTheTable` and `Refinement` alone, which assume no bound.
Two token callers are the holder of the lock and a waiter; a lifetime of one unit
above the margin makes tokens expire within the length of a call. The other lifetime is too
short for a call, the clocks are behind, in step, ahead by what the margin can pay for and
by more, and the hour that is assumed is right for no lifetime but near enough to one.
Two ARAC requests and
one captcha are the interleaving on that captcha, and a second vehicle is the wrong
one. Of the endpoints only those that nest a common fetcher interact; two ageings take
one entry from fresh to expired or two to stale.

The quota holds in `soap_sequential` although failed requests are not recorded: a
failure costs the gateway its cooldown, half the window in the settings (60 of
120 s) and in the run (2 of 4), more than the requests the failure hides. With
concurrent callers none of the three promises of `soap_router.py` holds; `soap_concurrent`
says what is left. `OverrunBounded`: of the requests of a window those that are answered or
under way exceed the quota by the other callers, and those that failed or were
cancelled come on top. `BurstBounded`: within an interval no caller sends twice, unless it was
cancelled. `LeakBounded`: a cooldown lets through only the callers that had selected the
gateway when it failed.

Fairness. `TtlCache`: the loop runs every ready task, and a fetcher ends because
every upstream call has a timeout; nothing is assumed of clients, of time or of the
outcome. `SoapRouter`: time passes, upstream calls end, and requests keep coming
(the refresher alone issues them); `DirectComesBack` assumes that direct calls
stop failing. `FleetRefresh`: time passes, the refresher wakes and tasks end;
`SnapshotsKeepComing` assumes that calls stop failing and that shutdown does not
begin. `Lifespan`: tasks that can go on do, and a shutdown that has begun is carried
on; `PollersGoOn` assumes that no shutdown begins and calls stop failing.
`TokenCache`, `AracSession`, `Endpoints`: requests to upstream end (each has a timeout),
threads end, the loop runs what is ready. No caller has to come back.

## Findings

`cache_fallback`: a follower of a failing background refresh gets its exception
although the expired entry a leader would fall back on is still there
(`cache.py:174` against the comment at `:66`).

## Seen while modelling

Not given a run of its own: the code may mean it, no line says otherwise, or a property of a
passing run names it as its exception.

- SOAP: two posts select one gateway before either is recorded, and reach it at once
  (`soap_router.py:164`, `:254`; `:12` says "minimum 2.0s interval"). A post that sleeps for a
  gateway calls it although it failed meanwhile, and a success under way ends an isolation
  early (`:236-253`; `:15-16` says "isolates failing proxies with a 60-second cooldown").
  `BurstBounded` and `LeakBounded` say how far it goes. A direct call that began before a
  failure and succeeds after it does not restore direct routing (`:195-217`).
- Cache: a background refresh stores no default stale window (`cache.py:168`, `:210`).
- Fleet: time stamps are kept by the door number as spelt and last routes by its upper-case
  form, so a spelling that is no longer used takes the route of a bus that is seen in another
  (`deps.py:364`, `:368-373`; `:84` says "survives when bus parks / goes offline"); write-behind jobs of one bus commit in any order and are not repeated, so
  the table may keep an older plate than the mapping (`deps.py:404-427`); the mapping that a
  lookup records of a bus without a time stamp does not expire (`:286`, `:376`); a response
  without buses empties the fleet, after which endpoints answer 503 again
  (`deps.py:379`, `fleet.py:65`); mappings of `update_fleet` have no bound (`:414`);
  trails are cut by length, not by age (`:327`); the plate index keeps the old plate of
  a renamed bus until the next update (`:291`); a full snapshot read before a route
  update may be applied after it (`:332`); a route fallback during shutdown may start
  a refresh nobody cancels (`main.py:159`).
- Stops: a Mobiett answer without coordinates is recorded as 0.0 and overwrites known
  coordinates in the table (`iett_parser.py:592-593`, `stop_cache.py:238`; `README.md:170` says
  "non-destructively", and `tests/test_stop_cache.py:70` tests it with None); in memory the
  catalogue does the same with a `POINT (0 0)` (`deps.py:452`). `FactsKept` says that nothing
  else takes a known fact back. A 0.0 that is recorded first keeps the real coordinate of a later answer out of
  the memory, where only None counts as missing (`deps.py:518-521`); the first catalogue drops the stops
  without location that requests have recorded (`deps.py:442`); a district scraped by
  `/info` has no name and is never persisted (`deps.py:544`); an entry without a name
  in memory hides the name in the table (`stops.py:473`); a blank name of the catalogue
  overwrites one that is known (`deps.py:452`).
- Routes: the docstring of `iett_client.get_route_stops` says that stops without
  coordinates are never stored (`iett_client.py:555-557`), `routes.py:248-278`
  stores them for the whole TTL; metadata of which one direction failed is stored as
  complete (`ntcapi_client.py:273-292`); a comment of `ntcapi_client.get_route_stops`
  selects one variant of a route, the code keeps all (`ntcapi_client.py:215-219`,
  `:248-252`); an announcement fetch that fails replaces a usable stale list by an
  empty one (`routes.py:389`).
- Announcements: a failing site yields an empty page that is stored
  (`announcements.py:41`, `iett_scraper.py:251-273`).
- Tokens: an `expire_date` within the next minute is replaced by an hour, also when the clocks
  are in step, so the fast path may return a token that has ended (`ntcapi_client.py:90-92`;
  `:52` says "token valid for at least another 60 s"). A HAT_ID that was not found stays None until it is evicted
  (`mobiett_client.py:111-130`); a 401 does not drop the NTCAPI token
  (`ntcapi_client.py:118`).
- Shutdown: executor jobs are not awaited, and one that runs after
  `close_connection` opens the database again (`stop_cache.py:119`).

## Proofs

Every safety property and every action property of the passing runs is a theorem, for
all constants that satisfy the named assumptions of its module. The assumptions say no more than that null values are not data, names of
different kinds differ, settings are natural numbers of the size the code gives them,
there are finitely many callers and proxies, and (`PlatesAssumption`) vehicles can have
different plates. `ChainAssumption` of `Endpoints` has no parameter: it says that the
tables of moves are closed, and TLC evaluates it. Where a theorem has a hypothesis of its
own it is named below.

In each module `IInv` is the inductive invariant, the property alone being too weak;
parts that only some theorems need are added to it by name. One lemma per action
or group of actions shows that the step keeps it, `Inductive` combines them, and the
theorems follow from it or, for action properties, from it and the step. Each
module begins with the lemmas it needs about queues and lists: which elements an
`Append`, `Tail`, `RemoveAt` or `RemoveFirst` leaves, in which order, and that they stay
distinct.

`TtlCacheProofs`. That a leader's fallback is current needs that nobody else stores
the key meanwhile, which needs that its fetch is the registered one. So
`IInv == TypeOK /\ Tracked`, with `Registered` (live tasks and registrations name each
other), `Waiting` (a follower has a future of a key it asked for), `Snapshots` (what a
leader may fall back on is what is stored, or nothing is) and `Ordered` (a stored version
is at most the one at which the running call started). `DictIsBounded` adds that what
is stored is finite and that insertion order is an order (`Sequential`): at the limit
some key was first (`FirstInserted`, by well-foundedness of finite sets), so cache_set
makes room whether or not anything has expired. Nothing is assumed of the number of keys.
`Refinement`: under the mapping of `calls` and `value` every step is a step of
`CoalescedReads` or a stutter: a fetcher's start is `Start`, its end `End` or `EndWith`
(with the evicted keys), removals, sweeps and evictions are `Forget`.

`SoapRouterProofs`. `IInv`: types; `Ordered` (the proxies are listed once each), `Lists` (call
lists are chronological and what is kept of them young), `Selected` (a caller holds a
proxy while it sleeps for it or calls it) and `Booked`: the history of a gateway and the callers
that hold it exceed the quota by less than the number of callers, since a gateway is picked when
its history has room and only those that hold it then can add to it. For any number of callers,
`Shared` and `Paced` then count requests per age. `Accounted`: what was sent in the last n units
is recorded since, under way, or lost since; with `Booked` that is `QuotaOverrunBounded`.
`Leaks`: what was sent since the failure, and whoever sleeps for the gateway and may still call
it, are fewer than the callers; that gives `LeaksAreBounded`. `Paced`, for
`BurstsAreBounded`: however an interval is cut in two, those that sent in its first part and those
that wake up in the second are different callers, cancelled ones aside, because the answer or
the failure of a request delays the next one of its caller (`Unsettled`; `SpacingSettings`: the
cooldown is at least the interval).

`QuotaIsKept` is proved for one caller (`OneCaller`), as the run
`soap_sequential` checks it, since concurrent callers break it. It also assumes that nobody is
cancelled in a call (`NoDisconnects`; such a request reaches the gateway and leaves no
trace), `SpacingSettings` and
`Window <= Cooldown + (MaxPerWindow - 1) * MinInterval` (`QuotaSettings`). The code has
2 s, 45 in 120 s and 60 s: 120 <= 60 + 44 * 2, and the run has 4 <= 2 + 2 * 1. The invariants
are `Isolated` (a caller sleeps only for an available gateway), `Timely` (the last request to
a gateway is no younger than the stamp that delays the next) and `Metered`, which splits what
a gateway was sent at the last request that failed: later ones are in the history one
for one (`Recorded`), earlier ones are in no history but older by a cooldown on top of the
spacing (`Overdue`), so that they leave the window before the rest of the quota is used up.

`TokenCacheProofs`. `Locked` (the queue has exactly the callers that want the lock, its head
holds it, and a fetch runs only without a usable token), `Holding`, `Settled` (once a
caller has had a 401 for every revocation, the token in the cache and the one it calls with
are `Sound`: if fit, believed to last longer than they do by no more than the margin less a
timeout) and `HatBounded`. `MarginSuffices` says what the margin is for, with no assumption on
lifetimes and clocks; `StatedTokensAreFit` says which tokens that covers, under the assumption
that the margin is at least two timeouts (60 or 100 s against 8 s): every token that is granted for
more than two timeouts and stated by `expires_in`, those stated by an `expire_date` that is read
when the gateway's clock is ahead by at most the margin less a timeout (52 s), and those whose end
is near enough to the hour that is assumed. It covers no other.
`LockIsNotOrphaned`, from `Locked`, is the safety half of `CallsEnd`: whoever waits has someone
ahead that can move, also after a failure or a cancellation.

`StopStoreProofs`. `Requests` (a request refers to an entry only while that is in the
dict), `Listed` (the list counts 1 for a located stop and 0 for any other), `Pending`
(unless a batch was lost, a known name is in the table or in a waiting batch) and
`Preloaded` (the rows read by the preload name nothing that the table has not, whatever is
lost meanwhile). `FactsAccumulate` follows from the step alone, once `Filled` is known to
keep facts; the catalogue and the batches are the places where a 0.0 may replace one. `Refinement`: every step moves names in one of three ways (`Moved`), which are
`Learn`, `Commit` and `Lose` or `Restart` of `WriteBehind`. `Learned` is where the code could
go wrong: the row that is handed on must bear the name that the merge leaves in the dict,
and a preload that is recorded after requests may hand on nothing because of `Preloaded`.
`NamesReachTheTable` (with an idle executor and no loss a known name has a named row) says
the same of one state.

`AracSessionProofs`. `Jars` (cookies are distinct and were issued), `World`, `Requests`
(`Well`: what a request knows in each of its states; the hash it is about to post is unsent and
of the vehicle or plate that was asked for, its page lists only what matches) and `Keys`.

`FleetStoreProofs`. `IndexesCurrent` itself, `Remembered` (whatever is known of a bus
hangs on a time stamp of one of its spellings, or is a mapping of an `unstamped` door) and `Behind` (unless a job was lost, a plate in memory is
a copy of one in the table or in a job). `RoutesSurvive` needs that no step forgets a
young route. `Refinement`: as in the stop store every step moves plates in one of three ways
(`Moved`). An update learns plates from the response and keeps those of buses it lists;
a new one becomes a job because a response lists a bus once (`LearnStep`), and a late
NTCAPI answer writes only to buses of its own door number because the index leads there
(`AnswerKeeps`, from `IndexesCurrent`). `PlatesAreKept` (without a loss a plate once recorded
stays recorded) follows from `Behind` and `Moved`.

`FleetRefreshProofs`. `IInv == TypeOK /\ OneRefresh`: `EnsureFresh` starts a task only
when the registered one has ended, and a task that ends stays ended. `RefreshesInOrder`
assumes that there are no route fetches (with them it is false, see above) and adds `Truthful`
(nobody has read a move that has not happened) and `InOrder` (what a live task has read is no
older than what is shown). For `Lifespan`, `LifespanRefreshes` shows that every step of
the composition is one of `FleetRefresh`, so that its theorems carry over
(`LifespanKeepsOrder`). `NothingLeftRunning` rests on `LifeInv`: the shutdown gets past a
task only when that is gone (`InTurn`) and a task that is gone stays gone (`GoneStays`); no
refresh is alive after the cancellation of the registered one (`NoStray`), which holds
because the server has ended its requests.

`EndpointsProofs`. The tables are data of the model, so the lemmas `MoveShape` to `Strictness`
first say what their rows have in common, fetcher by fetcher: every table has its first step,
only parents have steps that are keys, those are leaves, and a strict fetcher (one whose handler
answers 502) ends well only after some source has answered. The invariant is then about any
fetchers that run at once: `Waiting` (who awaits a fetcher is a parent, and the leaf it
awaits runs), `Led` (a fetcher started by another is still awaited by it) and `Heard` (a
strict fetcher has been heard or is at a step before any answer). `OutagesAreNotCached`
follows from `Heard`. `WaitsAreShort` is the safety half of `FetchesEnd`: waits go from a
parent to a leaf and no further, so there is no circle and an upstream call always stands
at the end of one.

Only model-checked: liveness (`RequestsEnd`, `PostEnds`, `DirectComesBack`, `SnapshotsKeepComing`, `CallsEnd`,
`LookupsEnd`, `ShutdownEnds`, `PollersGoOn`, `FetchesEnd`), which is out of the prover's reach.

## Plan

What could come next: an abstract specification of a lock whose holder refreshes what it
guards, with `TokenCache` as a refinement; `Endpoints` composed with `TtlCache` instead of
its own small cache; and the lemmas of `SoapRouterProofs` about the difference of two
chronological lists, split into steps that can be read alone.

## Not modelled

Pure input and output (HTTP details, logging, metrics, rate limiting by the slowapi
library, CORS), the parsing of HTML and XML beyond which facts it yields, the
normalizers (field names and text clean-up), OCR, the distance computations of the
stop search, configuration parsing, and the probe script: they keep no state between
requests. OSRM is called by nothing. SQLite is an external service that commits a
job or fails; opening and closing its files is not modelled. Garages look up, fetch and
store without single flight: two misses cost two calls and nothing else.
