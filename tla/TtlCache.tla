------------------------------ MODULE TtlCache ------------------------------
(***************************************************************************)
(* The in-memory TTL cache of app/services/cache.py, with the asyncio      *)
(* tasks that use it.                                                      *)
(*                                                                         *)
(* No body of `async with _lock` awaits anything, so the lock is never     *)
(* contended and a task runs without interruption from one real await to   *)
(* the next: `await fetcher()`, `await asyncio.shield(fut)` and the start  *)
(* of a created task.  One action is one such uninterrupted run.           *)
(*                                                                         *)
(* A future of _inflight, the task that fills it and the upstream call it  *)
(* makes are one element of Fetch.  A value is the version of the upstream *)
(* data it was read from.  The clock is abstracted to the age of an entry: *)
(* fresh before fresh_exp, stale before stale_exp, expired after it.       *)
(***************************************************************************)
EXTENDS Integers, FiniteSets

CONSTANTS
  Caller,         \* tasks that call cache_get_or_fetch (client requests)
  Fetch,          \* identities of futures; more than the code can have at once
  FetchKey,       \* keys read with cache_get_or_fetch
  DirectKey,      \* keys written with cache_set only (garages, global notices)
  StaleTtl,       \* [FetchKey \cup DirectKey -> Nat]: the stale_ttl of each key
  CacheStaleTtl,  \* settings.cache_stale_ttl
  MaxCacheSize,   \* MAX_CACHE_SIZE
  EvictBatch,     \* MAX_CACHE_SIZE // 10
  MaxVersion,     \* bound: versions the upstream data goes through
  MaxDisconnects, \* bound: cancelled tasks
  NoEntry, NoKey, NoFetch, Background

Key     == FetchKey \cup DirectKey
Version == 0 .. MaxVersion
Entry   == [val : Version, age : {"fresh", "stale", "expired"}, swr : BOOLEAN]
Future  == [st : {"created", "running", "over"}, key : Key \cup {NoKey},
            owner : Caller \cup {Background}, snap : Entry \cup {NoEntry},
            base : Version, fut : {"pending", "result", "exception", "cancelled"},
            val : Version]
Reply   == [kind : {"none", "value", "error", "cancelled"}, val : Version]

ASSUME KeysAssumption ==
  /\ FetchKey \cap DirectKey = {}
  /\ NoKey \notin Key
  /\ StaleTtl \in [Key -> Nat]
  /\ CacheStaleTtl \in Nat
ASSUME NullsAssumption ==
  /\ NoEntry \notin Entry
  /\ NoFetch \notin Fetch
  /\ Background \notin Caller
ASSUME BoundsAssumption ==
  /\ MaxVersion \in Nat
  /\ MaxDisconnects \in Nat
  /\ MaxCacheSize \in Nat \ {0}
  /\ EvictBatch \in 1 .. MaxCacheSize

VARIABLES
  store,        \* _store: the entry of a key, or NoEntry
  older,        \* order of the dict: the stored keys inserted before a key
  inflight,     \* _inflight: the future registered for a key, or NoFetch
  fetch,        \* the futures and the tasks that fill them
  pc,           \* where the task of a caller is: "done", "leading", "following"
  want,         \* the key a caller asked for last
  waitsOn,      \* the future a caller leads or follows
  cut,          \* callers whose task has been cancelled (client disconnect)
  reply,        \* what the last request of a caller returned or raised
  upstream,     \* version of the upstream data
  disconnects   \* cancelled tasks so far

storeVars == <<store, older>>
callVars  == <<pc, want, waitsOn, cut, reply>>
envVars   == <<upstream, disconnects>>
vars      == <<storeVars, inflight, fetch, callVars, envVars>>

-----------------------------------------------------------------------------
(* The dict *)

Stored     == {k \in Key : store[k] # NoEntry}
Expired    == {k \in Stored : store[k].age = "expired"}
Oldest(S)  == {k \in S : Cardinality(older[k] \cap S) < EvictBatch}

\* `_store.pop(k, None)` for every k of S
Drop(S) ==
  /\ store' = [k \in Key |-> IF k \in S THEN NoEntry ELSE store[k]]
  /\ older' = [k \in Key |-> IF k \in S THEN {} ELSE older[k] \ S]

\* Faulty variant of Evicted: makes room only once the limit is exceeded.
EvictedLate ==
  LET swept == IF Cardinality(Stored) > MaxCacheSize THEN Expired ELSE {}
      rest  == Stored \ swept
  IN  swept \cup (IF Cardinality(rest) > MaxCacheSize THEN Oldest(rest) ELSE {})

\* The keys cache_set removes before it writes: at the limit the expired ones
\* and, when that is not enough, the first EvictBatch of the dict.
Evicted ==
  LET swept == IF Cardinality(Stored) >= MaxCacheSize THEN Expired ELSE {}
      rest  == Stored \ swept
  IN  swept \cup (IF Cardinality(rest) >= MaxCacheSize THEN Oldest(rest) ELSE {})

\* cache_set: makes room, then moves k to the end of the dict with a new entry
CacheSet(k, v, staleTtl) ==
  /\ store' = [j \in Key |->
                 IF j = k THEN [val |-> v, age |-> "fresh", swr |-> staleTtl > 0]
                 ELSE IF j \in Evicted THEN NoEntry ELSE store[j]]
  /\ older' = [j \in Key |->
                 IF j = k THEN Stored \ (Evicted \cup {k})
                 ELSE IF j \in Evicted THEN {} ELSE older[j] \ (Evicted \cup {k})]

-----------------------------------------------------------------------------
(* Futures and the tasks that fill them *)

Active(f)       == fetch[f].st \in {"created", "running"}
Follows(c, f)   == pc[c] = "following" /\ waitsOn[c] = f
EffectiveStale(k) == IF StaleTtl[k] > 0 THEN StaleTtl[k] ELSE CacheStaleTtl

\* f can stand for a new future of caller c: nobody else holds a reference to it
Unused(f, c) == ~Active(f) /\ \A d \in Caller \ {c} : ~Follows(d, f)

\* create_future() and its registration under _lock; `snap` is stored_entry
Register(f, k, st, owner, snap) ==
  /\ fetch' = [fetch EXCEPT ![f] =
       [st |-> st, key |-> k, owner |-> owner, snap |-> snap,
        base |-> upstream, fut |-> "pending", val |-> 0]]
  /\ inflight' = [inflight EXCEPT ![k] = f]

\* Faulty variant of Resolve: only a value gets past the await.
ResolveOnSuccess(f, fut, v) ==
  /\ fetch' = [fetch EXCEPT ![f] =
       [st |-> "over", key |-> NoKey, owner |-> Background, snap |-> NoEntry, base |-> 0,
        fut |-> IF fut = "result" THEN fut ELSE "pending", val |-> v]]
  /\ inflight' = IF fut = "result" THEN [inflight EXCEPT ![fetch[f].key] = NoFetch]
                 ELSE inflight

\* The end of the task of f: its future is resolved and, in `finally`,
\* unregistered if it is still the registered one.
Resolve(f, fut, v) ==
  /\ fetch' = [fetch EXCEPT ![f] =
       [st |-> "over", key |-> NoKey, owner |-> Background, snap |-> NoEntry,
        base |-> 0, fut |-> fut, val |-> v]]
  /\ inflight' = IF inflight[fetch[f].key] = f
                 THEN [inflight EXCEPT ![fetch[f].key] = NoFetch]
                 ELSE inflight

\* the request of c returns or raises
Return(c, kind, v) ==
  /\ pc' = [pc EXCEPT ![c] = "done"]
  /\ waitsOn' = [waitsOn EXCEPT ![c] = NoFetch]
  /\ reply' = [reply EXCEPT ![c] = [kind |-> kind, val |-> v]]

\* the leader of f returns or raises; a background task answers nobody
ReturnToLeader(f, kind, v) ==
  IF fetch[f].owner = Background
  THEN UNCHANGED <<pc, waitsOn, reply>>
  ELSE Return(fetch[f].owner, kind, v)

Suspend(c, st, f) ==
  /\ pc' = [pc EXCEPT ![c] = st]
  /\ waitsOn' = [waitsOn EXCEPT ![c] = f]
  /\ reply' = [reply EXCEPT ![c] = [kind |-> "none", val |-> 0]]

-----------------------------------------------------------------------------
(* cache_get_or_fetch up to its first await.  Each action is one path of it  *)

\* a fresh entry is returned
HitFresh(c, k) ==
  /\ store[k] # NoEntry /\ store[k].age = "fresh"
  /\ Return(c, "value", store[k].val)
  /\ UNCHANGED <<storeVars, inflight, fetch>>

\* a stale entry is returned while its refresh is already in flight
HitStale(c, k) ==
  /\ store[k] # NoEntry /\ store[k].age = "stale"
  /\ inflight[k] # NoFetch
  /\ Return(c, "value", store[k].val)
  /\ UNCHANGED <<storeVars, inflight, fetch>>

\* a stale entry is returned and a background_fetch task is created
HitStaleRefresh(c, k) ==
  /\ store[k] # NoEntry /\ store[k].age = "stale"
  /\ inflight[k] = NoFetch
  /\ Return(c, "value", store[k].val)
  /\ \E f \in Fetch : Unused(f, c) /\ Register(f, k, "created", Background, NoEntry)
  /\ UNCHANGED storeVars

Missing(k) == store[k] # NoEntry => store[k].age = "expired"

\* missing or expired, a fetch is in flight: wait for its future
Follow(c, k) ==
  /\ Missing(k)
  /\ inflight[k] # NoFetch
  /\ Suspend(c, "following", inflight[k])
  /\ UNCHANGED <<storeVars, inflight, fetch>>

\* Faulty variant of Lead: calls the fetcher without looking for one in flight.
LeadUnchecked(c, k) ==
  /\ Missing(k)
  /\ \E f \in Fetch : /\ Unused(f, c)
                      /\ Register(f, k, "running", c, store[k])
                      /\ Suspend(c, "leading", f)
  /\ UNCHANGED storeVars

\* missing or expired, nothing in flight: register a future and call the fetcher
Lead(c, k) ==
  /\ Missing(k)
  /\ inflight[k] = NoFetch
  /\ \E f \in Fetch : /\ Unused(f, c)
                      /\ Register(f, k, "running", c, store[k])
                      /\ Suspend(c, "leading", f)
  /\ UNCHANGED storeVars

GetOrFetch(c, k) ==
  /\ \/ HitFresh(c, k) \/ HitStale(c, k) \/ HitStaleRefresh(c, k)
     \/ Follow(c, k) \/ Lead(c, k)
  /\ want' = [want EXCEPT ![c] = k]
  /\ cut' = cut \ {c}
  /\ UNCHANGED envVars

\* a new request
Request(c, k) == pc[c] = "done" /\ GetOrFetch(c, k)

-----------------------------------------------------------------------------
(* A follower after `await asyncio.shield(fut)` *)

FutureOf(c) == fetch[waitsOn[c]].fut

WakeValue(c) ==
  /\ pc[c] = "following" /\ c \notin cut
  /\ FutureOf(c) = "result"
  /\ Return(c, "value", fetch[waitsOn[c]].val)
  /\ UNCHANGED <<storeVars, inflight, fetch, want, cut, envVars>>

WakeError(c) ==
  /\ pc[c] = "following" /\ c \notin cut
  /\ FutureOf(c) = "exception"
  /\ Return(c, "error", 0)
  /\ UNCHANGED <<storeVars, inflight, fetch, want, cut, envVars>>

\* CancelledError while the future is not cancelled: the follower itself is cut
WakeCut(c) ==
  /\ pc[c] = "following" /\ c \in cut
  /\ FutureOf(c) # "cancelled"
  /\ Return(c, "cancelled", 0)
  /\ UNCHANGED <<storeVars, inflight, fetch, want, cut, envVars>>

\* Faulty variant of WakeRetry: the disconnect of the leader ends its followers.
WakeRaises(c) ==
  /\ pc[c] = "following"
  /\ FutureOf(c) = "cancelled"
  /\ Return(c, "cancelled", 0)
  /\ UNCHANGED <<storeVars, inflight, fetch, want, cut, envVars>>

\* CancelledError and a cancelled future: the request starts over, also when
\* the follower was cut at the same time
WakeRetry(c) ==
  /\ pc[c] = "following"
  /\ FutureOf(c) = "cancelled"
  /\ GetOrFetch(c, want[c])

Wake(c) == WakeValue(c) \/ WakeError(c) \/ WakeCut(c) \/ WakeRetry(c)

-----------------------------------------------------------------------------
(* The task of a future *)

\* the event loop runs background_fetch for the first time
BackgroundStart(f) ==
  /\ fetch[f].st = "created"
  /\ fetch' = [fetch EXCEPT ![f] = [@ EXCEPT !.st = "running", !.base = upstream]]
  /\ UNCHANGED <<storeVars, inflight, callVars, envVars>>

\* the fetcher returns the data it read while it ran
FetchOk(f, v) ==
  /\ fetch[f].st = "running"
  /\ v \in fetch[f].base .. upstream
  /\ LET k == fetch[f].key IN
     CacheSet(k, v, IF fetch[f].owner = Background THEN StaleTtl[k] ELSE EffectiveStale(k))
  /\ Resolve(f, "result", v)
  /\ ReturnToLeader(f, "value", v)
  /\ UNCHANGED <<want, cut, envVars>>

\* the fetcher raises SkipCache(v)
FetchSkip(f, v) ==
  /\ fetch[f].st = "running"
  /\ v \in fetch[f].base .. upstream
  /\ Resolve(f, "result", v)
  /\ ReturnToLeader(f, "value", v)
  /\ UNCHANGED <<storeVars, want, cut, envVars>>

\* the fetcher of a background refresh raises
BackgroundFail(f) ==
  /\ fetch[f].st = "running" /\ fetch[f].owner = Background
  /\ Resolve(f, "exception", 0)
  /\ UNCHANGED <<storeVars, callVars, envVars>>

\* the fetcher of a leader raises: serve the expired entry it saw
LeaderFallback(f) ==
  /\ fetch[f].st = "running" /\ fetch[f].owner # Background
  /\ fetch[f].snap # NoEntry
  /\ Resolve(f, "result", fetch[f].snap.val)
  /\ ReturnToLeader(f, "value", fetch[f].snap.val)
  /\ UNCHANGED <<storeVars, want, cut, envVars>>

\* ... and with nothing to fall back on, drop the key and raise
LeaderFail(f) ==
  /\ fetch[f].st = "running" /\ fetch[f].owner # Background
  /\ fetch[f].snap = NoEntry
  /\ Resolve(f, "exception", 0)
  /\ ReturnToLeader(f, "error", 0)
  /\ Drop({fetch[f].key})
  /\ UNCHANGED <<want, cut, envVars>>

\* CancelledError in the task of f, a leader whose client disconnected or a
\* background task cancelled from outside: only `finally` runs
TaskCut(f) ==
  /\ fetch[f].st = "running"
  /\ disconnects < MaxDisconnects
  /\ Resolve(f, "cancelled", 0)
  /\ ReturnToLeader(f, "cancelled", 0)
  /\ cut' = cut \cup ({fetch[f].owner} \ {Background})
  /\ disconnects' = disconnects + 1
  /\ UNCHANGED <<storeVars, want, upstream>>

\* task.cancel() of a follower: delivered when it next runs
FollowerCut(c) ==
  /\ pc[c] = "following" /\ c \notin cut
  /\ disconnects < MaxDisconnects
  /\ cut' = cut \cup {c}
  /\ disconnects' = disconnects + 1
  /\ UNCHANGED <<storeVars, inflight, fetch, pc, want, waitsOn, reply, upstream>>

-----------------------------------------------------------------------------
(* Everything else that touches the dict *)

\* cache_set of a key that is not read through cache_get_or_fetch
DirectSet(k, v) ==
  /\ CacheSet(k, v, StaleTtl[k])
  /\ UNCHANGED <<inflight, fetch, callVars, envVars>>

\* cache_delete(k); cache_invalidate_namespace and cache_clear for larger sets
Remove(S) ==
  /\ Drop(S)
  /\ UNCHANGED <<inflight, fetch, callVars, envVars>>

\* one round of sweep_forever
Sweep ==
  /\ Drop(Expired)
  /\ UNCHANGED <<inflight, fetch, callVars, envVars>>

\* time passes fresh_exp or stale_exp of k
Age(k) ==
  /\ store[k] # NoEntry /\ store[k].age # "expired"
  /\ store' = [store EXCEPT ![k].age =
                 IF store[k].age = "fresh" /\ store[k].swr THEN "stale" ELSE "expired"]
  /\ UNCHANGED <<older, inflight, fetch, callVars, envVars>>

\* the upstream data changes
UpstreamChange ==
  /\ upstream < MaxVersion
  /\ upstream' = upstream + 1
  /\ UNCHANGED <<storeVars, inflight, fetch, callVars, disconnects>>

-----------------------------------------------------------------------------
Init ==
  /\ store = [k \in Key |-> NoEntry]
  /\ older = [k \in Key |-> {}]
  /\ inflight = [k \in Key |-> NoFetch]
  /\ fetch = [f \in Fetch |-> [st |-> "over", key |-> NoKey, owner |-> Background,
                snap |-> NoEntry, base |-> 0, fut |-> "cancelled", val |-> 0]]
  /\ pc = [c \in Caller |-> "done"]
  /\ want = [c \in Caller |-> NoKey]
  /\ waitsOn = [c \in Caller |-> NoFetch]
  /\ cut = {}
  /\ reply = [c \in Caller |-> [kind |-> "none", val |-> 0]]
  /\ upstream = 0
  /\ disconnects = 0

\* the fetcher of f ends one way or another (its upstream calls time out)
FetchEnds(f) ==
  \/ \E v \in Version : FetchOk(f, v) \/ FetchSkip(f, v)
  \/ BackgroundFail(f) \/ LeaderFallback(f) \/ LeaderFail(f)

CacheAction ==
  \/ \E c \in Caller, k \in FetchKey : Request(c, k)
  \/ \E c \in Caller : Wake(c) \/ FollowerCut(c)
  \/ \E f \in Fetch : BackgroundStart(f) \/ FetchEnds(f) \/ TaskCut(f)
  \/ \E k \in DirectKey, v \in 0 .. upstream : DirectSet(k, v)
  \/ \E S \in SUBSET Key : Remove(S)
  \/ Sweep

Next == CacheAction \/ (\E k \in Key : Age(k)) \/ UpstreamChange

Spec == Init /\ [][Next]_vars

(***************************************************************************)
(* The event loop runs every ready task (Wake, BackgroundStart) and every  *)
(* fetcher ends, because each upstream call has a timeout.  Nothing is     *)
(* assumed of clients, of time or of the outcome of a fetch.               *)
(***************************************************************************)
Fairness ==
  /\ \A c \in Caller : WF_vars(Wake(c))
  /\ \A f \in Fetch : WF_vars(BackgroundStart(f)) /\ WF_vars(FetchEnds(f))

FairSpec == Spec /\ Fairness

-----------------------------------------------------------------------------
(* Properties *)

\* Every variable stays in its domain; the order of the dict is one of its keys.
TypeOK ==
  /\ store \in [Key -> Entry \cup {NoEntry}]
  /\ older \in [Key -> SUBSET Key]
  /\ \A k \in Key : older[k] \subseteq Stored \ {k}
  /\ inflight \in [Key -> Fetch \cup {NoFetch}]
  /\ fetch \in [Fetch -> Future]
  /\ pc \in [Caller -> {"done", "leading", "following"}]
  /\ want \in [Caller -> Key \cup {NoKey}]
  /\ waitsOn \in [Caller -> Fetch \cup {NoFetch}]
  /\ cut \in SUBSET Caller
  /\ reply \in [Caller -> Reply]
  /\ upstream \in Version
  /\ disconnects \in 0 .. MaxDisconnects

\* "only one concurrent fetcher runs per key" (cache.py:147): whatever mix of
\* leaders, background refreshes, disconnects and removals of the key.
SingleFlight ==
  \A f, g \in Fetch :
    Active(f) /\ Active(g) /\ fetch[f].key = fetch[g].key => f = g

\* A registered future is pending and has a live task that will resolve and
\* unregister it, and every live task is registered: otherwise the followers of
\* a key, or the key itself, would hang for ever (cache.py:177-182, 241-246).
InflightLive ==
  /\ \A k \in Key : inflight[k] # NoFetch =>
       /\ Active(inflight[k])
       /\ fetch[inflight[k]].key = k
       /\ fetch[inflight[k]].fut = "pending"
  /\ \A f \in Fetch : Active(f) => inflight[fetch[f].key] = f

\* The entry a leader read before it awaited the fetcher is not out of date when
\* it falls back on it: the key still holds that entry or none (cache.py:191, 225).
FallbackCurrent ==
  \A f \in Fetch : Active(f) /\ fetch[f].owner # Background =>
    store[fetch[f].key] \in {fetch[f].snap, NoEntry}

\* The dict never outgrows MAX_CACHE_SIZE, whichever keys are written, expired or
\* evicted in whichever order (cache.py:97-110).
Bounded == Cardinality(Stored) <= MaxCacheSize

\* A request ends with CancelledError only if its own task was cancelled: the
\* disconnect of a leader is not the end of its followers (cache.py:205).
CancelledOnlyIfCut ==
  \A c \in Caller : reply[c].kind = "cancelled" => c \in cut

\* A key read through the cache never goes back to older upstream data while it
\* is stored: no late fetch overwrites the result of a newer one.
NeverRegresses ==
  [][\A k \in FetchKey : store[k] # NoEntry /\ store'[k] # NoEntry
       => store'[k].val >= store[k].val]_vars

\* A failed fetch costs no one a stored entry: the `_store.pop` of a failing
\* leader (cache.py:239) finds the key empty.
FailureKeepsEntries ==
  [][\A f \in Fetch : BackgroundFail(f) \/ LeaderFallback(f) \/ LeaderFail(f)
       => store' = store]_vars

\* Every request is answered, whatever leaders it outlives, as long as tasks are
\* not cancelled for ever.
RequestsEnd == \A c \in Caller : pc[c] # "done" ~> pc[c] = "done"

\* "don't pop immediately so cache_get_or_fetch can fallback if upstream fails"
\* (cache.py:66): a failed fetch raises in waiting requests only when there is
\* no entry to fall back on.
FailureFallsBack ==
  [][\A f \in Fetch :
       /\ fetch[f].fut = "pending" /\ fetch'[f].fut = "exception"
       /\ \E c \in Caller : Follows(c, f)
       => store[fetch[f].key] = NoEntry]_vars

-----------------------------------------------------------------------------
(* The cache implements CoalescedReads *)

\* the upstream calls a key has outstanding
CallsOf(k) == {[id |-> f, since |-> fetch[f].base] :
                 f \in {g \in Fetch : fetch[g].st = "running" /\ fetch[g].key = k}}

Reads == INSTANCE CoalescedReads WITH
  Key <- FetchKey, Call <- Fetch, None <- NoEntry,
  calls <- [k \in FetchKey |-> CallsOf(k)],
  value <- [k \in FetchKey |-> IF store[k] = NoEntry THEN NoEntry ELSE store[k].val]

\* Leaders, background refreshes, followers, retries, evictions and removals
\* together look to the upstream service and to the dict like one call per key
\* at a time, whose result is data that was current while it ran.
ImplementsReads == Reads!Spec

=============================================================================
