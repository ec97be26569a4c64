--------------------------- MODULE TtlCacheProofs ---------------------------
(***************************************************************************)
(* Proofs about TtlCache for any number of clients, keys and futures, any  *)
(* size of the dict and any stale_ttl; and that TtlCache implements        *)
(* CoalescedReads.                                                         *)
(*                                                                         *)
(* TypeOK and Tracked together are inductive, and what the properties of   *)
(* TtlCache say follows: Tracked ties every live task to the registration  *)
(* of its key, the entry its leader saw to the entry now stored, and the   *)
(* stored version to the version at which the running call started.        *)
(***************************************************************************)
EXTENDS TtlCache, FiniteSetTheorems, TLAPS

\* live tasks and registrations name each other
Registered ==
  /\ \A f \in Fetch : Active(f) =>
       /\ fetch[f].key \in FetchKey
       /\ fetch[f].fut = "pending"
       /\ inflight[fetch[f].key] = f
  /\ \A k \in Key : inflight[k] # NoFetch =>
       Active(inflight[k]) /\ fetch[inflight[k]].key = k

\* a suspended caller holds a future of a key it asked for
Waiting ==
  \A c \in Caller : pc[c] = "following" =>
    waitsOn[c] \in Fetch /\ want[c] \in FetchKey

\* a stored version is one the running call for its key cannot undercut
Ordered ==
  /\ \A k \in Key : store[k] # NoEntry => store[k].val <= upstream
  /\ \A f \in Fetch : Active(f) =>
       /\ fetch[f].base <= upstream
       /\ fetch[f].st = "running" /\ store[fetch[f].key] # NoEntry
            => store[fetch[f].key].val <= fetch[f].base

\* a leader took the entry it may fall back on as expired, so it cannot age
Snapshots ==
  /\ FallbackCurrent
  /\ \A f \in Fetch : Active(f) /\ fetch[f].snap # NoEntry => fetch[f].snap.age = "expired"

Tracked == Registered /\ Waiting /\ Snapshots /\ Ordered

IInv == TypeOK /\ Tracked

-----------------------------------------------------------------------------
(* What the helpers of the model do to the typed state *)

\* cache_set leaves a well-typed dict, with k in it.
LEMMA CacheSetType ==
  ASSUME TypeOK, NEW k \in Key, NEW v \in Version, NEW t \in Nat, CacheSet(k, v, t)
  PROVE  /\ store' \in [Key -> Entry \cup {NoEntry}]
         /\ older' \in [Key -> SUBSET Key]
         /\ \A j \in Key : older'[j] \subseteq Stored' \ {j}
<1> DEFINE e == [val |-> v, age |-> "fresh", swr |-> t > 0]
<1>1. e \in Entry
  BY DEF Entry
<1>2. \A j \in Key : store'[j] = IF j = k THEN e ELSE IF j \in Evicted THEN NoEntry ELSE store[j]
  BY DEF CacheSet
<1>3. store' \in [Key -> Entry \cup {NoEntry}]
  BY <1>1 DEF CacheSet, TypeOK
<1>4. older' \in [Key -> SUBSET Key]
  BY DEF CacheSet, TypeOK, Stored
<1>5. Stored' = (Stored \ Evicted) \cup {k}
  BY <1>1, <1>2, NullsAssumption DEF Stored
<1>6. \A j \in Key : older'[j] \subseteq Stored' \ {j}
  BY <1>5 DEF CacheSet, TypeOK
<1> QED
  BY <1>3, <1>4, <1>6

\* Removing keys leaves a well-typed dict.
LEMMA DropType ==
  ASSUME TypeOK, NEW S \in SUBSET Key, Drop(S)
  PROVE  /\ store' \in [Key -> Entry \cup {NoEntry}]
         /\ older' \in [Key -> SUBSET Key]
         /\ \A j \in Key : older'[j] \subseteq Stored' \ {j}
<1>1. Stored' = Stored \ S
  BY DEF Drop, Stored
<1> QED
  BY <1>1 DEF Drop, TypeOK

\* The versions a fetcher may return are versions.
LEMMA VersionRange ==
  ASSUME TypeOK, NEW f \in Fetch, NEW v \in fetch[f].base .. upstream
  PROVE  v \in Version
  BY BoundsAssumption DEF TypeOK, Version, Future

\* Registering and resolving a future keep futures and registrations typed.
LEMMA RegisterType ==
  ASSUME TypeOK, NEW f \in Fetch, NEW k \in Key, NEW st \in {"created", "running"},
         NEW owner \in Caller \cup {Background}, NEW snap \in Entry \cup {NoEntry},
         Register(f, k, st, owner, snap)
  PROVE  /\ (inflight \in [Key -> Fetch \cup {NoFetch}])'
         /\ (fetch \in [Fetch -> Future])'
  BY BoundsAssumption DEF TypeOK, Register, Version, Future

LEMMA ResolveType ==
  ASSUME TypeOK, NEW f \in Fetch, NEW fut \in {"result", "exception", "cancelled"},
         NEW v \in Version, fetch[f].key \in Key, Resolve(f, fut, v)
  PROVE  /\ (inflight \in [Key -> Fetch \cup {NoFetch}])'
         /\ (fetch \in [Fetch -> Future])'
  BY BoundsAssumption DEF TypeOK, Resolve, Version, Future

\* Answering and suspending a caller keep its state typed.
LEMMA ReturnType ==
  ASSUME TypeOK, NEW c \in Caller, NEW kind \in {"value", "error", "cancelled"},
         NEW v \in Version, Return(c, kind, v)
  PROVE  /\ (pc \in [Caller -> {"done", "leading", "following"}])'
         /\ (waitsOn \in [Caller -> Fetch \cup {NoFetch}])'
         /\ (reply \in [Caller -> Reply])'
  BY DEF TypeOK, Return, Reply

LEMMA ReturnToLeaderType ==
  ASSUME TypeOK, NEW f \in Fetch, NEW kind \in {"value", "error", "cancelled"},
         NEW v \in Version, ReturnToLeader(f, kind, v)
  PROVE  /\ (pc \in [Caller -> {"done", "leading", "following"}])'
         /\ (waitsOn \in [Caller -> Fetch \cup {NoFetch}])'
         /\ (reply \in [Caller -> Reply])'
<1>1. fetch[f].owner \in Caller \cup {Background}
  BY DEF TypeOK, Future
<1>2. CASE fetch[f].owner = Background
  BY <1>2 DEF ReturnToLeader, TypeOK
<1>3. CASE fetch[f].owner # Background
  BY <1>1, <1>3, ReturnType DEF ReturnToLeader
<1> QED
  BY <1>2, <1>3

LEMMA SuspendType ==
  ASSUME TypeOK, NEW c \in Caller, NEW st \in {"leading", "following"},
         NEW f \in Fetch, Suspend(c, st, f)
  PROVE  /\ (pc \in [Caller -> {"done", "leading", "following"}])'
         /\ (waitsOn \in [Caller -> Fetch \cup {NoFetch}])'
         /\ (reply \in [Caller -> Reply])'
  BY BoundsAssumption DEF TypeOK, Suspend, Reply, Version

-----------------------------------------------------------------------------
(* Type correctness *)

\* One run of cache_get_or_fetch up to its first await keeps the types.
LEMMA GetOrFetchType ==
  ASSUME TypeOK, NEW c \in Caller, NEW k \in FetchKey, GetOrFetch(c, k)
  PROVE  TypeOK'
<1>1. k \in Key /\ (want \in [Caller -> Key \cup {NoKey}])' /\ (cut \in SUBSET Caller)'
  BY DEF GetOrFetch, TypeOK, Key
<1>2. UNCHANGED envVars
  BY DEF GetOrFetch
<1>3. store[k] # NoEntry => store[k].val \in Version
  BY <1>1 DEF TypeOK, Entry
<1>4. CASE HitFresh(c, k) \/ HitStale(c, k)
  BY <1>1, <1>2, <1>3, <1>4, ReturnType
     DEF HitFresh, HitStale, TypeOK, storeVars, envVars, Stored
<1>5. CASE HitStaleRefresh(c, k)
  <2>1. PICK f \in Fetch : Register(f, k, "created", Background, NoEntry)
    BY <1>5 DEF HitStaleRefresh
  <2>2. /\ (inflight \in [Key -> Fetch \cup {NoFetch}])'
        /\ (fetch \in [Fetch -> Future])'
    BY <1>1, <2>1, RegisterType
  <2>3. /\ (pc \in [Caller -> {"done", "leading", "following"}])'
        /\ (waitsOn \in [Caller -> Fetch \cup {NoFetch}])'
        /\ (reply \in [Caller -> Reply])'
    BY <1>3, <1>5, ReturnType DEF HitStaleRefresh
  <2> QED
    BY <1>1, <1>2, <1>5, <2>2, <2>3 DEF HitStaleRefresh, TypeOK, storeVars, envVars, Stored
<1>6. CASE Follow(c, k)
  <2>1. inflight[k] \in Fetch
    BY <1>1, <1>6 DEF Follow, TypeOK
  <2> QED
    BY <1>1, <1>2, <1>6, <2>1, SuspendType DEF Follow, TypeOK, storeVars, envVars, Stored
<1>7. CASE Lead(c, k)
  <2>1. PICK f \in Fetch : Register(f, k, "running", c, store[k]) /\ Suspend(c, "leading", f)
    BY <1>7 DEF Lead
  <2>2. store[k] \in Entry \cup {NoEntry}
    BY <1>1 DEF TypeOK
  <2>3. /\ (inflight \in [Key -> Fetch \cup {NoFetch}])'
        /\ (fetch \in [Fetch -> Future])'
    BY <1>1, <2>1, <2>2, RegisterType
  <2>4. /\ (pc \in [Caller -> {"done", "leading", "following"}])'
        /\ (waitsOn \in [Caller -> Fetch \cup {NoFetch}])'
        /\ (reply \in [Caller -> Reply])'
    BY <2>1, SuspendType
  <2> QED
    BY <1>1, <1>2, <1>7, <2>3, <2>4 DEF Lead, TypeOK, storeVars, envVars, Stored
<1> QED
  BY <1>4, <1>5, <1>6, <1>7 DEF GetOrFetch

\* So does the end of a task, whatever it does to the dict.
LEMMA TaskEndType ==
  ASSUME TypeOK, NEW f \in Fetch, fetch[f].key \in Key, NEW v \in Version,
         NEW fut \in {"result", "exception", "cancelled"}, Resolve(f, fut, v),
         NEW kind \in {"value", "error", "cancelled"}, NEW w \in Version,
         ReturnToLeader(f, kind, w) \/ UNCHANGED callVars,
         /\ store' \in [Key -> Entry \cup {NoEntry}]
         /\ older' \in [Key -> SUBSET Key]
         /\ \A j \in Key : older'[j] \subseteq Stored' \ {j},
         UNCHANGED <<want, upstream>>, cut' \in SUBSET Caller,
         disconnects' \in 0 .. MaxDisconnects
  PROVE  TypeOK'
<1>1. /\ (inflight \in [Key -> Fetch \cup {NoFetch}])'
      /\ (fetch \in [Fetch -> Future])'
  BY ResolveType
<1>2. /\ (pc \in [Caller -> {"done", "leading", "following"}])'
      /\ (waitsOn \in [Caller -> Fetch \cup {NoFetch}])'
      /\ (reply \in [Caller -> Reply])'
  <2>1. CASE ReturnToLeader(f, kind, w)
    BY <2>1, ReturnToLeaderType
  <2>2. CASE UNCHANGED callVars
    BY <2>2 DEF callVars, TypeOK
  <2> QED
    BY <2>1, <2>2
<1> QED
  BY <1>1, <1>2 DEF TypeOK

\* Every step keeps the types.
LEMMA TypeStep ==
  ASSUME IInv, [Next]_vars
  PROVE  TypeOK'
<1> USE DEF IInv, Tracked
<1>a. \A f \in Fetch : fetch[f].st = "running" => fetch[f].key \in FetchKey /\ fetch[f].key \in Key
  BY DEF Registered, Active, Key
<1>b. 0 \in Version
  BY BoundsAssumption DEF Version
<1>1. ASSUME NEW c \in Caller, NEW k \in FetchKey, Request(c, k)
      PROVE  TypeOK'
  BY <1>1, GetOrFetchType DEF Request
<1>2. ASSUME NEW c \in Caller, Wake(c)
      PROVE  TypeOK'
  <2>1. CASE WakeRetry(c)
    BY <2>1, GetOrFetchType DEF WakeRetry, Waiting
  <2>2. ASSUME WakeValue(c) \/ WakeError(c) \/ WakeCut(c)
        PROVE  TypeOK'
    <3>1. waitsOn[c] \in Fetch
      BY <2>2 DEF WakeValue, WakeError, WakeCut, Waiting
    <3>2. fetch[waitsOn[c]].val \in Version
      BY <3>1 DEF TypeOK, Future
    <3>3. \E kind \in {"value", "error", "cancelled"}, v \in Version : Return(c, kind, v)
      BY <1>b, <2>2, <3>2 DEF WakeValue, WakeError, WakeCut
    <3>4. /\ (pc \in [Caller -> {"done", "leading", "following"}])'
          /\ (waitsOn \in [Caller -> Fetch \cup {NoFetch}])'
          /\ (reply \in [Caller -> Reply])'
      BY <3>3, ReturnType
    <3>5. UNCHANGED <<storeVars, inflight, fetch, want, cut, envVars>>
      BY <2>2 DEF WakeValue, WakeError, WakeCut
    <3> QED
      BY <3>4, <3>5 DEF TypeOK, storeVars, envVars, Stored
  <2> QED
    BY <1>2, <2>1, <2>2 DEF Wake
<1>3. ASSUME NEW c \in Caller, FollowerCut(c)
      PROVE  TypeOK'
  BY <1>3, BoundsAssumption DEF FollowerCut, TypeOK, storeVars, Stored
<1>4. ASSUME NEW f \in Fetch, BackgroundStart(f)
      PROVE  TypeOK'
  <2>1. [fetch[f] EXCEPT !.st = "running", !.base = upstream] \in Future
    <3>1. ASSUME NEW r \in Future, NEW b \in Version
          PROVE  [r EXCEPT !.st = "running", !.base = b] \in Future
      BY DEF Future
    <3> QED
      BY <3>1 DEF TypeOK
  <2>2. (fetch \in [Fetch -> Future])'
    BY <1>4, <2>1 DEF BackgroundStart, TypeOK
  <2> QED
    BY <1>4, <2>2 DEF BackgroundStart, TypeOK, storeVars, callVars, envVars, Stored
<1>5. ASSUME NEW f \in Fetch, NEW v \in Version, FetchOk(f, v)
      PROVE  TypeOK'
  <2> DEFINE k == fetch[f].key
             t == IF fetch[f].owner = Background THEN StaleTtl[k] ELSE EffectiveStale(k)
  <2>1. k \in Key /\ t \in Nat /\ CacheSet(k, v, t)
    BY <1>5, <1>a, KeysAssumption DEF FetchOk, EffectiveStale
  <2>2. /\ store' \in [Key -> Entry \cup {NoEntry}]
        /\ older' \in [Key -> SUBSET Key]
        /\ \A j \in Key : older'[j] \subseteq Stored' \ {j}
    <3> HIDE DEF t, k
    <3> QED
      BY <2>1, CacheSetType
  <2>3. /\ Resolve(f, "result", v) /\ ReturnToLeader(f, "value", v)
        /\ UNCHANGED <<want, cut, upstream, disconnects>>
    BY <1>5 DEF FetchOk, envVars
  <2>4. cut' \in SUBSET Caller /\ disconnects' \in 0 .. MaxDisconnects
    BY <2>3 DEF TypeOK
  <2> QED
    BY <2>1, <2>2, <2>3, <2>4, TaskEndType
<1>6. ASSUME NEW f \in Fetch, NEW v \in Version, FetchSkip(f, v)
      PROVE  TypeOK'
  <2>1. /\ Resolve(f, "result", v) /\ ReturnToLeader(f, "value", v)
        /\ UNCHANGED <<store, older, want, cut, upstream, disconnects>>
        /\ fetch[f].key \in Key
    BY <1>6, <1>a DEF FetchSkip, envVars, storeVars
  <2>2. /\ store' \in [Key -> Entry \cup {NoEntry}]
        /\ older' \in [Key -> SUBSET Key]
        /\ \A j \in Key : older'[j] \subseteq Stored' \ {j}
        /\ cut' \in SUBSET Caller /\ disconnects' \in 0 .. MaxDisconnects
    BY <2>1 DEF TypeOK, Stored
  <2> QED
    BY <2>1, <2>2, TaskEndType
<1>7. ASSUME NEW f \in Fetch, BackgroundFail(f)
      PROVE  TypeOK'
  <2>1. /\ Resolve(f, "exception", 0) /\ UNCHANGED callVars
        /\ UNCHANGED <<store, older, want, cut, upstream, disconnects>>
        /\ fetch[f].key \in Key
    BY <1>7, <1>a DEF BackgroundFail, envVars, storeVars, callVars
  <2>2. /\ store' \in [Key -> Entry \cup {NoEntry}]
        /\ older' \in [Key -> SUBSET Key]
        /\ \A j \in Key : older'[j] \subseteq Stored' \ {j}
        /\ cut' \in SUBSET Caller /\ disconnects' \in 0 .. MaxDisconnects
    BY <2>1 DEF TypeOK, Stored
  <2> QED
    BY <1>b, <2>1, <2>2, TaskEndType
<1>8. ASSUME NEW f \in Fetch, LeaderFallback(f)
      PROVE  TypeOK'
  <2>1. /\ Resolve(f, "result", fetch[f].snap.val) /\ ReturnToLeader(f, "value", fetch[f].snap.val)
        /\ UNCHANGED <<store, older, want, cut, upstream, disconnects>>
        /\ fetch[f].key \in Key
    BY <1>8, <1>a DEF LeaderFallback, envVars, storeVars
  <2>2. /\ store' \in [Key -> Entry \cup {NoEntry}]
        /\ older' \in [Key -> SUBSET Key]
        /\ \A j \in Key : older'[j] \subseteq Stored' \ {j}
        /\ cut' \in SUBSET Caller /\ disconnects' \in 0 .. MaxDisconnects
    BY <2>1 DEF TypeOK, Stored
  <2>3. fetch[f].snap.val \in Version
    BY <1>8 DEF LeaderFallback, TypeOK, Future, Entry
  <2> QED
    BY <2>1, <2>2, <2>3, TaskEndType
<1>9. ASSUME NEW f \in Fetch, LeaderFail(f)
      PROVE  TypeOK'
  <2>1. /\ Resolve(f, "exception", 0) /\ ReturnToLeader(f, "error", 0)
        /\ UNCHANGED <<want, cut, upstream, disconnects>>
        /\ fetch[f].key \in Key /\ Drop({fetch[f].key})
    BY <1>9, <1>a DEF LeaderFail, envVars
  <2>2. /\ store' \in [Key -> Entry \cup {NoEntry}]
        /\ older' \in [Key -> SUBSET Key]
        /\ \A j \in Key : older'[j] \subseteq Stored' \ {j}
    BY <2>1, DropType
  <2>3. cut' \in SUBSET Caller /\ disconnects' \in 0 .. MaxDisconnects
    BY <2>1 DEF TypeOK
  <2> QED
    BY <1>b, <2>1, <2>2, <2>3, TaskEndType
<1>10. ASSUME NEW f \in Fetch, TaskCut(f)
       PROVE  TypeOK'
  <2>1. /\ Resolve(f, "cancelled", 0) /\ ReturnToLeader(f, "cancelled", 0)
        /\ UNCHANGED <<store, older, want, upstream>>
        /\ fetch[f].key \in Key
    BY <1>10, <1>a DEF TaskCut, storeVars
  <2>2. /\ store' \in [Key -> Entry \cup {NoEntry}]
        /\ older' \in [Key -> SUBSET Key]
        /\ \A j \in Key : older'[j] \subseteq Stored' \ {j}
    BY <2>1 DEF TypeOK, Stored
  <2>3. disconnects' \in 0 .. MaxDisconnects
    BY <1>10, BoundsAssumption DEF TaskCut, TypeOK
  <2>4. fetch[f].owner \in Caller \cup {Background}
    BY DEF TypeOK, Future
  <2>5. cut' \in SUBSET Caller
    BY <1>10, <2>4 DEF TaskCut, TypeOK
  <2> QED
    BY <1>b, <2>1, <2>2, <2>3, <2>5, TaskEndType
<1>11. ASSUME NEW k \in DirectKey, NEW v \in 0 .. upstream, DirectSet(k, v)
       PROVE  TypeOK'
  <2>1. k \in Key /\ StaleTtl[k] \in Nat
    BY KeysAssumption DEF Key
  <2>2. v \in Version
    BY BoundsAssumption DEF TypeOK, Version
  <2>3. /\ store' \in [Key -> Entry \cup {NoEntry}]
        /\ older' \in [Key -> SUBSET Key]
        /\ \A j \in Key : older'[j] \subseteq Stored' \ {j}
    BY <1>11, <2>1, <2>2, CacheSetType DEF DirectSet
  <2> QED
    BY <1>11, <2>3 DEF DirectSet, TypeOK, callVars, envVars
<1>12. ASSUME NEW S \in SUBSET Key, Remove(S) \/ (S = Expired /\ Sweep)
       PROVE  TypeOK'
  <2>1. Drop(S) /\ UNCHANGED <<inflight, fetch, callVars, envVars>>
    BY <1>12 DEF Remove, Sweep
  <2>2. /\ store' \in [Key -> Entry \cup {NoEntry}]
        /\ older' \in [Key -> SUBSET Key]
        /\ \A j \in Key : older'[j] \subseteq Stored' \ {j}
    BY <2>1, DropType
  <2> QED
    BY <2>1, <2>2 DEF TypeOK, callVars, envVars
<1>13. CASE Sweep
  BY <1>12, <1>13 DEF Expired, Stored
<1>14. ASSUME NEW k \in Key, Age(k)
       PROVE  TypeOK'
  <2>1. store' \in [Key -> Entry \cup {NoEntry}]
    BY <1>14 DEF Age, TypeOK, Entry
  <2>2. Stored' = Stored
    BY <1>14, NullsAssumption DEF Age, TypeOK, Entry, Stored
  <2> QED
    BY <1>14, <2>1, <2>2 DEF Age, TypeOK, callVars, envVars
<1>15. CASE UpstreamChange
  BY <1>15, BoundsAssumption DEF UpstreamChange, TypeOK, Version, storeVars, callVars, Stored
<1>16. CASE UNCHANGED vars
  BY <1>16 DEF vars, TypeOK, storeVars, callVars, envVars, Stored
<1> QED
  BY <1>1, <1>2, <1>3, <1>4, <1>5, <1>6, <1>7, <1>8, <1>9, <1>10, <1>11, <1>12,
     <1>13, <1>14, <1>15, <1>16 DEF Next, CacheAction, FetchEnds

-----------------------------------------------------------------------------
(* Registrations *)

\* A future registered for a key with none in flight, in a slot nobody uses,
\* is tracked; so are the others.
LEMMA RegisterTracked ==
  ASSUME TypeOK, Registered, NEW f \in Fetch, NEW k \in FetchKey, ~Active(f),
         inflight[k] = NoFetch, NEW st \in {"created", "running"}, NEW owner, NEW snap,
         Register(f, k, st, owner, snap)
  PROVE  Registered'
<1>1. k \in Key /\ NoFetch \notin Fetch
  BY NullsAssumption DEF Key
<1>2. fetch'[f] = [st |-> st, key |-> k, owner |-> owner, snap |-> snap,
                   base |-> upstream, fut |-> "pending", val |-> 0]
  BY DEF Register, TypeOK
<1>3. \A g \in Fetch : g # f => fetch'[g] = fetch[g]
  BY DEF Register, TypeOK
<1>4. inflight'[k] = f /\ \A j \in Key : j # k => inflight'[j] = inflight[j]
  BY <1>1 DEF Register, TypeOK
<1>5. ASSUME NEW g \in Fetch, Active(g)'
      PROVE  /\ (fetch[g].key \in FetchKey)' /\ (fetch[g].fut = "pending")'
             /\ (inflight[fetch[g].key] = g)'
  <2>1. CASE g = f
    BY <1>2, <1>4, <2>1
  <2>2. CASE g # f
    <3>1. Active(g) /\ fetch'[g] = fetch[g]
      BY <1>3, <1>5, <2>2 DEF Active
    <3>2. fetch[g].key # k /\ fetch[g].key \in Key
      BY <1>1, <3>1 DEF Registered, Key
    <3> QED
      BY <1>4, <3>1, <3>2 DEF Registered
  <2> QED
    BY <2>1, <2>2
<1>6. ASSUME NEW j \in Key, inflight'[j] # NoFetch
      PROVE  (Active(inflight[j]) /\ fetch[inflight[j]].key = j)'
  <2>1. CASE j = k
    BY <1>2, <1>4, <2>1 DEF Active
  <2>2. CASE j # k
    <3>1. inflight'[j] = inflight[j] /\ inflight[j] \in Fetch /\ Active(inflight[j])
      BY <1>4, <1>6, <2>2 DEF Registered, TypeOK
    <3> QED
      BY <1>3, <1>6, <3>1 DEF Registered, Active
  <2> QED
    BY <2>1, <2>2
<1> QED
  BY <1>5, <1>6 DEF Registered

\* The end of a live task leaves neither a registration without a task nor a task
\* without its registration.
LEMMA ResolveTracked ==
  ASSUME TypeOK, Registered, NEW f \in Fetch, Active(f), NEW fut, NEW v, Resolve(f, fut, v)
  PROVE  Registered'
<1> DEFINE k == fetch[f].key
<1>1. k \in Key /\ k \in FetchKey /\ inflight[k] = f
  BY DEF Registered, Key
<1>2. inflight' = [inflight EXCEPT ![k] = NoFetch]
  BY <1>1 DEF Resolve
<1>3. fetch'[f].st = "over" /\ \A g \in Fetch : g # f => fetch'[g] = fetch[g]
  BY DEF Resolve, TypeOK
<1>4. ASSUME NEW g \in Fetch, Active(g)'
      PROVE  /\ (fetch[g].key \in FetchKey)' /\ (fetch[g].fut = "pending")'
             /\ (inflight[fetch[g].key] = g)'
  <2>1. g # f
    BY <1>3, <1>4 DEF Active
  <2>2. Active(g) /\ fetch'[g] = fetch[g]
    BY <1>3, <1>4, <2>1 DEF Active
  <2>3. fetch[g].key # k /\ fetch[g].key \in Key
    BY <1>1, <2>1, <2>2 DEF Registered, Key
  <2> QED
    BY <1>2, <2>2, <2>3 DEF Registered, TypeOK
<1>5. ASSUME NEW j \in Key, inflight'[j] # NoFetch
      PROVE  (Active(inflight[j]) /\ fetch[inflight[j]].key = j)'
  <2>1. j # k /\ inflight'[j] = inflight[j] /\ inflight[j] \in Fetch
    BY <1>2, <1>5 DEF TypeOK
  <2>2. Active(inflight[j]) /\ fetch[inflight[j]].key = j
    BY <1>5, <2>1 DEF Registered
  <2>3. inflight[j] # f
    BY <2>1, <2>2
  <2> QED
    BY <1>3, <2>1, <2>2, <2>3 DEF Active
<1> QED
  BY <1>4, <1>5 DEF Registered

\* What a run of cache_get_or_fetch does to futures: nothing, or it registers one
\* for a key that has none, knowing the entry of the key.
LEMMA GetOrFetchShape ==
  ASSUME NEW c \in Caller, NEW k \in FetchKey, GetOrFetch(c, k)
  PROVE  /\ UNCHANGED <<store, older, upstream>>
         /\ \/ UNCHANGED <<inflight, fetch>>
            \/ /\ inflight[k] = NoFetch
               /\ \E f \in Fetch :
                    /\ ~Active(f)
                    /\ \/ Register(f, k, "created", Background, NoEntry)
                       \/ Missing(k) /\ Register(f, k, "running", c, store[k])
  BY DEF GetOrFetch, HitFresh, HitStale, HitStaleRefresh, Follow, Lead, storeVars,
         envVars, Unused

\* What the end of a task does: it resolves the future of a live task; the dict
\* loses entries, or gets the fetched one for the key of the task.
LEMMA TaskEndShape ==
  ASSUME NEW f \in Fetch, NEW v \in Version,
         FetchOk(f, v) \/ FetchSkip(f, v) \/ BackgroundFail(f) \/ LeaderFallback(f)
           \/ LeaderFail(f) \/ TaskCut(f)
  PROVE  /\ fetch[f].st = "running"
         /\ \E fut \in {"result", "exception", "cancelled"} : \E w : Resolve(f, fut, w)
         /\ UNCHANGED <<want, upstream>>
         /\ \/ FetchOk(f, v) /\ \E t : CacheSet(fetch[f].key, v, t)
            \/ UNCHANGED store
            \/ Drop({fetch[f].key})
<1>1. CASE FetchOk(f, v)
  BY <1>1 DEF FetchOk, envVars
<1>2. CASE FetchSkip(f, v)
  BY <1>2 DEF FetchSkip, envVars, storeVars
<1>3. CASE BackgroundFail(f)
  BY <1>3 DEF BackgroundFail, envVars, storeVars, callVars
<1>4. CASE LeaderFallback(f)
  BY <1>4 DEF LeaderFallback, envVars, storeVars
<1>5. CASE LeaderFail(f)
  BY <1>5 DEF LeaderFail, envVars
<1>6. CASE TaskCut(f)
  BY <1>6 DEF TaskCut, storeVars
<1> QED
  BY <1>1, <1>2, <1>3, <1>4, <1>5, <1>6

\* What every other step does: futures and tasks stay, but for a task that starts;
\* the dict loses entries, ages one, or gets one for a key that is never fetched.
OtherStep ==
  \/ \E f \in Fetch : BackgroundStart(f)
  \/ \E c \in Caller : WakeValue(c) \/ WakeError(c) \/ WakeCut(c) \/ FollowerCut(c)
  \/ \E k \in DirectKey, v \in 0 .. upstream : DirectSet(k, v)
  \/ \E S \in SUBSET Key : Remove(S)
  \/ Sweep
  \/ \E k \in Key : Age(k)
  \/ UpstreamChange
  \/ UNCHANGED vars

\* The three kinds of step, which the proofs below go through.
LEMMA StepKinds ==
  ASSUME Waiting, [Next]_vars
  PROVE  \/ \E c \in Caller, k \in FetchKey : GetOrFetch(c, k)
         \/ \E f \in Fetch, v \in Version :
              FetchOk(f, v) \/ FetchSkip(f, v) \/ BackgroundFail(f) \/ LeaderFallback(f)
                \/ LeaderFail(f) \/ TaskCut(f)
         \/ OtherStep
<1>1. 0 \in Version
  BY BoundsAssumption DEF Version
<1>2. ASSUME NEW c \in Caller, Wake(c)
      PROVE  (\E d \in Caller, k \in FetchKey : GetOrFetch(d, k)) \/ OtherStep
  BY <1>2 DEF Wake, WakeRetry, Waiting, OtherStep
<1> QED
  BY <1>1, <1>2 DEF Next, CacheAction, FetchEnds, Request, OtherStep

-----------------------------------------------------------------------------
(* The four parts of Tracked *)

LEMMA RegisteredStep ==
  ASSUME IInv, [Next]_vars
  PROVE  Registered'
<1> USE DEF IInv, Tracked
<1>1. ASSUME UNCHANGED <<inflight, fetch>>
      PROVE  Registered'
  BY <1>1 DEF Registered, Active
<1>2. ASSUME NEW c \in Caller, NEW k \in FetchKey, GetOrFetch(c, k)
      PROVE  Registered'
  BY <1>1, <1>2, GetOrFetchShape, RegisterTracked
<1>3. ASSUME NEW f \in Fetch, fetch[f].st = "running",
             \E fut \in {"result", "exception", "cancelled"} : \E w : Resolve(f, fut, w)
      PROVE  Registered'
  BY <1>3, ResolveTracked DEF Active
<1>4. CASE \E f \in Fetch : BackgroundStart(f)
  <2>1. PICK f \in Fetch : BackgroundStart(f)
    BY <1>4
  <2>2. /\ inflight' = inflight
        /\ \A g \in Fetch : /\ fetch'[g].key = fetch[g].key
                            /\ fetch'[g].fut = fetch[g].fut
                            /\ Active(g)' <=> Active(g)
    BY <2>1 DEF BackgroundStart, TypeOK, Future, Active
  <2> QED
    BY <2>2 DEF Registered, TypeOK
<1>5. CASE OtherStep
  BY <1>1, <1>4, <1>5 DEF OtherStep, WakeValue, WakeError, WakeCut, FollowerCut, DirectSet,
     Remove, Sweep, Age, UpstreamChange, vars
<1> QED
  BY <1>2, <1>3, <1>5, StepKinds, TaskEndShape

LEMMA WaitingStep ==
  ASSUME IInv, [Next]_vars
  PROVE  Waiting'
<1> USE DEF IInv, Tracked
<1>1. ASSUME UNCHANGED <<pc, waitsOn, want>>
      PROVE  Waiting'
  BY <1>1 DEF Waiting
<1>2. ASSUME NEW c \in Caller, NEW kind, NEW v, Return(c, kind, v), UNCHANGED want
      PROVE  Waiting'
  BY <1>2 DEF Waiting, Return, TypeOK
<1>3. ASSUME NEW f \in Fetch, NEW kind, NEW v, ReturnToLeader(f, kind, v), UNCHANGED want
      PROVE  Waiting'
  <2>1. fetch[f].owner \in Caller \cup {Background}
    BY DEF TypeOK, Future
  <2> QED
    BY <1>1, <1>2, <1>3, <2>1 DEF ReturnToLeader
<1>4. ASSUME NEW c \in Caller, NEW k \in FetchKey, GetOrFetch(c, k)
      PROVE  Waiting'
  <2>1. want' = [want EXCEPT ![c] = k]
    BY <1>4 DEF GetOrFetch
  <2>2. \E kind, v : Return(c, kind, v) \/ \E f \in Fetch : \E st : Suspend(c, st, f)
    BY <1>4 DEF GetOrFetch, HitFresh, HitStale, HitStaleRefresh, Follow, Lead, TypeOK, Key
  <2> QED
    BY <2>1, <2>2 DEF Waiting, Return, Suspend, TypeOK
<1>5. ASSUME NEW f \in Fetch, NEW v \in Version,
             FetchOk(f, v) \/ FetchSkip(f, v) \/ BackgroundFail(f) \/ LeaderFallback(f)
               \/ LeaderFail(f) \/ TaskCut(f)
      PROVE  Waiting'
  BY <1>1, <1>3, <1>5 DEF FetchOk, FetchSkip, BackgroundFail, LeaderFallback, LeaderFail,
     TaskCut, callVars
<1>6. CASE OtherStep
  BY <1>1, <1>2, <1>6 DEF OtherStep, BackgroundStart, WakeValue, WakeError, WakeCut,
     FollowerCut, DirectSet, Remove, Sweep, Age, UpstreamChange, vars, callVars
<1> QED
  BY <1>4, <1>5, <1>6, StepKinds

\* What a task that goes on may find changed under it: the entry of its key is as
\* it was or gone, unless somebody aged it.
LEMMA EntryKeptOrGone ==
  ASSUME IInv, [Next]_vars, NEW f \in Fetch, Active(f), Active(f)'
  PROVE  LET k == fetch[f].key
         IN  store'[k] \in {store[k], NoEntry} \/ Age(k)
<1> USE DEF IInv, Tracked
<1> DEFINE k == fetch[f].key
<1>1. k \in FetchKey /\ k \in Key /\ inflight[k] = f
  BY DEF Registered, Key
<1>2. ASSUME NEW S, Drop(S)
      PROVE  store'[k] \in {store[k], NoEntry}
  BY <1>1, <1>2 DEF Drop
<1>3. ASSUME NEW j \in Key, j # k, NEW v, NEW t, CacheSet(j, v, t)
      PROVE  store'[k] \in {store[k], NoEntry}
  BY <1>1, <1>3 DEF CacheSet
<1>4. ASSUME NEW c \in Caller, NEW j \in FetchKey, GetOrFetch(c, j)
      PROVE  store'[k] \in {store[k], NoEntry}
  BY <1>4, GetOrFetchShape
<1>5. ASSUME NEW g \in Fetch, NEW v \in Version,
             FetchOk(g, v) \/ FetchSkip(g, v) \/ BackgroundFail(g) \/ LeaderFallback(g)
               \/ LeaderFail(g) \/ TaskCut(g)
      PROVE  store'[k] \in {store[k], NoEntry}
  <2>1. fetch[g].st = "running" /\ \E fut, w : Resolve(g, fut, w)
    BY <1>5, TaskEndShape
  <2>2. g # f
    BY <2>1 DEF Resolve, Active, TypeOK
  <2>3. fetch[g].key # k /\ fetch[g].key \in Key
    BY <1>1, <2>1, <2>2 DEF Registered, Active, Key
  <2> QED
    BY <1>2, <1>3, <1>5, <2>3, TaskEndShape
<1>6. CASE OtherStep
  <2>1. ASSUME NEW j \in DirectKey, NEW v, DirectSet(j, v)
        PROVE  store'[k] \in {store[k], NoEntry}
    BY <1>1, <1>3, <2>1, KeysAssumption DEF DirectSet, Key
  <2>2. ASSUME NEW j \in Key, Age(j)
        PROVE  store'[k] \in {store[k], NoEntry} \/ Age(k)
    BY <1>1, <2>2 DEF Age, TypeOK
  <2> QED
    BY <1>2, <1>6, <2>1, <2>2 DEF OtherStep, BackgroundStart, WakeValue, WakeError, WakeCut,
       FollowerCut, Remove, Sweep, UpstreamChange, vars, storeVars
<1> QED
  BY <1>4, <1>5, <1>6, StepKinds DEF Registered

\* A live task was live before, with the same key, owner and snapshot, unless the
\* step registered it.
LEMMA TaskKeptOrNew ==
  ASSUME IInv, [Next]_vars, NEW f \in Fetch, Active(f)'
  PROVE  \/ /\ Active(f)
            /\ fetch'[f].key = fetch[f].key
            /\ fetch'[f].owner = fetch[f].owner
            /\ fetch'[f].snap = fetch[f].snap
            /\ \/ fetch'[f] = fetch[f]
               \/ fetch'[f].base = upstream
         \/ \E c \in Caller, k \in FetchKey :
              /\ UNCHANGED <<store, older, upstream>>
              /\ \/ Register(f, k, "created", Background, NoEntry)
                 \/ Missing(k) /\ Register(f, k, "running", c, store[k])
<1> USE DEF IInv, Tracked
<1>1. CASE fetch'[f] = fetch[f]
  BY <1>1 DEF Active
<1>2. ASSUME NEW c \in Caller, NEW k \in FetchKey, GetOrFetch(c, k), fetch'[f] # fetch[f]
      PROVE  /\ UNCHANGED <<store, older, upstream>>
             /\ \/ Register(f, k, "created", Background, NoEntry)
                \/ Missing(k) /\ Register(f, k, "running", c, store[k])
  <2>1. UNCHANGED <<store, older, upstream>> /\ fetch' # fetch
    BY <1>2, GetOrFetchShape
  <2>2. PICK g \in Fetch : \/ Register(g, k, "created", Background, NoEntry)
                           \/ Missing(k) /\ Register(g, k, "running", c, store[k])
    BY <1>2, <2>1, GetOrFetchShape
  <2>3. g = f
    BY <1>2, <2>2 DEF Register, TypeOK
  <2> QED
    BY <2>1, <2>2, <2>3
<1>3. ASSUME NEW g \in Fetch, NEW v \in Version,
             FetchOk(g, v) \/ FetchSkip(g, v) \/ BackgroundFail(g) \/ LeaderFallback(g)
               \/ LeaderFail(g) \/ TaskCut(g)
      PROVE  fetch'[f] = fetch[f]
  <2>1. \E fut, w : Resolve(g, fut, w)
    BY <1>3, TaskEndShape
  <2> QED
    BY <2>1 DEF Resolve, Active, TypeOK
<1>4. ASSUME NEW g \in Fetch, BackgroundStart(g), fetch'[f] # fetch[f]
      PROVE  /\ Active(f)
             /\ fetch'[f].key = fetch[f].key
             /\ fetch'[f].owner = fetch[f].owner
             /\ fetch'[f].snap = fetch[f].snap
             /\ fetch'[f].base = upstream
  BY <1>4 DEF BackgroundStart, TypeOK, Future, Active
<1>5. CASE OtherStep
  BY <1>1, <1>4, <1>5 DEF OtherStep, WakeValue, WakeError, WakeCut, FollowerCut, DirectSet,
     Remove, Sweep, Age, UpstreamChange, vars
<1> QED
  BY <1>1, <1>2, <1>3, <1>5, StepKinds

LEMMA SnapshotsStep ==
  ASSUME IInv, [Next]_vars
  PROVE  Snapshots'
<1> USE DEF IInv, Tracked
<1> SUFFICES ASSUME NEW f \in Fetch, Active(f)'
             PROVE  /\ (fetch[f].owner # Background =>
                          store[fetch[f].key] \in {fetch[f].snap, NoEntry})'
                    /\ (fetch[f].snap # NoEntry => fetch[f].snap.age = "expired")'
  BY DEF Snapshots, FallbackCurrent
<1>1. ASSUME Active(f), fetch'[f].key = fetch[f].key, fetch'[f].owner = fetch[f].owner,
             fetch'[f].snap = fetch[f].snap
      PROVE  /\ (fetch[f].owner # Background =>
                   store[fetch[f].key] \in {fetch[f].snap, NoEntry})'
             /\ (fetch[f].snap # NoEntry => fetch[f].snap.age = "expired")'
  BY <1>1, EntryKeptOrGone DEF Age, Snapshots, FallbackCurrent
<1>2. ASSUME NEW c \in Caller, NEW k \in FetchKey, UNCHANGED store,
             \/ Register(f, k, "created", Background, NoEntry)
             \/ Missing(k) /\ Register(f, k, "running", c, store[k])
      PROVE  /\ (fetch[f].owner # Background =>
                   store[fetch[f].key] \in {fetch[f].snap, NoEntry})'
             /\ (fetch[f].snap # NoEntry => fetch[f].snap.age = "expired")'
  BY <1>2 DEF Register, TypeOK, Missing
<1> QED
  BY <1>1, <1>2, TaskKeptOrNew

\* The stored versions: the fetched one is new, the others are as they were.
LEMMA StoredVersions ==
  ASSUME IInv, [Next]_vars, NEW k \in Key, store'[k] # NoEntry
  PROVE  \/ store[k] # NoEntry /\ store'[k].val = store[k].val
         \/ k \in DirectKey /\ store'[k].val \in 0 .. upstream
         \/ /\ inflight[k] \in Fetch
            /\ fetch[inflight[k]].st = "running"
            /\ store'[k].val \in fetch[inflight[k]].base .. upstream
<1> USE DEF IInv, Tracked
<1>1. ASSUME UNCHANGED store \/ \E S : Drop(S)
      PROVE  store[k] # NoEntry /\ store'[k].val = store[k].val
  BY <1>1 DEF Drop
<1>2. ASSUME NEW c \in Caller, NEW j \in FetchKey, GetOrFetch(c, j)
      PROVE  UNCHANGED store
  BY <1>2, GetOrFetchShape
<1>3. ASSUME NEW f \in Fetch, NEW v \in Version, FetchOk(f, v), NEW t,
             CacheSet(fetch[f].key, v, t), ~(store[k] # NoEntry /\ store'[k].val = store[k].val)
      PROVE  /\ inflight[k] \in Fetch
             /\ fetch[inflight[k]].st = "running"
             /\ store'[k].val \in fetch[inflight[k]].base .. upstream
  <2>1. k = fetch[f].key /\ store'[k].val = v
    BY <1>3 DEF CacheSet
  <2>2. inflight[k] = f
    BY <1>3, <2>1 DEF FetchOk, Registered, Active
  <2> QED
    BY <1>3, <2>1, <2>2 DEF FetchOk
<1>4. ASSUME NEW j \in DirectKey, NEW v \in 0 .. upstream, DirectSet(j, v),
             ~(store[k] # NoEntry /\ store'[k].val = store[k].val)
      PROVE  k \in DirectKey /\ store'[k].val \in 0 .. upstream
  BY <1>4 DEF DirectSet, CacheSet
<1>5. ASSUME NEW j \in Key, Age(j)
      PROVE  store[k] # NoEntry /\ store'[k].val = store[k].val
  BY <1>5 DEF Age, TypeOK, Entry
<1>6. CASE OtherStep
  BY <1>1, <1>4, <1>5, <1>6 DEF OtherStep, BackgroundStart, WakeValue, WakeError, WakeCut,
     FollowerCut, Remove, Sweep, UpstreamChange, vars, storeVars
<1>7. ASSUME NEW f \in Fetch, NEW v \in Version,
             FetchOk(f, v) \/ FetchSkip(f, v) \/ BackgroundFail(f) \/ LeaderFallback(f)
               \/ LeaderFail(f) \/ TaskCut(f),
             ~(store[k] # NoEntry /\ store'[k].val = store[k].val)
      PROVE  /\ inflight[k] \in Fetch
             /\ fetch[inflight[k]].st = "running"
             /\ store'[k].val \in fetch[inflight[k]].base .. upstream
  BY <1>1, <1>3, <1>7, TaskEndShape
<1> QED
  BY <1>1, <1>2, <1>6, <1>7, StepKinds

LEMMA OrderedStep ==
  ASSUME IInv, [Next]_vars
  PROVE  Ordered'
<1> USE DEF IInv, Tracked
<1>1. upstream \in Nat /\ upstream' \in Nat /\ upstream <= upstream'
  <2>1. upstream \in Nat
    BY BoundsAssumption DEF TypeOK, Version
  <2>2. upstream' = upstream \/ UpstreamChange
    BY StepKinds, TaskEndShape, GetOrFetchShape DEF OtherStep, BackgroundStart, WakeValue,
       WakeError, WakeCut, FollowerCut, DirectSet, Remove, Sweep, Age, vars, envVars
  <2> QED
    BY <2>1, <2>2 DEF UpstreamChange
<1>2. \A k \in Key : store[k] # NoEntry => store[k].val \in Nat
  BY BoundsAssumption DEF TypeOK, Entry, Version
<1>3. \A f \in Fetch : fetch[f].base \in Nat
  BY BoundsAssumption DEF TypeOK, Future, Version
<1>4. ASSUME NEW k \in Key, store'[k] # NoEntry
      PROVE  store'[k].val \in Nat /\ store'[k].val <= upstream
  BY <1>1, <1>2, <1>3, <1>4, StoredVersions DEF Ordered
<1>5. ASSUME NEW f \in Fetch, Active(f)'
      PROVE  /\ fetch'[f].base <= upstream'
             /\ fetch'[f].st = "running" /\ store'[fetch'[f].key] # NoEntry
                  => store'[fetch'[f].key].val <= fetch'[f].base
  <2>1. CASE Active(f) /\ fetch'[f] = fetch[f]
    <3> DEFINE k == fetch[f].key
    <3>1. k \in Key /\ fetch[f].base <= upstream
      BY <2>1 DEF Registered, Ordered, Key
    <3>2. ASSUME fetch[f].st = "running", store'[k] # NoEntry
          PROVE  store'[k].val <= fetch[f].base
      <4>1. store[k] # NoEntry /\ store'[k].val = store[k].val
        <5>1. store'[k] = store[k] \/ Age(k)
          BY <1>5, <2>1, <3>2, EntryKeptOrGone
        <5>2. ASSUME Age(k)
              PROVE  store[k] # NoEntry /\ store'[k].val = store[k].val
          BY <3>1, <5>2 DEF Age, TypeOK, Entry
        <5> QED
          BY <3>2, <5>1, <5>2
      <4> QED
        BY <2>1, <3>1, <3>2, <4>1 DEF Ordered
    <3> QED
      BY <1>1, <1>3, <2>1, <3>1, <3>2
  <2>2. CASE Active(f) /\ fetch'[f].key = fetch[f].key /\ fetch'[f].base = upstream
    <3>1. fetch[f].key \in Key
      BY <2>2 DEF Registered, Key
    <3> QED
      BY <1>1, <1>4, <2>2, <3>1
  <2>3. ASSUME NEW c \in Caller, NEW k \in FetchKey, UNCHANGED <<store, upstream>>,
               \/ Register(f, k, "created", Background, NoEntry)
               \/ Missing(k) /\ Register(f, k, "running", c, store[k])
        PROVE  /\ fetch'[f].base = upstream /\ fetch'[f].key = k /\ k \in Key
    BY <2>3 DEF Register, TypeOK, Key
  <2> QED
    BY <1>1, <1>4, <1>5, <2>1, <2>2, <2>3, TaskKeptOrNew
<1> QED
  BY <1>1, <1>4, <1>5 DEF Ordered

-----------------------------------------------------------------------------
(* Theorems *)

\* TypeOK and Tracked are an inductive invariant of the cache.
THEOREM Inductive == Spec => []IInv
<1>1. Init => IInv
  <2> SUFFICES ASSUME Init PROVE IInv
    OBVIOUS
  <2>1. 0 \in Version /\ 0 \in 0 .. MaxDisconnects
    BY BoundsAssumption DEF Version
  <2>2. fetch \in [Fetch -> Future]
    BY <2>1 DEF Init, Future
  <2>3. TypeOK
    BY <2>1, <2>2 DEF Init, TypeOK, Reply, Stored
  <2>4. \A f \in Fetch : ~Active(f)
    BY DEF Init, Active
  <2> QED
    BY <2>3, <2>4 DEF Init, IInv, Tracked, Registered, Waiting, Snapshots, FallbackCurrent,
       Ordered
<1>2. IInv /\ [Next]_vars => IInv'
  BY TypeStep, RegisteredStep, WaitingStep, SnapshotsStep, OrderedStep DEF IInv, Tracked
<1> QED
  BY <1>1, <1>2, PTL DEF Spec

\* The cache is well typed.
THEOREM TypeCorrect == Spec => []TypeOK
<1>1. IInv => TypeOK
  BY DEF IInv
<1> QED
  BY <1>1, Inductive, PTL

\* "only one concurrent fetcher runs per key" (cache.py:147).
THEOREM OneFetchPerKey == Spec => []SingleFlight
<1>1. IInv => SingleFlight
  BY DEF IInv, Tracked, Registered, SingleFlight
<1> QED
  BY <1>1, Inductive, PTL

\* No future is registered without a live task that will resolve and unregister
\* it: nobody waits for ever for a fetch that is over (cache.py:177-182, 241-246).
THEOREM RegisteredIsLive == Spec => []InflightLive
<1>1. IInv => InflightLive
  BY DEF IInv, Tracked, Registered, InflightLive, TypeOK
<1> QED
  BY <1>1, Inductive, PTL

\* The entry a leader falls back on is the one still stored (cache.py:191, 225).
THEOREM FallbackIsCurrent == Spec => []FallbackCurrent
<1>1. IInv => FallbackCurrent
  BY DEF IInv, Tracked, Snapshots
<1> QED
  BY <1>1, Inductive, PTL

\* No stored value is overwritten with older data.
THEOREM StoredMovesForward == Spec => NeverRegresses
<1>1. ASSUME IInv, [Next]_vars, NEW k \in FetchKey, store[k] # NoEntry, store'[k] # NoEntry
      PROVE  store'[k].val >= store[k].val
  <2>1. k \in Key /\ k \notin DirectKey
    BY KeysAssumption DEF Key
  <2>2. store[k].val \in Nat
    BY <1>1, <2>1, BoundsAssumption DEF IInv, TypeOK, Entry, Version
  <2>3. CASE store'[k].val = store[k].val
    BY <2>2, <2>3
  <2>4. ASSUME inflight[k] \in Fetch, fetch[inflight[k]].st = "running",
               store'[k].val \in fetch[inflight[k]].base .. upstream
        PROVE  store'[k].val >= store[k].val
    <3>1. fetch[inflight[k]].key = k /\ Active(inflight[k])
      BY <2>1, <2>4, NullsAssumption, <1>1 DEF IInv, Tracked, Registered, Active
    <3>2. store[k].val <= fetch[inflight[k]].base
      BY <1>1, <2>4, <3>1 DEF IInv, Tracked, Ordered
    <3>3. fetch[inflight[k]].base \in Nat /\ upstream \in Nat
      BY <1>1, <2>4, BoundsAssumption DEF IInv, TypeOK, Future, Version
    <3> QED
      BY <2>2, <2>4, <3>2, <3>3
  <2> QED
    BY <1>1, <2>1, <2>3, <2>4, StoredVersions
<1>2. IInv /\ [Next]_vars =>
        [\A k \in FetchKey : store[k] # NoEntry /\ store'[k] # NoEntry
           => store'[k].val >= store[k].val]_vars
  BY <1>1
<1> QED
  BY <1>2, Inductive, PTL DEF Spec, NeverRegresses

\* A failed fetch drops no entry: the `_store.pop` of a failing leader, which runs
\* after the await, finds nothing to pop (cache.py:239).
THEOREM FailureDropsNothing == Spec => FailureKeepsEntries
<1>1. ASSUME IInv, NEW f \in Fetch, LeaderFail(f)
      PROVE  store' = store
  <2>1. Active(f) /\ fetch[f].key \in Key /\ Drop({fetch[f].key})
    BY <1>1 DEF LeaderFail, Active, IInv, Tracked, Registered, Key
  <2>2. store[fetch[f].key] = NoEntry
    BY <1>1, <2>1 DEF LeaderFail, IInv, Tracked, Snapshots, FallbackCurrent
  <2> QED
    BY <1>1, <2>1, <2>2 DEF Drop, IInv, TypeOK
<1>2. IInv /\ [Next]_vars =>
        [\A f \in Fetch : BackgroundFail(f) \/ LeaderFallback(f) \/ LeaderFail(f)
           => store' = store]_vars
  BY <1>1 DEF BackgroundFail, LeaderFallback, storeVars
<1> QED
  BY <1>2, Inductive, PTL DEF Spec, FailureKeepsEntries

\* A request is cancelled only with its own task: followers outlive a leader that
\* disconnects (cache.py:205).
THEOREM FollowersOutliveLeaders == Spec => []CancelledOnlyIfCut
<1>1. Init => CancelledOnlyIfCut
  BY DEF Init, CancelledOnlyIfCut
<1>2. IInv /\ CancelledOnlyIfCut /\ [Next]_vars => CancelledOnlyIfCut'
  <2> SUFFICES ASSUME IInv, CancelledOnlyIfCut, [Next]_vars
               PROVE  CancelledOnlyIfCut'
    OBVIOUS
  <2> USE DEF IInv, Tracked
  <2>1. ASSUME NEW c \in Caller, NEW kind, NEW v, kind # "cancelled" \/ c \in cut',
               Return(c, kind, v), cut \subseteq cut'
        PROVE  CancelledOnlyIfCut'
    BY <2>1 DEF Return, CancelledOnlyIfCut, TypeOK
  <2>2. ASSUME NEW f \in Fetch, NEW kind, NEW v, ReturnToLeader(f, kind, v), cut \subseteq cut',
               kind # "cancelled" \/ fetch[f].owner = Background \/ fetch[f].owner \in cut'
        PROVE  CancelledOnlyIfCut'
    <3>1. fetch[f].owner \in Caller \cup {Background}
      BY DEF TypeOK, Future
    <3> QED
      BY <2>1, <2>2, <3>1 DEF ReturnToLeader, CancelledOnlyIfCut
  <2>3. ASSUME UNCHANGED reply, cut \subseteq cut'
        PROVE  CancelledOnlyIfCut'
    BY <2>3 DEF CancelledOnlyIfCut
  <2>4. ASSUME NEW c \in Caller, NEW k \in FetchKey, GetOrFetch(c, k)
        PROVE  CancelledOnlyIfCut'
    <3>1. cut' = cut \ {c}
      BY <2>4 DEF GetOrFetch
    <3>2. \E kind \in {"value", "none"} : \E v : reply' = [reply EXCEPT ![c] = [kind |-> kind, val |-> v]]
      BY <2>4 DEF GetOrFetch, HitFresh, HitStale, HitStaleRefresh, Follow, Lead, Return, Suspend
    <3> QED
      BY <3>1, <3>2 DEF CancelledOnlyIfCut, TypeOK
  <2>5. ASSUME NEW f \in Fetch, NEW v \in Version,
               FetchOk(f, v) \/ FetchSkip(f, v) \/ BackgroundFail(f) \/ LeaderFallback(f)
                 \/ LeaderFail(f)
        PROVE  CancelledOnlyIfCut'
    BY <2>2, <2>3, <2>5 DEF FetchOk, FetchSkip, BackgroundFail, LeaderFallback, LeaderFail,
       callVars
  <2>6. ASSUME NEW f \in Fetch, TaskCut(f)
        PROVE  CancelledOnlyIfCut'
    BY <2>2, <2>6 DEF TaskCut
  <2>7. ASSUME NEW c \in Caller, WakeValue(c) \/ WakeError(c) \/ WakeCut(c)
        PROVE  CancelledOnlyIfCut'
    <3>1. \E kind, v : Return(c, kind, v) /\ (kind # "cancelled" \/ c \in cut')
      BY <2>7 DEF WakeValue, WakeError, WakeCut
    <3>2. cut' = cut
      BY <2>7 DEF WakeValue, WakeError, WakeCut
    <3> QED
      BY <2>1, <3>1, <3>2
  <2>8. CASE OtherStep
    BY <2>3, <2>7, <2>8 DEF OtherStep, BackgroundStart, FollowerCut, DirectSet, Remove,
       Sweep, Age, UpstreamChange, vars, callVars
  <2> QED
    BY <2>4, <2>5, <2>6, <2>8, StepKinds
<1> QED
  BY <1>1, <1>2, Inductive, PTL DEF Spec

-----------------------------------------------------------------------------
(* The dict at its limit *)

\* insertion order is an order: what came before a key that came before k did too
Sequential ==
  \A i, j, k \in Stored : i \in older[j] /\ j \in older[k] => i \in older[k]

DictInv == IsFiniteSet(Stored) /\ Bounded /\ Sequential

\* Of the keys of a dict that is not empty, one came first.
LEMMA FirstInserted ==
  ASSUME TypeOK, Sequential, NEW S \in SUBSET Stored, IsFiniteSet(S), S # {}
  PROVE  \E k \in S : older[k] \cap S = {}
<1> DEFINE before == [k \in S |-> older[k] \cap S]
           sets == {before[k] : k \in S}
<1>1. sets \subseteq FiniteSubsetsOf(S) /\ sets # {}
  <2>1. ASSUME NEW k \in S PROVE before[k] \in SUBSET S
    OBVIOUS
  <2>2. ASSUME NEW k \in S PROVE IsFiniteSet(before[k])
    BY <2>1, FS_Subset
  <2> QED
    BY <2>1, <2>2 DEF FiniteSubsetsOf
<1>2. PICK X \in sets : \A Y \in sets : <<Y, X>> \notin StrictSubsetOrdering(S)
  BY <1>1, FS_StrictSubsetOrderingWellFounded, WFMin
<1>3. PICK k \in S : X = before[k]
  OBVIOUS
<1>4. ASSUME NEW j \in older[k] \cap S PROVE FALSE
  <2>1. before[j] \subseteq before[k]
    BY <1>4 DEF Sequential
  <2>2. j \in before[k] /\ j \notin before[j]
    BY <1>4 DEF TypeOK, Stored
  <2>3. <<before[j], before[k]>> \in StrictSubsetOrdering(S)
    BY <2>1, <2>2 DEF StrictSubsetOrdering
  <2> QED
    BY <1>2, <1>3, <1>4, <2>3
<1> QED
  BY <1>4

\* At the limit cache_set makes room: what is left is one less than the limit.
LEMMA EvictedMakesRoom ==
  ASSUME TypeOK, DictInv
  PROVE  /\ IsFiniteSet(Stored \ Evicted)
         /\ Cardinality(Stored \ Evicted) < MaxCacheSize
<1> DEFINE swept == IF Cardinality(Stored) >= MaxCacheSize THEN Expired ELSE {}
           rest == Stored \ swept
           left == Stored \ Evicted
           first == IF Cardinality(rest) >= MaxCacheSize THEN Oldest(rest) ELSE {}
<1>1. Evicted = swept \cup first
  BY DEF Evicted
<1>2. IsFiniteSet(Stored) /\ Cardinality(Stored) <= MaxCacheSize
  BY DEF DictInv, Bounded
<1>3. rest \in SUBSET Stored /\ left \in SUBSET rest
  BY <1>1
<1>4. IsFiniteSet(rest) /\ IsFiniteSet(left)
  BY <1>2, <1>3, FS_Subset
<1> HIDE DEF rest, left
<1>5. /\ Cardinality(Stored) \in Nat /\ Cardinality(rest) \in Nat
      /\ Cardinality(left) \in Nat /\ MaxCacheSize \in Nat \ {0}
  BY <1>2, <1>4, FS_CardinalityType, BoundsAssumption
<1>6. Cardinality(rest) <= MaxCacheSize
  <2>1. Cardinality(rest) <= Cardinality(Stored)
    BY <1>2, <1>3, FS_Subset
  <2> QED
    BY <1>2, <1>5, <2>1
<1>7. Cardinality(left) <= Cardinality(rest)
  BY <1>3, <1>4, FS_Subset
<1>8. ASSUME Cardinality(rest) < MaxCacheSize
      PROVE  Cardinality(left) < MaxCacheSize
  BY <1>5, <1>7, <1>8
<1>9. ASSUME Cardinality(rest) >= MaxCacheSize
      PROVE  Cardinality(left) < MaxCacheSize
  <2>1. rest # {}
    BY <1>5, <1>9, FS_EmptySet
  <2>2. PICK k \in rest : older[k] \cap rest = {}
    BY <1>3, <1>4, <2>1, FirstInserted DEF DictInv
  <2>3. k \in Oldest(rest)
    BY <2>2, FS_EmptySet, BoundsAssumption DEF Oldest
  <2>4. k \notin left
    BY <1>1, <1>9, <2>3 DEF left
  <2>5. Cardinality(left) # Cardinality(rest)
    BY <1>3, <1>4, <2>2, <2>4, FS_Subset
  <2> QED
    BY <1>5, <1>6, <1>7, <2>5
<1> QED
  BY <1>4, <1>5, <1>8, <1>9 DEF left

LEMMA CacheSetDict ==
  ASSUME TypeOK, DictInv, NEW k \in Key, NEW v, NEW t, CacheSet(k, v, t)
  PROVE  DictInv'
<1> DEFINE e == [val |-> v, age |-> "fresh", swr |-> t > 0]
           left == Stored \ Evicted
<1>1. \A j \in Key : store'[j] = IF j = k THEN e ELSE IF j \in Evicted THEN NoEntry ELSE store[j]
  BY DEF CacheSet
<1>2. Stored' \in SUBSET (left \cup {k})
  BY <1>1 DEF Stored
<1>3. IsFiniteSet(left) /\ Cardinality(left) < MaxCacheSize
  BY EvictedMakesRoom
<1> HIDE DEF left
<1>4. /\ IsFiniteSet(left \cup {k})
      /\ Cardinality(left \cup {k}) \in {Cardinality(left), Cardinality(left) + 1}
  BY <1>3, FS_AddElement
<1>5. IsFiniteSet(Stored') /\ Cardinality(Stored') <= Cardinality(left \cup {k})
  BY <1>2, <1>4, FS_Subset
<1>6. Cardinality(left) \in Nat /\ Cardinality(Stored') \in Nat /\ MaxCacheSize \in Nat
  BY <1>3, <1>5, FS_CardinalityType, BoundsAssumption
<1>7. Bounded'
  BY <1>3, <1>4, <1>5, <1>6 DEF Bounded
<1>8. Sequential'
  <2> SUFFICES ASSUME NEW i \in Stored', NEW j \in Stored', NEW m \in Stored',
                      i \in older'[j], j \in older'[m]
               PROVE  i \in older'[m]
    BY DEF Sequential
  <2>1. i \in Key /\ j \in Key /\ m \in Key
    BY DEF Stored
  <2>2. \A n \in Key : older'[n] = IF n = k THEN Stored \ (Evicted \cup {k})
                                   ELSE IF n \in Evicted THEN {} ELSE older[n] \ (Evicted \cup {k})
    BY DEF CacheSet
  <2>3. ASSUME NEW n \in Key PROVE older'[n] \subseteq Stored \ (Evicted \cup {k})
    <3>1. older[n] \subseteq Stored
      BY DEF TypeOK
    <3> QED
      BY <2>2, <3>1
  <2>4. j # k /\ j \in Stored /\ i \in Stored /\ i \notin Evicted \cup {k}
    BY <2>1, <2>3
  <2>5. CASE m = k
    BY <2>1, <2>2, <2>4, <2>5
  <2>6. CASE m # k
    <3>1. m \notin Evicted /\ j \in older[m] /\ i \in older[j]
      BY <2>1, <2>2, <2>4, <2>6
    <3>2. m \in Stored
      BY <1>1, <2>1, <2>6, <3>1 DEF Stored
    <3>3. i \in older[m]
      BY <2>4, <3>1, <3>2 DEF DictInv, Sequential
    <3> QED
      BY <2>1, <2>2, <2>4, <2>6, <3>1, <3>3
  <2> QED
    BY <2>5, <2>6
<1> QED
  BY <1>5, <1>7, <1>8 DEF DictInv

\* A dict that only loses keys stays within its limit.
LEMMA ShrunkDict ==
  ASSUME DictInv, Stored' \in SUBSET Stored
  PROVE  IsFiniteSet(Stored') /\ Bounded'
<1>2. IsFiniteSet(Stored) /\ Cardinality(Stored) <= MaxCacheSize
  BY DEF DictInv, Bounded
<1>3. IsFiniteSet(Stored') /\ Cardinality(Stored') <= Cardinality(Stored)
  BY <1>2, FS_Subset
<1>4. Cardinality(Stored) \in Nat /\ Cardinality(Stored') \in Nat /\ MaxCacheSize \in Nat
  BY <1>2, <1>3, FS_CardinalityType, BoundsAssumption
<1> QED
  BY <1>2, <1>3, <1>4 DEF Bounded

LEMMA DropDict ==
  ASSUME TypeOK, DictInv, NEW S \in SUBSET Key, Drop(S)
  PROVE  DictInv'
<1>1. Stored' = Stored \ S
  BY DEF Drop, Stored
<1>2. Sequential'
  BY <1>1 DEF DictInv, Sequential, Drop, Stored
<1> QED
  BY <1>1, <1>2, ShrunkDict DEF DictInv

\* A step writes one key, removes some, ages one or leaves the dict alone.
LEMMA DictSteps ==
  ASSUME IInv, [Next]_vars
  PROVE  \/ UNCHANGED storeVars
         \/ \E k \in Key : \E v, t : CacheSet(k, v, t)
         \/ \E S \in SUBSET Key : Drop(S)
         \/ \E k \in Key : Age(k)
<1> USE DEF IInv, Tracked
<1>1. ASSUME NEW c \in Caller, NEW k \in FetchKey, GetOrFetch(c, k)
      PROVE  UNCHANGED storeVars
  BY <1>1, GetOrFetchShape DEF storeVars
<1>2. ASSUME NEW f \in Fetch, fetch[f].st = "running" PROVE fetch[f].key \in Key
  BY <1>2 DEF Registered, Active, Key
<1>3. ASSUME NEW f \in Fetch, NEW v \in Version, FetchOk(f, v)
      PROVE  \E k \in Key : \E w, t : CacheSet(k, w, t)
  BY <1>2, <1>3 DEF FetchOk
<1>4. ASSUME NEW f \in Fetch, LeaderFail(f) PROVE \E S \in SUBSET Key : Drop(S)
  BY <1>2, <1>4 DEF LeaderFail
<1>5. ASSUME NEW f \in Fetch, NEW v \in Version,
             FetchSkip(f, v) \/ BackgroundFail(f) \/ LeaderFallback(f) \/ TaskCut(f)
      PROVE  UNCHANGED storeVars
  BY <1>5 DEF FetchSkip, BackgroundFail, LeaderFallback, TaskCut
<1>6. ASSUME NEW k \in DirectKey, NEW v, DirectSet(k, v)
      PROVE  \E j \in Key : \E w, t : CacheSet(j, w, t)
  BY <1>6 DEF DirectSet, Key
<1>7. CASE OtherStep
  <2>1. Expired \in SUBSET Key
    BY DEF Expired, Stored
  <2> QED
    BY <1>6, <1>7, <2>1 DEF OtherStep, BackgroundStart, WakeValue, WakeError, WakeCut,
       FollowerCut, Remove, Sweep, UpstreamChange, vars
<1> QED
  BY <1>1, <1>3, <1>4, <1>5, <1>7, StepKinds

\* The dict never outgrows MAX_CACHE_SIZE: at the limit the expired keys go or, with none
\* expired, at least the one that was inserted first (cache.py:97-110).
THEOREM DictIsBounded == Spec => []Bounded
<1>1. Init => DictInv
  <2> SUFFICES ASSUME Init PROVE DictInv
    OBVIOUS
  <2>1. Stored = {}
    BY DEF Init, Stored
  <2> QED
    BY <2>1, FS_EmptySet, BoundsAssumption DEF DictInv, Bounded, Sequential
<1>2. IInv /\ DictInv /\ [Next]_vars => DictInv'
  <2> SUFFICES ASSUME IInv, DictInv, [Next]_vars PROVE DictInv'
    OBVIOUS
  <2>1. TypeOK
    BY DEF IInv
  <2>2. CASE UNCHANGED storeVars
    BY <2>2 DEF storeVars, DictInv, Bounded, Sequential, Stored
  <2>3. ASSUME NEW k \in Key, Age(k) PROVE DictInv'
    <3>1. older' = older /\ Stored' \in SUBSET Stored
      BY <2>1, <2>3 DEF Age, Stored, TypeOK
    <3>2. Sequential'
      BY <3>1 DEF DictInv, Sequential
    <3> QED
      BY <3>1, <3>2, ShrunkDict DEF DictInv
  <2> QED
    BY <2>1, <2>2, <2>3, CacheSetDict, DropDict, DictSteps
<1>3. DictInv => Bounded
  BY DEF DictInv
<1> QED
  BY <1>1, <1>2, <1>3, Inductive, PTL DEF Spec

-----------------------------------------------------------------------------
(* TtlCache implements CoalescedReads: every step of the cache is one step   *)
(* of the abstract cache or leaves it unchanged.                             *)

\* the running fetch of k
RunningFor(k) == inflight[k] # NoFetch /\ fetch[inflight[k]].st = "running"
TheCall(k) == [id |-> inflight[k], since |-> fetch[inflight[k]].base]

Calls == [k \in FetchKey |-> CallsOf(k)]
Value == [k \in FetchKey |-> IF store[k] = NoEntry THEN NoEntry ELSE store[k].val]

\* The calls the refinement mapping gives a key are at most the registered one.
LEMMA CallsAreRegistered ==
  TypeOK /\ Registered =>
    \A k \in FetchKey : CallsOf(k) = IF RunningFor(k) THEN {TheCall(k)} ELSE {}
<1> SUFFICES ASSUME TypeOK, Registered, NEW k \in FetchKey
             PROVE  CallsOf(k) = IF RunningFor(k) THEN {TheCall(k)} ELSE {}
  OBVIOUS
<1>1. k \in Key
  BY DEF Key
<1>2. \A g \in Fetch : fetch[g].st = "running" /\ fetch[g].key = k
                         => inflight[k] = g
  BY DEF Registered, Active
<1>3. CASE RunningFor(k)
  <2>1. inflight[k] \in Fetch /\ fetch[inflight[k]].key = k
    BY <1>1, <1>3 DEF RunningFor, TypeOK, Registered
  <2>2. {g \in Fetch : fetch[g].st = "running" /\ fetch[g].key = k} = {inflight[k]}
    BY <1>2, <1>3, <2>1 DEF RunningFor
  <2> QED
    BY <1>3, <2>2 DEF CallsOf, TheCall
<1>4. CASE ~RunningFor(k)
  <2>1. {g \in Fetch : fetch[g].st = "running" /\ fetch[g].key = k} = {}
    BY <1>2, <1>4, NullsAssumption DEF RunningFor
  <2> QED
    BY <1>4, <2>1 DEF CallsOf
<1> QED
  BY <1>3, <1>4

LEMMA CallsAreRegisteredNext ==
  (TypeOK /\ Registered =>
    \A k \in FetchKey : CallsOf(k) = IF RunningFor(k) THEN {TheCall(k)} ELSE {})'
BY CallsAreRegistered, PTL

\* Keys whose registration and running fetch stay keep their calls.
LEMMA CallsKept ==
  ASSUME IInv, Registered', TypeOK', NEW k \in FetchKey,
         inflight'[k] = inflight[k],
         inflight[k] # NoFetch => /\ fetch'[inflight[k]].st = fetch[inflight[k]].st
                                  /\ fetch'[inflight[k]].base = fetch[inflight[k]].base
  PROVE  CallsOf(k)' = CallsOf(k)
<1>1. CallsOf(k) = IF RunningFor(k) THEN {TheCall(k)} ELSE {}
  BY CallsAreRegistered DEF IInv, Tracked
<1>2. CallsOf(k)' = IF RunningFor(k)' THEN {TheCall(k)'} ELSE {}
  BY CallsAreRegisteredNext
<1> QED
  BY <1>1, <1>2 DEF RunningFor, TheCall

\* The kinds of step seen from the abstract cache.
LEMMA StartMaps ==
  ASSUME IInv, IInv', NEW k \in FetchKey, CallsOf(k) = {}, UNCHANGED <<store, upstream>>,
         CallsOf(k)' \in {{[id |-> i, since |-> upstream]} : i \in Fetch},
         \A j \in FetchKey \ {k} : CallsOf(j)' = CallsOf(j)
  PROVE  Reads!Start(k)
<1>1. PICK i \in Fetch : CallsOf(k)' = {[id |-> i, since |-> upstream]}
  OBVIOUS
<1>2. Calls' = [Calls EXCEPT ![k] = {[id |-> i, since |-> upstream]}]
  BY <1>1 DEF Calls
<1>3. Calls[k] = {} /\ Value' = Value
  BY DEF Calls, Value
<1> QED
  BY <1>2, <1>3 DEF Reads!Start, Calls, Value

LEMMA EndMaps ==
  ASSUME IInv, NEW k \in FetchKey, CallsOf(k) # {}, UNCHANGED <<store, upstream>>,
         CallsOf(k)' = {}, \A j \in FetchKey \ {k} : CallsOf(j)' = CallsOf(j)
  PROVE  Reads!End(k)
<1>1. Calls' = [Calls EXCEPT ![k] = {}] /\ Calls[k] # {} /\ Value' = Value
  BY DEF Calls, Value
<1> QED
  BY <1>1 DEF Reads!End, Calls, Value

LEMMA ForgetMaps ==
  ASSUME NEW S \in SUBSET FetchKey, UNCHANGED upstream,
         \A j \in FetchKey : CallsOf(j)' = CallsOf(j),
         \A j \in FetchKey :
           Value'[j] = IF j \in S THEN NoEntry ELSE Value[j]
  PROVE  Reads!Forget(S)
<1>1. Calls' = Calls /\ Value' = [j \in FetchKey |-> IF j \in S THEN NoEntry ELSE Value[j]]
  BY DEF Calls, Value
<1> QED
  BY <1>1 DEF Reads!Forget, Calls, Value

\* Registering a future nobody runs yet leaves the calls of every key alone;
\* registering one that runs at once is the start of the only call for its key.
LEMMA RegisterMaps ==
  ASSUME IInv, IInv', NEW f \in Fetch, NEW k \in FetchKey, NEW st \in {"created", "running"},
         NEW owner, NEW snap, ~Active(f), inflight[k] = NoFetch,
         Register(f, k, st, owner, snap), UNCHANGED <<store, upstream>>
  PROVE  [Reads!Next]_(Reads!vars)
<1> USE DEF IInv, Tracked
<1>1. /\ fetch'[f].st = st /\ fetch'[f].base = upstream /\ inflight'[k] = f /\ k \in Key
      /\ \A g \in Fetch \ {f} : fetch'[g] = fetch[g]
      /\ \A j \in FetchKey \ {k} : inflight'[j] = inflight[j]
  BY DEF Register, TypeOK, Key
<1>2. \A j \in FetchKey \ {k} : CallsOf(j)' = CallsOf(j)
  <2> SUFFICES ASSUME NEW j \in FetchKey \ {k}
               PROVE  CallsOf(j)' = CallsOf(j)
    OBVIOUS
  <2>1. inflight[j] # NoFetch => inflight[j] \in Fetch /\ inflight[j] # f
    BY DEF Registered, TypeOK, Key
  <2> QED
    BY <1>1, <2>1, CallsKept
<1>3. CallsOf(k) = {}
  BY CallsAreRegistered DEF RunningFor
<1>4. CASE st = "running"
  <2>1. CallsOf(k)' = {[id |-> f, since |-> upstream]}
    BY <1>1, <1>4, CallsAreRegisteredNext, NullsAssumption DEF RunningFor, TheCall
  <2>2. Reads!Start(k)
    BY <1>2, <1>3, <2>1, StartMaps
  <2> QED
    BY <2>2 DEF Reads!Next
<1>5. CASE st = "created"
  <2>1. CallsOf(k)' = {}
    BY <1>1, <1>5, CallsAreRegisteredNext DEF RunningFor
  <2>2. Calls' = Calls /\ Value' = Value
    BY <1>2, <1>3, <2>1 DEF Calls, Value
  <2> QED
    BY <2>2 DEF Reads!vars, Calls, Value
<1> QED
  BY <1>4, <1>5

\* The end of a task is the end of the call for its key, with or without a value.
LEMMA TaskEndMaps ==
  ASSUME IInv, IInv', NEW f \in Fetch, NEW v \in Version,
         FetchOk(f, v) \/ FetchSkip(f, v) \/ BackgroundFail(f) \/ LeaderFallback(f)
           \/ LeaderFail(f) \/ TaskCut(f)
  PROVE  [Reads!Next]_(Reads!vars)
<1> USE DEF IInv, Tracked
<1>1. /\ fetch[f].st = "running" /\ Active(f)
      /\ \E fut, w : Resolve(f, fut, w)
      /\ UNCHANGED upstream
  BY TaskEndShape DEF Active
<1>2. PICK k \in FetchKey : k = fetch[f].key /\ k \in Key /\ inflight[k] = f
  BY <1>1 DEF Registered, Key
<1>3. /\ inflight' = [inflight EXCEPT ![k] = NoFetch]
      /\ \A g \in Fetch \ {f} : fetch'[g] = fetch[g]
  BY <1>1, <1>2 DEF Resolve, TypeOK
<1>4. \A j \in FetchKey \ {k} : CallsOf(j)' = CallsOf(j)
  <2> SUFFICES ASSUME NEW j \in FetchKey \ {k}
               PROVE  CallsOf(j)' = CallsOf(j)
    OBVIOUS
  <2>1. inflight[j] # NoFetch => inflight[j] \in Fetch /\ inflight[j] # f
    BY <1>2 DEF Registered, TypeOK, Key
  <2>2. inflight'[j] = inflight[j]
    BY <1>3 DEF TypeOK, Key
  <2> QED
    BY <1>3, <2>1, <2>2, CallsKept
<1>5. CallsOf(k) = {[id |-> f, since |-> fetch[f].base]}
  BY <1>1, <1>2, CallsAreRegistered, NullsAssumption DEF RunningFor, TheCall
<1>6. CallsOf(k)' = {}
  BY <1>2, <1>3, CallsAreRegisteredNext DEF RunningFor, TypeOK
<1>7. CASE UNCHANGED store
  <2>1. Reads!End(k)
    BY <1>1, <1>2, <1>4, <1>5, <1>6, <1>7, EndMaps
  <2> QED
    BY <1>2, <2>1 DEF Reads!Next
<1>8. ASSUME FetchOk(f, v)
      PROVE  [Reads!Next]_(Reads!vars)
  <2>1. PICK t \in Nat : CacheSet(k, v, t)
    BY <1>2, <1>8, KeysAssumption DEF FetchOk, EffectiveStale
  <2>a. PICK S \in SUBSET FetchKey : S = Evicted \cap FetchKey
    OBVIOUS
  <2>2. Value' = [j \in FetchKey |-> IF j = k THEN v ELSE IF j \in S THEN NoEntry ELSE Value[j]]
    <3>1. \A j \in FetchKey :
            store'[j] = IF j = k THEN [val |-> v, age |-> "fresh", swr |-> t > 0]
                        ELSE IF j \in S THEN NoEntry ELSE store[j]
      BY <2>1, <2>a DEF CacheSet, Key
    <3>2. [val |-> v, age |-> "fresh", swr |-> t > 0] # NoEntry
      <4>1. [val |-> v, age |-> "fresh", swr |-> t > 0] \in Entry
        BY DEF Entry
      <4> QED
        BY <4>1, NullsAssumption
    <3> QED
      BY <3>1, <3>2 DEF Value
  <2>3. Calls' = [Calls EXCEPT ![k] = {}] /\ Calls[k] = {[id |-> f, since |-> fetch[f].base]}
    BY <1>2, <1>4, <1>5, <1>6 DEF Calls
  <2>4. v \in 0 .. upstream /\ v >= fetch[f].base
    BY <1>8, BoundsAssumption DEF FetchOk, Version, TypeOK, Future
  <2>5. \E x \in Calls[k], w \in 0 .. upstream :
          /\ w >= x.since
          /\ Value' = [j \in FetchKey |-> IF j = k THEN w ELSE IF j \in S THEN NoEntry ELSE Value[j]]
    BY <2>2, <2>3, <2>4
  <2>6. Reads!EndWith(k, S)
    BY <1>1, <2>3, <2>5 DEF Reads!EndWith, Calls, Value
  <2> QED
    BY <2>6 DEF Reads!Next
<1>9. ASSUME LeaderFail(f)
      PROVE  UNCHANGED store
  BY <1>1, <1>2, <1>9 DEF LeaderFail, Drop, TypeOK, Snapshots, FallbackCurrent
<1> QED
  BY <1>7, <1>8, <1>9 DEF FetchSkip, BackgroundFail, LeaderFallback, TaskCut, storeVars

\* The other steps start a call, forget values, publish data or show nothing.
LEMMA OtherMaps ==
  ASSUME IInv, IInv', OtherStep
  PROVE  [Reads!Next]_(Reads!vars)
<1> USE DEF IInv, Tracked
<1>1. ASSUME UNCHANGED fetch
      PROVE  \A j \in FetchKey : CallsOf(j)' = CallsOf(j)
  BY <1>1 DEF CallsOf
<1>2. ASSUME UNCHANGED <<fetch, upstream>>, Value' = Value
      PROVE  UNCHANGED Reads!vars
  <2>1. Calls' = Calls
    BY <1>1, <1>2 DEF Calls
  <2> QED
    BY <1>2, <2>1 DEF Reads!vars, Calls, Value
<1>3. ASSUME NEW f \in Fetch, BackgroundStart(f)
      PROVE  [Reads!Next]_(Reads!vars)
  <2>1. PICK k \in FetchKey : /\ Active(f) /\ k = fetch[f].key
                              /\ k \in Key /\ inflight[k] = f
    BY <1>3 DEF BackgroundStart, Active, Registered, Key
  <2>2. /\ fetch'[f].st = "running" /\ fetch'[f].base = upstream
        /\ \A g \in Fetch \ {f} : fetch'[g] = fetch[g]
        /\ UNCHANGED <<inflight, store, upstream>>
    BY <1>3 DEF BackgroundStart, TypeOK, Future, storeVars, envVars
  <2>3. CallsOf(k) = {}
    BY <1>3, <2>1, CallsAreRegistered DEF RunningFor, BackgroundStart
  <2>4. CallsOf(k)' = {[id |-> f, since |-> upstream]}
    BY <2>1, <2>2, CallsAreRegisteredNext, NullsAssumption DEF RunningFor, TheCall
  <2>5. \A j \in FetchKey \ {k} : CallsOf(j)' = CallsOf(j)
    <3> SUFFICES ASSUME NEW j \in FetchKey \ {k}
                 PROVE  CallsOf(j)' = CallsOf(j)
      OBVIOUS
    <3>1. inflight[j] # NoFetch => inflight[j] \in Fetch /\ inflight[j] # f
      BY <2>1 DEF Registered, TypeOK, Key
    <3> QED
      BY <2>2, <3>1, CallsKept
  <2>6. Reads!Start(k)
    BY <2>1, <2>2, <2>3, <2>4, <2>5, StartMaps
  <2> QED
    BY <2>1, <2>6 DEF Reads!Next
<1>4. ASSUME NEW S \in SUBSET FetchKey, UNCHANGED <<fetch, upstream>>,
             \A j \in FetchKey : store'[j] = IF j \in S THEN NoEntry ELSE store[j]
      PROVE  [Reads!Next]_(Reads!vars)
  <2>1. \A j \in FetchKey : Value'[j] = IF j \in S THEN NoEntry ELSE Value[j]
    BY <1>4 DEF Value
  <2>2. Reads!Forget(S)
    BY <1>1, <1>4, <2>1, ForgetMaps
  <2> QED
    BY <2>2 DEF Reads!Next
<1>5. ASSUME NEW k \in DirectKey, NEW v, DirectSet(k, v)
      PROVE  [Reads!Next]_(Reads!vars)
  <2>1. \A j \in FetchKey : store'[j] = IF j \in Evicted \cap FetchKey THEN NoEntry ELSE store[j]
    BY <1>5, KeysAssumption DEF DirectSet, CacheSet, Key
  <2> HIDE DEF Evicted
  <2> QED
    BY <1>4, <1>5, <2>1 DEF DirectSet, envVars
<1>6. ASSUME NEW S \in SUBSET Key, Drop(S), UNCHANGED <<fetch, upstream>>
      PROVE  [Reads!Next]_(Reads!vars)
  <2>1. \A j \in FetchKey : store'[j] = IF j \in S \cap FetchKey THEN NoEntry ELSE store[j]
    BY <1>6 DEF Drop, Key
  <2> QED
    BY <1>4, <1>6, <2>1
<1>7. ASSUME NEW k \in Key, Age(k)
      PROVE  [Reads!Next]_(Reads!vars)
  <2>1. \A j \in Key : /\ (store'[j] = NoEntry) <=> (store[j] = NoEntry)
                       /\ store[j] # NoEntry => store'[j].val = store[j].val
    BY <1>7, NullsAssumption DEF Age, TypeOK, Entry
  <2>2. Value' = Value
    BY <2>1 DEF Value, Key
  <2> QED
    BY <1>2, <1>7, <2>2 DEF Age, envVars
<1>8. CASE UpstreamChange
  <2>1. Calls' = Calls /\ Value' = Value
    BY <1>1, <1>8 DEF UpstreamChange, Calls, Value, storeVars
  <2> QED
    BY <1>8, <2>1 DEF UpstreamChange, Reads!Publish, Reads!Next, Calls, Value
<1>9. ASSUME UNCHANGED <<store, fetch, upstream>>
      PROVE  [Reads!Next]_(Reads!vars)
  BY <1>2, <1>9 DEF Value
<1>10. Expired \in SUBSET Key
  BY DEF Expired, Stored
<1> QED
  BY <1>3, <1>5, <1>6, <1>7, <1>8, <1>9, <1>10 DEF OtherStep, WakeValue, WakeError, WakeCut,
     FollowerCut, Remove, Sweep, vars, storeVars, envVars

\* The cache implements CoalescedReads.
THEOREM Refinement == Spec => ImplementsReads
<1>1. Init => Reads!Init
  BY DEF Init, Reads!Init, CallsOf, Key
<1>2. IInv /\ IInv' /\ [Next]_vars => [Reads!Next]_(Reads!vars)
  <2> SUFFICES ASSUME IInv, IInv', [Next]_vars
               PROVE  [Reads!Next]_(Reads!vars)
    OBVIOUS
  <2>1. ASSUME NEW c \in Caller, NEW k \in FetchKey, GetOrFetch(c, k)
        PROVE  [Reads!Next]_(Reads!vars)
    <3>1. CASE UNCHANGED <<inflight, fetch>>
      <4>1. UNCHANGED <<store, fetch, upstream>>
        BY <2>1, <3>1, GetOrFetchShape
      <4>2. UNCHANGED Reads!vars
        BY <4>1 DEF Reads!vars, CallsOf
      <4> QED
        BY <4>2
    <3>2. CASE ~UNCHANGED <<inflight, fetch>>
      BY <2>1, <3>2, GetOrFetchShape, RegisterMaps
    <3> QED
      BY <3>1, <3>2
  <2> QED
    BY <2>1, StepKinds, TaskEndMaps, OtherMaps DEF IInv, Tracked
<1> QED
  BY <1>1, <1>2, Inductive, PTL DEF Spec, ImplementsReads, Reads!Spec

=============================================================================
