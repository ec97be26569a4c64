------------------------------ MODULE TokenCache ------------------------------
(***************************************************************************)
(* The bearer token of app/services/ntcapi_client.py or of                 *)
(* mobiett_client.py (`client' says which), behind a double-checked        *)
(* LazyLock, and the HAT_ID dict of the Mobiett client.                    *)
(*                                                                         *)
(* A token has two lifetimes: `left' is what the process believes, `real'  *)
(* what the gateway grants.  They differ: the token was issued some time   *)
(* before its answer came, the clock behind an expire_date may be skewed,  *)
(* and an hour is assumed where the answer will not do; revocation makes   *)
(* real 0.  The asyncio lock is first come first served: the head of       *)
(* `queue' holds it.                                                       *)
(***************************************************************************)
EXTENDS Integers, Sequences, SequencesExt

CONSTANTS
  Caller,      \* coroutines that may use the client at once
  Route,       \* routes whose HAT_ID is looked up
  Lives,       \* lifetimes the gateway grants
  Said,        \* how its answers state them: "expires_in", "expire_date", "nothing"
  Skews,       \* by how much its clock is ahead of ours
  Hour, Day,   \* the lifetime assumed for want of a better one, and the longest believed
  Margin,      \* how long before its expiry a token is replaced (60 or 100 s)
  Timeout,     \* total timeout of a request (8 s)
  MaxHat,      \* room of _hat_id_cache (2000)
  MaxRevoked,  \* bound: revocations
  NoToken,     \* _token is None
  NoRoute      \* a service call that needs no HAT_ID

ASSUME SettingsAssumption ==
  /\ Timeout \in Nat \ {0} /\ Margin \in Nat /\ Margin >= 2 * Timeout
  /\ Lives \subseteq Nat /\ Hour \in Nat /\ Day \in Nat
  /\ Said \subseteq {"expires_in", "expire_date", "nothing"} /\ Skews \subseteq Int
  /\ MaxHat \in Nat \ {0} /\ MaxRevoked \in Nat
ASSUME CallerAssumption == IsFiniteSet(Caller)
ASSUME NullAssumption ==
  NoRoute \notin Route /\ NoToken \notin [left : Nat, real : Nat, fit : BOOLEAN]

VARIABLES
  client,   \* "ntcapi" or "mobiett"
  stored,   \* the cached token
  queue,    \* holder of the lock and the callers that wait for it
  call,     \* what each caller is doing
  hats,     \* _hat_id_cache in insertion order
  revoked,  \* revocations so far
  rejected  \* history: 401s of each Mobiett caller for fit tokens, up to one too many

vars == <<client, stored, queue, call, hats, revoked, rejected>>

\* fit: history, what Fit says of the token
Token == [left : Nat, real : Nat, fit : BOOLEAN]
Idle == [st |-> "idle", token |-> NoToken, timer |-> 0, want |-> NoRoute]

\* Faulty variant of Usable: the margin is left out.
UsableToTheEnd(t) == t # NoToken /\ t.left > 0

\* time.monotonic() < expiry - margin
Usable(t) == t # NoToken /\ t.left > Margin

\* _post_service has a token: the request is sent
Send(c, t, want) ==
  call' = [call EXCEPT ![c] = [st |-> "calling", token |-> t, timer |-> Timeout, want |-> want]]

\* _ensure_token up to its first suspension: fast path, or the lock, at once when
\* nobody has it
Ensure(c, want) ==
  IF Usable(stored) THEN Send(c, stored, want) /\ UNCHANGED queue
  ELSE /\ queue' = Append(queue, c)
       /\ call' = [call EXCEPT ![c] = [st |-> IF queue = <<>> THEN "fetching" ELSE "queued",
                                       token |-> NoToken, timer |-> Timeout, want |-> want]]

\* Faulty variant of MakeRoom: nothing is evicted.
MakeNoRoom == hats

\* the oldest id goes, before the lookup is awaited
MakeRoom == IF Len(hats) >= MaxHat THEN Tail(hats) ELSE hats

Entry(r) == {h \in Range(hats) : h.route = r}

\* a service call, or get_hat_id: a cached None answers at once, a cached id goes on
\* with get_live_fleet
Ask(c, r) ==
  /\ call[c].st = "idle"
  /\ r # NoRoute => client = "mobiett"
  /\ \A h \in Entry(r) : h.known
  /\ hats' = IF r = NoRoute \/ Entry(r) # {} THEN hats ELSE MakeRoom
  /\ Ensure(c, IF Entry(r) # {} THEN NoRoute ELSE r)
  /\ UNCHANGED <<client, stored, revoked, rejected>>

\* Faulty variant of Woken: no second check inside the lock.
WokenUnchecked(c) ==
  /\ call[c].st = "queued" /\ Head(queue) = c
  /\ call' = [call EXCEPT ![c].st = "fetching"]
  /\ UNCHANGED <<client, stored, queue, hats, revoked, rejected>>

\* the lock is granted: check again, then fetch
Woken(c) ==
  /\ call[c].st = "queued" /\ Head(queue) = c
  /\ IF Usable(stored) THEN Send(c, stored, call[c].want) /\ queue' = Tail(queue)
     ELSE call' = [call EXCEPT ![c].st = "fetching"] /\ UNCHANGED queue
  /\ UNCHANGED <<client, stored, hats, revoked, rejected>>

\* the lifetime that is believed of a token with n left at the gateway: ntcapi takes
\* an expire_date within the next minute for a skewed clock, mobiett does not read it
Believed(life, n, said, skew) ==
  IF said = "expires_in" THEN life
  ELSE IF said = "expire_date" /\ client = "ntcapi" /\ n + skew \in Margin .. Day THEN n + skew
  ELSE Hour

\* Worth its call: granted for more than two timeouts, and believed to last longer than
\* it does by no more than the margin can pay for besides a call.
Fit(life, left, n) == life > 2 * Timeout /\ left <= n + Margin - Timeout

\* 200 with a token the gateway issued d ago
FetchOk(c, life, d, said, skew) ==
  LET n == life - d
      left == Believed(life, n, said, skew)
  IN
  /\ call[c].st = "fetching"
  /\ d <= Timeout - call[c].timer
  /\ stored' = [left |-> left, real |-> IF n > 0 THEN n ELSE 0, fit |-> Fit(life, left, n)]
  /\ queue' = Tail(queue)
  /\ Send(c, stored', call[c].want)
  /\ UNCHANGED <<client, hats, revoked, rejected>>

\* Faulty variant of Quit: the lock is released when it was used, not on an exception.
QuitLocked(c) == call' = [call EXCEPT ![c] = Idle] /\ UNCHANGED queue

\* the caller leaves, with its place in the lock
Quit(c) ==
  /\ call' = [call EXCEPT ![c] = Idle]
  /\ queue' = RemoveFirst(queue, c)

\* an error status, a timeout, or a body without access_token: ntcapi has then
\* assigned None already
FetchFail(c, missing) ==
  /\ call[c].st = "fetching"
  /\ stored' = IF missing /\ client = "ntcapi" THEN NoToken ELSE stored
  /\ Quit(c)
  /\ UNCHANGED <<client, hats, revoked, rejected>>

\* asyncio.wait_for gives up, or the request is cancelled, at any await
Cancel(c) ==
  /\ call[c].st # "idle"
  /\ Quit(c)
  /\ UNCHANGED <<client, stored, hats, revoked, rejected>>

\* Faulty variant of Rejected: nothing is done about a 401.
RejectedKept == stored

\* what a 401 leaves of the cached token, whichever token was rejected
Rejected == IF client = "mobiett" THEN NoToken ELSE stored

\* the service refuses a token it does not know any more
Reject(c) ==
  /\ call[c].st = "calling" /\ call[c].token.real = 0
  /\ stored' = Rejected
  /\ Quit(c)
  /\ rejected' = IF client = "mobiett" /\ call[c].token.fit /\ rejected[c] <= revoked
                 THEN [rejected EXCEPT ![c] = @ + 1] ELSE rejected
  /\ UNCHANGED <<client, hats, revoked>>

\* another failure, or the answer of a call for no HAT_ID
CallEnds(c, ok) ==
  /\ call[c].st = "calling"
  /\ ok => call[c].token.real > 0 /\ call[c].want = NoRoute
  /\ Quit(c)
  /\ UNCHANGED <<client, stored, hats, revoked, rejected>>

\* get_hat_id has its answer: the id, or None for good; with an id
\* get_live_fleet goes on
HatAnswered(c, known) ==
  LET r == call[c].want
      h == [route |-> r, known |-> known]
  IN  /\ call[c].st = "calling" /\ r # NoRoute /\ call[c].token.real > 0
      /\ hats' = IF Entry(r) = {} THEN Append(hats, h)
                 ELSE [i \in DOMAIN hats |-> IF hats[i].route = r THEN h ELSE hats[i]]
      /\ IF known THEN Ensure(c, NoRoute) ELSE Quit(c)
      /\ UNCHANGED <<client, stored, revoked, rejected>>

-----------------------------------------------------------------------------
(* Time and the gateway *)

Older(t) == IF t = NoToken THEN t
            ELSE [left |-> IF t.left = 0 THEN 0 ELSE t.left - 1,
                  real |-> IF t.real = 0 THEN 0 ELSE t.real - 1, fit |-> t.fit]

\* the loop runs what is ready, and a request ends within its timeout
Tick ==
  /\ \A c \in Caller : call[c].st \in {"fetching", "calling"} => call[c].timer > 0
  /\ queue # <<>> => call[Head(queue)].st = "fetching"
  /\ stored' = Older(stored)
  /\ call' = [c \in Caller |->
       [call[c] EXCEPT !.token = Older(@),
                       !.timer = IF call[c].st \in {"fetching", "calling"} THEN @ - 1 ELSE @]]
  /\ UNCHANGED <<client, queue, hats, revoked, rejected>>

\* the gateway forgets the tokens it has issued
Revoke ==
  /\ revoked < MaxRevoked
  /\ revoked' = revoked + 1
  /\ stored' = IF stored = NoToken THEN stored ELSE [stored EXCEPT !.real = 0]
  /\ call' = [c \in Caller |-> IF call[c].token = NoToken THEN call[c]
                               ELSE [call[c] EXCEPT !.token.real = 0]]
  /\ UNCHANGED <<client, queue, hats, rejected>>

Init ==
  /\ client \in {"ntcapi", "mobiett"}
  /\ stored = NoToken
  /\ queue = <<>>
  /\ call = [c \in Caller |-> Idle]
  /\ hats = <<>>
  /\ revoked = 0
  /\ rejected = [c \in Caller |-> 0]

Advance(c) ==
  \/ Woken(c)
  \/ \E life \in Lives, d \in 0 .. Timeout, said \in Said, skew \in Skews :
       FetchOk(c, life, d, said, skew)
  \/ \E missing \in BOOLEAN : FetchFail(c, missing)
  \/ Reject(c)
  \/ \E ok \in BOOLEAN : CallEnds(c, ok)
  \/ \E known \in BOOLEAN : HatAnswered(c, known)

Next ==
  \/ \E c \in Caller : Advance(c) \/ Cancel(c) \/ \E r \in Route \cup {NoRoute} : Ask(c, r)
  \/ Tick
  \/ Revoke

Spec == Init /\ [][Next]_vars

(***************************************************************************)
(* Every request has a timeout, the loop runs whoever is ready, and time   *)
(* passes.  Nobody has to ask again.                                       *)
(***************************************************************************)
FairSpec ==
  /\ Spec
  /\ \A c \in Caller : WF_vars(Advance(c))
  /\ WF_vars(Tick)

-----------------------------------------------------------------------------
(* Properties *)

\* Every variable stays in its domain.
TypeOK ==
  /\ client \in {"ntcapi", "mobiett"}
  /\ stored \in Token \cup {NoToken}
  /\ queue \in Seq(Caller) /\ IsInjective(queue)
  /\ call \in [Caller -> [st : {"idle", "queued", "fetching", "calling"},
                          token : Token \cup {NoToken}, timer : 0 .. Timeout,
                          want : Route \cup {NoRoute}]]
  /\ hats \in Seq([route : Route, known : BOOLEAN])
  /\ revoked \in 0 .. MaxRevoked
  /\ rejected \in [Caller -> 0 .. MaxRevoked + 1]

\* Nobody asks for a token while one that will do is in the cache, and no two ask at
\* once ("Another coroutine may have refreshed", ntcapi_client.py:55).
NoNeedlessFetch ==
  /\ TypeOK
  /\ \A c \in Caller : call[c].st = "fetching" =>
       /\ ~Usable(stored)
       /\ \A d \in Caller \ {c} : call[d].st # "fetching"

\* Unless the gateway revokes it, a fit token lives as long as the call it was sent with,
\* fresh or from the cache: the margin pays for the call and for what is left of it the
\* lifetime may be wrong, by the time the answer took or by a skewed expire_date.
TokenOutlivesCall ==
  revoked = 0 => \A c \in Caller : call[c].st = "calling" /\ call[c].token.fit =>
                   call[c].token.real > 0

\* A failed fetch, a missing token, a rejection or a cancellation leaves nobody waiting
\* for the lock.
CallsEnd == \A c \in Caller : call[c].st # "idle" ~> call[c].st = "idle"

\* The ids and the lookups in flight exceed the room by at most the other callers: room
\* is made before the await (mobiett_client.py:98), used after it.
HatBounded ==
  LET Looking == {c \in Caller : call[c].want # NoRoute}
  IN  Len(hats) + Cardinality(Looking) <= MaxHat + Cardinality(Caller) - 1

\* A 401 does not come again ("401 cascading retry storms", CHANGELOG.md:172): one
\* revocation costs a caller of the Mobiett client one rejected call at most, also when late
\* answers to others drop the tokens fetched since.  Only tokens whose lifetime was
\* misjudged are rejected besides.
RejectedOnce == \A c \in Caller : rejected[c] <= revoked

=============================================================================
