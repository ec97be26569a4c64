----------------------------- MODULE SoapRouter -----------------------------
(***************************************************************************)
(* The SOAP request router of app/services/soap_router.py: direct calls    *)
(* first, then a pool of forward proxies with a spacing, a sliding-window  *)
(* quota and a failure cooldown for each.                                  *)
(*                                                                         *)
(* post() suspends in an upstream call and in the sleep before a proxy     *)
(* call, and nowhere else: _select_available_proxy awaits nothing under    *)
(* its lock.  One action is what a task does between two suspensions.      *)
(*                                                                         *)
(* Time stamps are kept as ages, which Tick advances up to the age from    *)
(* which the code treats them alike; `order` is the order of the last_call *)
(* stamps.  At least one proxy is configured.                              *)
(***************************************************************************)
EXTENDS Integers, Sequences, FiniteSets, SequencesExt

CONSTANTS
  Caller,         \* tasks in soap_router.post
  Proxy,          \* settings.effective_soap_proxy_urls
  ProbeInterval,  \* settings.soap_direct_probe_interval
  Cooldown,       \* is_available's cooldown
  MinInterval,    \* settings.soap_proxy_min_interval
  MaxPerWindow,   \* settings.soap_proxy_max_per_window
  Window,         \* settings.soap_proxy_window_seconds
  MaxAborts,      \* bound: callers cancelled while suspended
  NoProxy

ASSUME CallerAssumption == IsFiniteSet(Caller)
ASSUME ProxyAssumption == IsFiniteSet(Proxy) /\ Proxy # {} /\ NoProxy \notin Proxy
ASSUME SettingsAssumption ==
  /\ {ProbeInterval, Cooldown, MinInterval, MaxAborts} \subseteq Nat
  /\ {MaxPerWindow, Window} \subseteq Nat \ {0}

VARIABLES
  directHealthy,       \* _direct_healthy
  sinceDirectFailure,  \* age of _last_direct_failure
  healthy,             \* is_healthy of each proxy
  sinceFailure,        \* age of last_failure of each proxy
  sinceCall,           \* age of last_call of each proxy
  history,             \* ages of the calls in the history of each proxy
  order,               \* proxies, the least recently called first
  pc,                  \* where a caller is suspended
  via,                 \* the proxy a caller has selected
  wait,                \* what is left of the sleep of a caller
  excluded,            \* excluded_urls of a caller
  sent,                \* ages of the requests each gateway has been sent lately
  lost,                \* ages of the ends of those that failed or were cancelled
  aborts               \* cancelled callers so far

directVars == <<directHealthy, sinceDirectFailure>>
healthVars == <<healthy, sinceFailure>>
callVars   == <<sinceCall, order>>
vars == <<directVars, healthVars, callVars, history, pc, via, wait, excluded, sent, lost, aborts>>

-----------------------------------------------------------------------------
(* Selecting a proxy *)

Least(S) == CHOOSE m \in S : \A n \in S : m <= n
Young(age) == age < Window

Available(p) == healthy[p] \/ sinceFailure[p] >= Cooldown

\* those of a list of calls that are within the window: the oldest come first
Recent(ages) ==
  SubSeq(ages, Cardinality({i \in DOMAIN ages : ~Young(ages[i])}) + 1, Len(ages))

\* the history of p after evaluate_rate_limit has purged it
Purged(p) == Recent(history[p])

SpacingIgnored(p) == 0

\* the spacing evaluate_rate_limit asks p to wait for
Spacing(p) == IF sinceCall[p] < MinInterval THEN MinInterval - sinceCall[p] ELSE 0

\* Faulty variants: failed proxies are candidates, excluded ones are, the quota is
\* off by one.
CandidatesCooling(excl) == Proxy \ excl
CandidatesAll(excl) == {p \in Proxy : Available(p)}
ReadyOffByOne(excl) == {p \in CandidatesAll(excl) \ excl : Len(Purged(p)) <= MaxPerWindow}

\* the candidates that are neither excluded nor cooling down nor out of quota
Candidates(excl) == {p \in Proxy \ excl : Available(p)}
Ready(excl)      == {p \in Candidates(excl) : Len(Purged(p)) < MaxPerWindow}

\* the smallest (wait, last_call)
Best(ready) ==
  LET wanted == {p \in ready : Spacing(p) = Least({Spacing(q) : q \in ready})}
  IN  order[Least({i \in DOMAIN order : order[i] \in wanted})]

Sent(p) == sent' = [sent EXCEPT ![p] = Append(@, 0)]
Lose(p) == lost' = [lost EXCEPT ![p] = Append(@, 0)]

\* post() is over, or the task has moved on to another suspension
Leave(c) ==
  /\ pc' = [pc EXCEPT ![c] = "idle"]
  /\ via' = [via EXCEPT ![c] = NoProxy]
  /\ excluded' = [excluded EXCEPT ![c] = {}]
  /\ wait' = [wait EXCEPT ![c] = 0]

\* One turn of the proxy loop, up to its next suspension.  A selected proxy whose
\* spacing has elapsed is called at once; with none left post() raises.
Pool(c, excl) ==
  /\ history' = [p \in Proxy |-> IF p \in Candidates(excl) THEN Purged(p) ELSE history[p]]
  /\ IF Ready(excl) = {}
     THEN Leave(c) /\ UNCHANGED sent
     ELSE LET p == Best(Ready(excl)) IN
          /\ via' = [via EXCEPT ![c] = p]
          /\ excluded' = [excluded EXCEPT ![c] = excl]
          /\ wait' = [wait EXCEPT ![c] = Spacing(p)]
          /\ IF Spacing(p) > 0
             THEN pc' = [pc EXCEPT ![c] = "sleep"] /\ UNCHANGED sent
             ELSE pc' = [pc EXCEPT ![c] = "proxy"] /\ Sent(p)

-----------------------------------------------------------------------------
(* post() *)

ShouldProbeDirect == directHealthy \/ sinceDirectFailure >= ProbeInterval

\* post() starts with a direct call, which is a probe if direct is degraded
StartDirect(c) ==
  /\ pc[c] = "idle"
  /\ ShouldProbeDirect
  /\ pc' = [pc EXCEPT ![c] = IF directHealthy THEN "direct" ELSE "probe"]
  /\ UNCHANGED <<directVars, healthVars, callVars, history, via, wait, excluded, sent, lost, aborts>>

\* ... or goes to the pool without one
StartPool(c) ==
  /\ pc[c] = "idle"
  /\ ~ShouldProbeDirect
  /\ Pool(c, {})
  /\ UNCHANGED <<directVars, healthVars, callVars, lost, aborts>>

InDirect(c) == pc[c] \in {"direct", "probe"}

\* Faulty variant of DirectOk: a probe restores nothing.
DirectOkForgets(c) ==
  /\ InDirect(c)
  /\ Leave(c)
  /\ UNCHANGED <<directVars, healthVars, callVars, history, sent, lost, aborts>>

\* the direct call succeeds: only a probe restores direct routing
DirectOk(c) ==
  /\ InDirect(c)
  /\ directHealthy' = (directHealthy \/ pc[c] = "probe")
  /\ Leave(c)
  /\ UNCHANGED <<sinceDirectFailure, healthVars, callVars, history, sent, lost, aborts>>

\* the direct call fails: degrade direct routing and go to the pool
DirectFail(c) ==
  /\ InDirect(c)
  /\ directHealthy' = FALSE
  /\ sinceDirectFailure' = 0
  /\ Pool(c, {})
  /\ UNCHANGED <<healthVars, callVars, lost, aborts>>

\* the sleep is over: call the proxy selected before it
Awake(c) ==
  /\ pc[c] = "sleep" /\ wait[c] = 0
  /\ pc' = [pc EXCEPT ![c] = "proxy"]
  /\ Sent(via[c])
  /\ UNCHANGED <<directVars, healthVars, callVars, history, via, wait, excluded, lost, aborts>>

\* the proxy call succeeds: record_call
ProxyOk(c) ==
  /\ pc[c] = "proxy"
  /\ LET p == via[c] IN
     /\ healthy' = [healthy EXCEPT ![p] = TRUE]
     /\ sinceCall' = [sinceCall EXCEPT ![p] = 0]
     /\ history' = [history EXCEPT ![p] = Append(@, 0)]
     /\ order' = Append(RemoveFirst(order, p), p)
  /\ Leave(c)
  /\ UNCHANGED <<directVars, sinceFailure, sent, lost, aborts>>

\* the proxy call fails: degrade the proxy and try the next one
ProxyFail(c) ==
  /\ pc[c] = "proxy"
  /\ healthy' = [healthy EXCEPT ![via[c]] = FALSE]
  /\ sinceFailure' = [sinceFailure EXCEPT ![via[c]] = 0]
  /\ Lose(via[c])
  /\ Pool(c, excluded[c] \cup {via[c]})
  /\ UNCHANGED <<directVars, callVars, aborts>>

\* the task is cancelled (client disconnect): nothing is recorded
Abort(c) ==
  /\ pc[c] # "idle" /\ aborts < MaxAborts
  /\ aborts' = aborts + 1
  /\ IF pc[c] = "proxy" THEN Lose(via[c]) ELSE UNCHANGED lost
  /\ Leave(c)
  /\ UNCHANGED <<directVars, healthVars, callVars, history, sent>>

-----------------------------------------------------------------------------
Older(age, cap) == IF age < cap THEN age + 1 ELSE cap

\* one unit of time passes
Tick ==
  /\ sinceDirectFailure' = Older(sinceDirectFailure, ProbeInterval)
  /\ sinceFailure' = [p \in Proxy |-> Older(sinceFailure[p], Cooldown)]
  /\ sinceCall' = [p \in Proxy |-> Older(sinceCall[p], MinInterval)]
  /\ history' = [p \in Proxy |-> [i \in DOMAIN history[p] |-> Older(history[p][i], Window)]]
  /\ sent' = [p \in Proxy |-> Recent([i \in DOMAIN sent[p] |-> sent[p][i] + 1])]
  /\ lost' = [p \in Proxy |-> Recent([i \in DOMAIN lost[p] |-> lost[p][i] + 1])]
  /\ wait' = [c \in Caller |-> IF wait[c] > 0 THEN wait[c] - 1 ELSE 0]
  /\ UNCHANGED <<directHealthy, healthy, order, pc, via, excluded, aborts>>

Init ==
  /\ directHealthy = TRUE
  /\ sinceDirectFailure = ProbeInterval
  /\ healthy = [p \in Proxy |-> TRUE]
  /\ sinceFailure = [p \in Proxy |-> Cooldown]
  /\ sinceCall = [p \in Proxy |-> MinInterval]
  /\ history = [p \in Proxy |-> <<>>]
  /\ order = SetToSeq(Proxy)
  /\ pc = [c \in Caller |-> "idle"]
  /\ via = [c \in Caller |-> NoProxy]
  /\ wait = [c \in Caller |-> 0]
  /\ excluded = [c \in Caller |-> {}]
  /\ sent = [p \in Proxy |-> <<>>]
  /\ lost = [p \in Proxy |-> <<>>]
  /\ aborts = 0

Start(c) == StartDirect(c) \/ StartPool(c)
Proceed(c) == DirectOk(c) \/ DirectFail(c) \/ Awake(c) \/ ProxyOk(c) \/ ProxyFail(c)

Next == Tick \/ \E c \in Caller : Start(c) \/ Proceed(c) \/ Abort(c)

Spec == Init /\ [][Next]_vars

(***************************************************************************)
(* Time passes, upstream calls end (they have a timeout) and sleeps are    *)
(* woken from.  Requests keep coming: the fleet poller alone issues one    *)
(* every 15 minutes at the latest.                                         *)
(***************************************************************************)
Fairness ==
  /\ WF_vars(Tick)
  /\ \A c \in Caller : WF_vars(Proceed(c)) /\ WF_vars(Start(c))

FairSpec == Spec /\ Fairness

-----------------------------------------------------------------------------
(* Properties *)

\* Every variable stays in its domain.
TypeOK ==
  /\ directHealthy \in BOOLEAN
  /\ sinceDirectFailure \in 0 .. ProbeInterval
  /\ healthy \in [Proxy -> BOOLEAN]
  /\ sinceFailure \in [Proxy -> 0 .. Cooldown]
  /\ sinceCall \in [Proxy -> 0 .. MinInterval]
  /\ history \in [Proxy -> Seq(0 .. Window)]
  /\ ToSet(order) = Proxy /\ Len(order) = Cardinality(Proxy)
  /\ pc \in [Caller -> {"idle", "direct", "probe", "sleep", "proxy"}]
  /\ via \in [Caller -> Proxy \cup {NoProxy}]
  /\ wait \in [Caller -> 0 .. MinInterval]
  /\ excluded \in [Caller -> SUBSET Proxy]
  /\ {sent, lost} \subseteq [Proxy -> Seq(0 .. Window)]
  /\ aborts \in 0 .. MaxAborts

\* the requests of the last n units of time
Lately(ages, n) == Cardinality({i \in DOMAIN ages : ages[i] < n})

\* "45 req / 120s sliding window" per proxy (soap_router.py:12), failed requests
\* included although they are not recorded.  Holds for one caller at a time.
GatewayQuota == TypeOK /\ \A p \in Proxy : Len(sent[p]) <= MaxPerWindow

\* With concurrent callers, of the requests a gateway gets within a window those that
\* are answered or under way exceed the quota by the callers that passed the check
\* before any of them was recorded (soap_router.py:68, 254).  Requests that fail or are
\* cancelled come on top: they are never recorded.
OverrunBounded ==
  \A p \in Proxy : Len(sent[p]) < MaxPerWindow + Cardinality(Caller) + Len(lost[p])

\* "minimum 2.0s interval" per proxy (soap_router.py:12), as far as it goes: a gateway
\* is selected, slept for and called on stamps that only the end of a call renews (164,
\* 238, 254).  No caller reaches it twice within the interval, but for requests that
\* were cancelled, so a burst is no larger than the number of callers.
BurstBounded ==
  \A p \in Proxy : Lately(sent[p], MinInterval) <= Cardinality(Caller) + aborts

\* "isolates failing proxies with a 60-second cooldown" (soap_router.py:15), as far as
\* it goes: a caller may sleep for the gateway when it fails (238), and the success of a
\* request under way ends the isolation (253).  Until one does, only the requests of
\* other callers that had selected the gateway when it failed get through.
LeakBounded ==
  \A p \in Proxy : ~Available(p) => Lately(sent[p], sinceFailure[p]) < Cardinality(Caller)

\* Every post() returns or raises.
PostEnds == \A c \in Caller : pc[c] # "idle" ~> pc[c] = "idle"

\* "Periodically probes direct connectivity to switch back to direct"
\* (soap_router.py:11): once direct calls stop failing, direct routing is restored.
DirectComesBack ==
  <>[][\A c \in Caller : ~DirectFail(c)]_vars => []<>directHealthy

=============================================================================
