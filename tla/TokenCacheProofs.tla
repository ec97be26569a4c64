-------------------------- MODULE TokenCacheProofs --------------------------
(***************************************************************************)
(* Proofs about TokenCache, for any number of callers, routes, lifetimes   *)
(* and revocations: type correctness, that one caller at a time fetches a  *)
(* token and only when it must, that fit tokens outlive their calls and    *)
(* which are fit, that a 401 does not come again and that the HAT_ID dict  *)
(* is bounded.                                                             *)
(***************************************************************************)
EXTENDS TokenCache, SequenceTheorems, FiniteSetTheorems, TLAPS

\* the callers in the queue are those that want the lock, and its head holds it
Locked ==
  /\ \A c \in Caller : c \in Range(queue) <=> call[c].st \in {"queued", "fetching"}
  /\ \A c \in Caller : call[c].st = "fetching" => Head(queue) = c /\ ~Usable(stored)

\* what a call holds
Holding ==
  \A c \in Caller :
    /\ call[c].st = "idle" => call[c].want = NoRoute
    /\ call[c].st = "calling" => call[c].token # NoToken

\* a fit token is believed to last longer than it does by what the margin can pay for
Near(t) == t.fit => t.left <= t.real + Margin - Timeout
Sound == stored # NoToken => Near(stored)

\* a caller that has had a 401 for every revocation has seen them all: its tokens are
\* sound and so is the one in the cache
SettledAt(c) ==
  /\ rejected[c] <= revoked
  /\ rejected[c] = revoked =>
       Sound /\ (call[c].st = "calling" /\ call[c].token.fit =>
                  call[c].token.real > call[c].timer)

Settled == \A c \in Caller : SettledAt(c)

IInv == TypeOK /\ Locked /\ Holding /\ Settled /\ HatBounded

-----------------------------------------------------------------------------
(* Lists and queues *)

\* RemoveFirst takes an element out of an injective sequence and keeps the order.
LEMMA LeaveQueue ==
  ASSUME NEW S, NEW q \in Seq(S), IsInjective(q), NEW c
  PROVE  LET r == RemoveFirst(q, c) IN
         /\ r \in Seq(S) /\ IsInjective(r)
         /\ Len(r) = IF c \in Range(q) THEN Len(q) - 1 ELSE Len(q)
         /\ Range(r) = Range(q) \ {c}
         /\ q # <<>> /\ Head(q) # c => r # <<>> /\ Head(r) = Head(q)
<1>0. Range(q) = {q[j] : j \in 1 .. Len(q)} /\ \A m, n \in 1 .. Len(q) : q[m] = q[n] => m = n
  BY RangeEquality DEF IsInjective
<1>1. CASE \A i \in 1 .. Len(q) : q[i] # c
  BY <1>0, <1>1 DEF RemoveFirst
<1>2. CASE \E i \in 1 .. Len(q) : q[i] = c
  <2>1. PICK i \in 1 .. Len(q) : q[i] = c
    BY <1>2
  <2>2. {k \in 1 .. Len(q) : q[k] = c} = {i}
    BY <1>0, <2>1
  <2>3. RemoveFirst(q, c) = RemoveAt(q, i)
    BY <2>1, <2>2 DEF RemoveFirst, SelectInSeq, Min
  <2>. DEFINE a == SubSeq(q, 1, i - 1)
              b == SubSeq(q, i + 1, Len(q))
              r == a \o b
  <2>4. a \in Seq(S) /\ Len(a) = i - 1 /\ \A j \in 1 .. i - 1 : a[j] = q[j]
    BY SubSeqProperties
  <2>5. b \in Seq(S) /\ Len(b) = Len(q) - i /\ \A j \in 1 .. Len(q) - i : b[j] = q[i + j]
    BY SubSeqProperties
  <2>6. RemoveFirst(q, c) = r
    BY <2>3 DEF RemoveAt
  <2>. HIDE DEF a, b
  <2>7. /\ r \in Seq(S) /\ Len(r) = Len(a) + Len(b)
        /\ \A j \in 1 .. Len(a) + Len(b) : r[j] = IF j <= Len(a) THEN a[j] ELSE b[j - Len(a)]
    BY <2>4, <2>5, ConcatProperties
  <2>. HIDE DEF r
  <2>8. Len(r) = Len(q) - 1 /\ \A j \in 1 .. Len(r) : r[j] = IF j < i THEN q[j] ELSE q[j + 1]
    <3>1. Len(r) = Len(q) - 1
      BY <2>4, <2>5, <2>7
    <3>2. ASSUME NEW j \in 1 .. Len(r), j < i PROVE r[j] = q[j]
      <4>1. j \in 1 .. Len(a) + Len(b) /\ j <= Len(a) /\ j \in 1 .. i - 1
        BY <3>1, <3>2, <2>4, <2>5
      <4>. QED
        BY <4>1, <2>4, <2>7
    <3>3. ASSUME NEW j \in 1 .. Len(r), j >= i PROVE r[j] = q[j + 1]
      <4>1. j \in 1 .. Len(a) + Len(b) /\ ~(j <= Len(a)) /\ j - Len(a) \in 1 .. Len(q) - i
        BY <3>1, <3>3, <2>4, <2>5
      <4>2. i + (j - Len(a)) = j + 1
        BY <2>4
      <4>. QED
        BY <4>1, <4>2, <2>5, <2>7
    <3>. QED
      BY <3>1, <3>2, <3>3
  <2>9. IsInjective(r)
    <3>. SUFFICES ASSUME NEW j \in 1 .. Len(r), NEW k \in 1 .. Len(r), r[j] = r[k] PROVE j = k
      BY <2>7 DEF IsInjective
    <3>. QED
      BY <1>0, <2>8
  <2>10. Range(r) = Range(q) \ {c}
    <3>1. \A j \in 1 .. Len(r) : r[j] \in Range(q) \ {c}
      <4>. TAKE j \in 1 .. Len(r)
      <4>1. PICK k \in 1 .. Len(q) : k # i /\ r[j] = q[k]
        BY <2>8
      <4>. QED
        BY <1>0, <2>1, <4>1
    <3>2. \A j \in 1 .. Len(q) : q[j] = c \/ \E k \in 1 .. Len(r) : r[k] = q[j]
      <4>. TAKE j \in 1 .. Len(q)
      <4>1. CASE j < i
        BY <4>1, <2>8
      <4>2. CASE j > i
        <5>1. j - 1 \in 1 .. Len(r) /\ r[j - 1] = q[j]
          BY <4>2, <2>8
        <5>. QED
          BY <5>1
      <4>. QED
        BY <4>1, <4>2, <2>1
    <3>3. Range(r) = {r[j] : j \in 1 .. Len(r)}
      BY <2>7, RangeEquality
    <3>. QED
      BY <1>0, <3>1, <3>2, <3>3
  <2>11. q # <<>> /\ Head(q) # c => r # <<>> /\ Head(r) = Head(q)
    BY <2>1, <2>7, <2>8
  <2>. QED
    BY <1>0, <2>1, <2>6, <2>7, <2>8, <2>9, <2>10, <2>11
<1>. QED
  BY <1>1, <1>2

\* An injective sequence without its head.
LEMMA TailQueue ==
  ASSUME NEW S, NEW q \in Seq(S), IsInjective(q), q # <<>>
  PROVE  Tail(q) \in Seq(S) /\ IsInjective(Tail(q)) /\ Range(Tail(q)) = Range(q) \ {Head(q)}
<1>. DEFINE r == Tail(q)
<1>1. r \in Seq(S) /\ Len(r) = Len(q) - 1 /\ \A i \in 1 .. Len(r) : r[i] = q[i + 1]
  BY HeadTailProperties
<1>2. /\ \A m, n \in 1 .. Len(q) : q[m] = q[n] => m = n
      /\ Len(q) >= 1 /\ Head(q) = q[1] /\ Range(q) = {q[i] : i \in 1 .. Len(q)}
  BY RangeEquality DEF IsInjective
<1>. HIDE DEF r
<1>3. IsInjective(r)
  BY <1>1, <1>2 DEF IsInjective
<1>4. Range(r) = {q[i] : i \in 2 .. Len(q)}
  <2>1. \A i \in 2 .. Len(q) : i - 1 \in 1 .. Len(r) /\ r[i - 1] = q[i]
    BY <1>1
  <2>2. \A i \in 1 .. Len(r) : i + 1 \in 2 .. Len(q)
    BY <1>1
  <2>3. Range(r) = {r[i] : i \in 1 .. Len(r)}
    BY <1>1, RangeEquality
  <2>. QED
    BY <1>1, <2>1, <2>2, <2>3
<1>. QED
  BY <1>1, <1>2, <1>3, <1>4 DEF r

\* An injective sequence with one more element.
LEMMA AppendQueue ==
  ASSUME NEW S, NEW q \in Seq(S), IsInjective(q), NEW c \in S, c \notin Range(q)
  PROVE  LET r == Append(q, c) IN
         /\ r \in Seq(S) /\ IsInjective(r) /\ Range(r) = Range(q) \cup {c}
         /\ Head(r) = IF q = <<>> THEN c ELSE Head(q)
<1>. DEFINE r == Append(q, c)
<1>1. /\ r \in Seq(S) /\ Len(r) = Len(q) + 1 /\ r[Len(q) + 1] = c
      /\ \A i \in 1 .. Len(q) : r[i] = q[i]
  BY AppendProperties
<1>2. Head(r) = IF q = <<>> THEN c ELSE Head(q)
  BY HeadTailAppend
<1>. HIDE DEF r
<1>3. Range(q) = {q[i] : i \in 1 .. Len(q)} /\ Range(r) = {r[i] : i \in 1 .. Len(r)}
  BY <1>1, RangeEquality
<1>4. \A m, n \in 1 .. Len(q) : q[m] = q[n] => m = n
  BY DEF IsInjective
<1>5. IsInjective(r)
  BY <1>1, <1>3, <1>4 DEF IsInjective
<1>. QED
  BY <1>1, <1>2, <1>3, <1>5 DEF r

\* A function on 1 .. n is a sequence of length n.
LEMMA FunctionAsSeq ==
  ASSUME NEW T, NEW n \in Nat, NEW t \in [1 .. n -> T]
  PROVE  t \in Seq(T) /\ Len(t) = n
<1>1. t \in Seq(T)
  BY SeqDef
<1>2. Len(t) \in Nat /\ 1 .. Len(t) = 1 .. n
  BY <1>1, LenProperties
<1>3. Len(t) \in 1 .. Len(t) \/ Len(t) = 0
  BY <1>2
<1>4. n \in 1 .. n \/ n = 0
  OBVIOUS
<1>. QED
  BY <1>1, <1>2, <1>3, <1>4

-----------------------------------------------------------------------------
(* What the helpers of the model do *)

CallType == [st : {"idle", "queued", "fetching", "calling"}, token : Token \cup {NoToken},
             timer : 0 .. Timeout, want : Route \cup {NoRoute}]

\* An idle caller is a value of its type.
LEMMA IdleType == Idle \in CallType
BY SettingsAssumption DEF Idle, CallType

\* A token stays one when it gets older.
LEMMA OlderType ==
  ASSUME NEW t \in Token \cup {NoToken}
  PROVE  Older(t) \in Token \cup {NoToken}
BY DEF Older, Token

\* A fetched token is one, and it is not believed for longer than fit allows.
LEMMA FetchedToken ==
  ASSUME NEW c \in Caller, NEW life \in Lives, NEW d \in 0 .. Timeout,
         NEW said \in Said, NEW skew \in Skews, FetchOk(c, life, d, said, skew)
  PROVE  /\ stored' \in Token /\ stored' # NoToken /\ Near(stored')
         /\ stored'.fit => stored'.real > Timeout
<1>. DEFINE n == life - d
            left == Believed(life, n, said, skew)
            real == IF n > 0 THEN n ELSE 0
<1>1. life \in Nat /\ n \in Int /\ real \in Nat /\ left \in Nat
  BY SettingsAssumption DEF Believed
<1>2. stored' = [left |-> left, real |-> real, fit |-> Fit(life, left, n)]
  BY DEF FetchOk
<1>3. Fit(life, left, n) \in BOOLEAN
  BY DEF Fit
<1>4. Fit(life, left, n) => left <= real + Margin - Timeout /\ real > Timeout
  BY <1>1, SettingsAssumption DEF Fit
<1>. HIDE DEF n, left, real
<1>5. stored' \in Token /\ stored' # NoToken
  BY <1>1, <1>2, <1>3, NullAssumption DEF Token
<1>. QED
  BY <1>2, <1>4, <1>5 DEF Near

\* The typed part of the state that Ensure and Quit change.
Coroutines == queue \in Seq(Caller) /\ IsInjective(queue) /\ call \in [Caller -> CallType]

\* _ensure_token keeps types and lock, and tells the caller what it waits for.
LEMMA EnsureStep ==
  ASSUME Coroutines, Locked, stored \in Token \cup {NoToken},
         NEW c \in Caller, call[c].st \in {"idle", "calling"},
         NEW want \in Route \cup {NoRoute}, Ensure(c, want), stored' = stored
  PROVE  /\ Coroutines' /\ Locked'
         /\ \A d \in Caller \ {c} : call'[d] = call[d]
         /\ call'[c].want = want /\ call'[c].st # "idle"
         /\ call'[c].st = "calling" =>
              Usable(stored) /\ call'[c].token = stored /\ call'[c].timer = Timeout
<1>. USE SettingsAssumption
<1>1. CASE Usable(stored)
  <2>. DEFINE e == [st |-> "calling", token |-> stored, timer |-> Timeout, want |-> want]
  <2>1. call' = [call EXCEPT ![c] = e] /\ queue' = queue
    BY <1>1 DEF Ensure, Send
  <2>2. e \in CallType
    BY DEF CallType
  <2>. QED
    BY <1>1, <2>1, <2>2 DEF Coroutines, Locked, Usable
<1>2. CASE ~Usable(stored)
  <2>. DEFINE e == [st |-> IF queue = <<>> THEN "fetching" ELSE "queued",
                    token |-> NoToken, timer |-> Timeout, want |-> want]
  <2>1. call' = [call EXCEPT ![c] = e] /\ queue' = Append(queue, c)
    BY <1>2 DEF Ensure
  <2>2. e \in CallType
    BY DEF CallType
  <2>3. c \notin Range(queue)
    BY DEF Locked
  <2>4. /\ queue' \in Seq(Caller) /\ IsInjective(queue')
        /\ Range(queue') = Range(queue) \cup {c}
        /\ Head(queue') = IF queue = <<>> THEN c ELSE Head(queue)
    BY <2>1, <2>3, AppendQueue DEF Coroutines
  <2>5. queue = <<>> => \A d \in Caller : d \notin Range(queue)
    BY DEF Range
  <2>6. Coroutines'
    BY <2>1, <2>2, <2>4 DEF Coroutines
  <2>7. Locked'
    BY <1>2, <2>1, <2>4, <2>5 DEF Locked, Coroutines, Usable
  <2>. QED
    BY <2>1, <2>6, <2>7 DEF Coroutines
<1>. QED
  BY <1>1, <1>2

\* A caller that leaves keeps types and lock.
LEMMA QuitStep ==
  ASSUME Coroutines, Locked, NEW c \in Caller, Quit(c), stored' \in {stored, NoToken}
  PROVE  Coroutines' /\ Locked' /\ call' = [call EXCEPT ![c] = Idle]
<1>1. call' = [call EXCEPT ![c] = Idle] /\ queue' = RemoveFirst(queue, c)
  BY DEF Quit
<1>2. /\ queue' \in Seq(Caller) /\ IsInjective(queue') /\ Range(queue') = Range(queue) \ {c}
      /\ queue # <<>> /\ Head(queue) # c => queue' # <<>> /\ Head(queue') = Head(queue)
  BY <1>1, LeaveQueue DEF Coroutines
<1>3. Coroutines'
  BY <1>1, <1>2, IdleType DEF Coroutines
<1>4. \A d \in Range(queue) : queue # <<>>
  BY DEF Range
<1>5. Locked'
  <2>. SUFFICES ASSUME NEW d \in Caller
                PROVE  /\ d \in Range(queue)' <=> call'[d].st \in {"queued", "fetching"}
                       /\ call'[d].st = "fetching" => Head(queue') = d /\ ~Usable(stored')
    BY DEF Locked
  <2>1. CASE d = c
    BY <2>1, <1>1, <1>2 DEF Coroutines, Idle
  <2>2. CASE d # c
    <3>1. call'[d] = call[d]
      BY <2>2, <1>1 DEF Coroutines
    <3>. QED
      BY <2>2, <3>1, <1>2, <1>4 DEF Locked, Usable
  <2>. QED
    BY <2>1, <2>2
<1>. QED
  BY <1>1, <1>3, <1>5

Hat == [route : Route, known : BOOLEAN]

\* Room for one more id: at most MaxHat - 1 are left when there were as many as that.
LEMMA MakeRoomShape ==
  ASSUME hats \in Seq(Hat)
  PROVE  /\ MakeRoom \in Seq(Hat)
         /\ Len(MakeRoom) = IF Len(hats) >= MaxHat THEN Len(hats) - 1 ELSE Len(hats)
<1>1. CASE Len(hats) >= MaxHat
  <2>1. hats # <<>>
    BY <1>1, SettingsAssumption
  <2>. QED
    BY <1>1, <2>1, HeadTailProperties DEF MakeRoom
<1>2. CASE ~(Len(hats) >= MaxHat)
  BY <1>2 DEF MakeRoom
<1>. QED
  BY <1>1, <1>2

\* The answer for a route is appended, or takes the place of the one there is.
LEMMA HatStored ==
  ASSUME hats \in Seq(Hat), NEW h \in Hat, NEW r \in Route,
         hats' = IF Entry(r) = {} THEN Append(hats, h)
                 ELSE [i \in DOMAIN hats |-> IF hats[i].route = r THEN h ELSE hats[i]]
  PROVE  hats' \in Seq(Hat) /\ Len(hats') <= Len(hats) + 1
<1>1. CASE Entry(r) = {}
  BY <1>1, AppendProperties
<1>2. CASE Entry(r) # {}
  <2>1. DOMAIN hats = 1 .. Len(hats) /\ Len(hats) \in Nat /\ \A i \in 1 .. Len(hats) : hats[i] \in Hat
    BY LenProperties, ElementOfSeq
  <2>2. hats' = [i \in 1 .. Len(hats) |-> IF hats[i].route = r THEN h ELSE hats[i]]
    BY <1>2, <2>1
  <2>3. hats' \in [1 .. Len(hats) -> Hat]
    BY <2>1, <2>2
  <2>4. hats' \in Seq(Hat) /\ Len(hats') = Len(hats)
    BY <2>1, <2>3, FunctionAsSeq
  <2>5. Len(hats) <= Len(hats) + 1
    BY <2>1
  <2>. QED
    BY <2>4, <2>5
<1>. QED
  BY <1>1, <1>2

-----------------------------------------------------------------------------
(* Types and the lock *)

LEMMA TypeParts == TypeOK => Coroutines /\ hats \in Seq(Hat) /\ stored \in Token \cup {NoToken}
BY DEF TypeOK, Coroutines, CallType, Hat

\* Every step keeps the types and the discipline of the lock.
LEMMA TypeStep == TypeOK /\ Locked /\ [Next]_vars => TypeOK' /\ Locked'
<1>. SUFFICES ASSUME TypeOK, Locked, [Next]_vars PROVE TypeOK' /\ Locked'
  OBVIOUS
<1>. USE SettingsAssumption, TypeParts
<1>. DEFINE Rest == /\ client \in {"ntcapi", "mobiett"} /\ stored \in Token \cup {NoToken}
                    /\ hats \in Seq(Hat) /\ revoked \in 0 .. MaxRevoked
                    /\ rejected \in [Caller -> 0 .. MaxRevoked + 1]
<1>0. TypeOK' <=> Coroutines' /\ Rest'
  BY DEF TypeOK, Coroutines, CallType, Hat
<1>00. Rest /\ Coroutines
  BY DEF TypeOK
<1>. HIDE DEF Rest
<1>1. ASSUME NEW c \in Caller, NEW r \in Route \cup {NoRoute}, Ask(c, r)
      PROVE  TypeOK' /\ Locked'
  <2>1. Coroutines' /\ Locked'
    BY <1>1, <1>00, EnsureStep DEF Ask, Rest
  <2>2. Rest'
    BY <1>1, <1>00, MakeRoomShape DEF Ask, Rest
  <2>. QED
    BY <2>1, <2>2, <1>0
<1>2. ASSUME NEW c \in Caller, Woken(c) PROVE TypeOK' /\ Locked'
  <2>1. queue # <<>> /\ c \in Range(queue)
    BY <1>2 DEF Woken, Locked, Range
  <2>2. CASE Usable(stored)
    <3>1. queue' = Tail(queue) /\ Send(c, stored, call[c].want)
      BY <1>2, <2>2 DEF Woken
    <3>2. queue' \in Seq(Caller) /\ IsInjective(queue') /\ Range(queue') = Range(queue) \ {c}
      BY <3>1, <2>1, <1>2, <1>00, TailQueue DEF Coroutines, Woken
    <3>3. call' = [call EXCEPT ![c] = [st |-> "calling", token |-> stored, timer |-> Timeout,
                                       want |-> call[c].want]]
      BY <3>1 DEF Send
    <3>4. Coroutines'
      BY <3>2, <3>3, <1>00 DEF Coroutines, CallType, Rest
    <3>5. Locked'
      BY <3>2, <3>3, <2>2, <1>00 DEF Locked, Coroutines
    <3>. QED
      BY <1>2, <3>4, <3>5, <1>0, <1>00 DEF Woken, Rest
  <2>3. CASE ~Usable(stored)
    <3>1. queue' = queue /\ call' = [call EXCEPT ![c].st = "fetching"] /\ stored' = stored
      BY <1>2, <2>3 DEF Woken
    <3>2. Coroutines'
      BY <3>1, <1>00 DEF Coroutines, CallType
    <3>3. Locked'
      BY <1>2, <3>1, <2>1, <2>3, <1>00 DEF Locked, Coroutines, CallType, Usable, Woken
    <3>. QED
      BY <1>2, <3>2, <3>3, <1>0, <1>00 DEF Woken, Rest
  <2>. QED
    BY <2>2, <2>3
<1>3. ASSUME NEW c \in Caller, NEW life \in Lives, NEW d \in 0 .. Timeout,
             NEW said \in Said, NEW skew \in Skews, FetchOk(c, life, d, said, skew)
      PROVE  TypeOK' /\ Locked'
  <2>1. queue # <<>> /\ Head(queue) = c
    BY <1>3 DEF FetchOk, Locked, Range
  <2>3. stored' \in Token
    BY <1>3, FetchedToken
  <2>4. call' = [call EXCEPT ![c] = [st |-> "calling", token |-> stored', timer |-> Timeout,
                                     want |-> call[c].want]]
    BY <1>3 DEF FetchOk, Send
  <2>5. queue' \in Seq(Caller) /\ IsInjective(queue') /\ Range(queue') = Range(queue) \ {c}
    BY <1>3, <2>1, <1>00, TailQueue DEF Coroutines, FetchOk
  <2>6. Coroutines'
    BY <2>3, <2>4, <2>5, <1>00 DEF Coroutines, CallType
  <2>7. Locked'
    BY <2>1, <2>4, <2>5, <1>00 DEF Locked, Coroutines
  <2>. QED
    BY <1>3, <2>3, <2>6, <2>7, <1>0, <1>00 DEF FetchOk, Rest
<1>4. ASSUME NEW c \in Caller, NEW missing \in BOOLEAN, FetchFail(c, missing)
      PROVE  TypeOK' /\ Locked'
  <2>1. stored' \in {stored, NoToken}
    BY <1>4 DEF FetchFail
  <2>. QED
    BY <1>4, <2>1, <1>0, <1>00, QuitStep DEF FetchFail, Rest
<1>5. ASSUME NEW c \in Caller, Cancel(c) PROVE TypeOK' /\ Locked'
  BY <1>5, <1>0, <1>00, QuitStep DEF Cancel, Rest
<1>6. ASSUME NEW c \in Caller, Reject(c) PROVE TypeOK' /\ Locked'
  <2>1. stored' \in {stored, NoToken}
    BY <1>6 DEF Reject, Rejected
  <2>2. rejected' \in [Caller -> 0 .. MaxRevoked + 1]
    BY <1>6, <1>00 DEF Reject, Rest
  <2>. QED
    BY <1>6, <2>1, <2>2, <1>0, <1>00, QuitStep DEF Reject, Rest
<1>7. ASSUME NEW c \in Caller, NEW ok \in BOOLEAN, CallEnds(c, ok) PROVE TypeOK' /\ Locked'
  BY <1>7, <1>0, <1>00, QuitStep DEF CallEnds, Rest
<1>8. ASSUME NEW c \in Caller, NEW known \in BOOLEAN, HatAnswered(c, known)
      PROVE  TypeOK' /\ Locked'
  <2>. DEFINE r == call[c].want
              h == [route |-> r, known |-> known]
  <2>1. r \in Route /\ h \in Hat
    BY <1>8, <1>00 DEF HatAnswered, Coroutines, CallType, Hat
  <2>2. hats' \in Seq(Hat)
    BY <1>8, <2>1, <1>00, HatStored DEF HatAnswered, Rest
  <2>3. Coroutines' /\ Locked'
    <3>1. CASE known
      BY <1>8, <3>1, <1>00, EnsureStep DEF HatAnswered, Rest
    <3>2. CASE ~known
      BY <1>8, <3>2, <1>00, QuitStep DEF HatAnswered
    <3>. QED
      BY <3>1, <3>2
  <2>. QED
    BY <1>8, <2>2, <2>3, <1>0, <1>00 DEF HatAnswered, Rest
<1>9. CASE Tick
  <2>1. stored' \in Token \cup {NoToken} /\ (Usable(stored') => Usable(stored))
    <3>1. stored' = Older(stored)
      BY <1>9 DEF Tick
    <3>2. stored' \in Token \cup {NoToken}
      BY <3>1, <1>00, OlderType DEF Rest
    <3>3. Usable(stored') => Usable(stored)
      <4>1. CASE stored = NoToken
        BY <4>1, <3>1 DEF Usable, Older
      <4>2. CASE stored \in Token
        BY <4>2, <3>1, NullAssumption DEF Usable, Older, Token
      <4>. QED
        BY <4>1, <4>2, <1>00 DEF Rest
    <3>. QED
      BY <3>2, <3>3
  <2>2. \A c \in Caller : /\ call'[c] \in CallType
                          /\ call'[c].st = call[c].st
    <3>. SUFFICES ASSUME NEW c \in Caller
                  PROVE  call'[c] \in CallType /\ call'[c].st = call[c].st
      OBVIOUS
    <3>1. call'[c] = [call[c] EXCEPT !.token = Older(@),
                        !.timer = IF call[c].st \in {"fetching", "calling"} THEN @ - 1 ELSE @]
      BY <1>9 DEF Tick
    <3>2. Older(call[c].token) \in Token \cup {NoToken}
      BY <1>00, OlderType DEF Coroutines, CallType
    <3>3. call[c].st \in {"fetching", "calling"} => call[c].timer > 0
      BY <1>9 DEF Tick
    <3>. DEFINE timer == IF call[c].st \in {"fetching", "calling"} THEN call[c].timer - 1
                         ELSE call[c].timer
    <3>4. timer \in 0 .. Timeout
      BY <3>3, <1>00 DEF Coroutines, CallType
    <3>5. call'[c] = [call[c] EXCEPT !.token = Older(call[c].token), !.timer = timer]
      BY <3>1
    <3>. QED
      BY <3>2, <3>4, <3>5, <1>00 DEF Coroutines, CallType
  <2>3. call' \in [Caller -> CallType]
    BY <1>9, <2>2 DEF Tick
  <2>4. Coroutines'
    BY <1>9, <2>3, <1>00 DEF Tick, Coroutines
  <2>5. Locked'
    BY <1>9, <2>1, <2>2 DEF Tick, Locked
  <2>. QED
    BY <1>9, <2>1, <2>4, <2>5, <1>0, <1>00 DEF Tick, Rest
<1>10. CASE Revoke
  <2>1. stored' \in Token \cup {NoToken} /\ (Usable(stored') => Usable(stored))
    BY <1>10, <1>00, NullAssumption DEF Revoke, Rest, Usable, Token
  <2>2. \A c \in Caller : call'[c] \in CallType /\ call'[c].st = call[c].st
    BY <1>10, <1>00 DEF Revoke, Coroutines, CallType, Token
  <2>3. call' \in [Caller -> CallType]
    BY <1>10, <2>2 DEF Revoke
  <2>4. Coroutines'
    BY <1>10, <2>3, <1>00 DEF Revoke, Coroutines
  <2>5. Locked'
    BY <1>10, <2>1, <2>2 DEF Revoke, Locked
  <2>. QED
    BY <1>10, <2>1, <2>4, <2>5, <1>0, <1>00 DEF Revoke, Rest
<1>11. CASE UNCHANGED vars
  BY <1>11, <1>0, <1>00 DEF vars, Rest, Coroutines, Locked, Usable
<1>. QED
  BY <1>1, <1>2, <1>3, <1>4, <1>5, <1>6, <1>7, <1>8, <1>9, <1>10, <1>11 DEF Next, Advance

-----------------------------------------------------------------------------
(* Tokens and rejections *)

\* What a call holds after any step.
LEMMA HoldingStep == TypeOK /\ Locked /\ Holding /\ [Next]_vars => Holding'
<1>. SUFFICES ASSUME TypeOK, Locked, Holding, [Next]_vars, NEW e \in Caller
              PROVE  /\ call'[e].st = "idle" => call'[e].want = NoRoute
                     /\ call'[e].st = "calling" => call'[e].token # NoToken
  BY DEF Holding
<1>. USE TypeParts DEF Holding
<1>0. call \in [Caller -> CallType] /\ call[e] \in CallType
  BY DEF Coroutines
<1>1. ASSUME NEW c \in Caller, NEW want \in Route \cup {NoRoute}, Ensure(c, want),
             call[c].st \in {"idle", "calling"}, stored' = stored
      PROVE  /\ call'[e].st = "idle" => call'[e].want = NoRoute
             /\ call'[e].st = "calling" => call'[e].token # NoToken
  <2>1. CASE e = c
    BY <1>1, <2>1, EnsureStep DEF Usable
  <2>2. CASE e # c
    BY <1>1, <2>2, EnsureStep
  <2>. QED
    BY <2>1, <2>2
<1>2. ASSUME NEW c \in Caller, Quit(c)
      PROVE  /\ call'[e].st = "idle" => call'[e].want = NoRoute
             /\ call'[e].st = "calling" => call'[e].token # NoToken
  BY <1>0, <1>2 DEF Quit, Idle
<1>3. ASSUME NEW c \in Caller, NEW r \in Route \cup {NoRoute}, Ask(c, r)
      PROVE  /\ call'[e].st = "idle" => call'[e].want = NoRoute
             /\ call'[e].st = "calling" => call'[e].token # NoToken
  BY <1>1, <1>3 DEF Ask
<1>4. ASSUME NEW c \in Caller, Woken(c)
      PROVE  /\ call'[e].st = "idle" => call'[e].want = NoRoute
             /\ call'[e].st = "calling" => call'[e].token # NoToken
  BY <1>0, <1>4 DEF Woken, Send, Usable, CallType
<1>5. ASSUME NEW c \in Caller, NEW life \in Lives, NEW d \in 0 .. Timeout,
             NEW said \in Said, NEW skew \in Skews, FetchOk(c, life, d, said, skew)
      PROVE  /\ call'[e].st = "idle" => call'[e].want = NoRoute
             /\ call'[e].st = "calling" => call'[e].token # NoToken
  <2>2. stored' # NoToken
    BY <1>5, FetchedToken
  <2>. QED
    BY <1>0, <1>5, <2>2 DEF FetchOk, Send
<1>6. ASSUME NEW c \in Caller,
             \/ \E missing \in BOOLEAN : FetchFail(c, missing)
             \/ Cancel(c) \/ Reject(c) \/ \E ok \in BOOLEAN : CallEnds(c, ok)
      PROVE  /\ call'[e].st = "idle" => call'[e].want = NoRoute
             /\ call'[e].st = "calling" => call'[e].token # NoToken
  BY <1>2, <1>6 DEF FetchFail, Cancel, Reject, CallEnds
<1>7. ASSUME NEW c \in Caller, NEW known \in BOOLEAN, HatAnswered(c, known)
      PROVE  /\ call'[e].st = "idle" => call'[e].want = NoRoute
             /\ call'[e].st = "calling" => call'[e].token # NoToken
  BY <1>1, <1>2, <1>7 DEF HatAnswered
<1>8. CASE Tick
  <2>1. call'[e] = [call[e] EXCEPT !.token = Older(@),
                      !.timer = IF call[e].st \in {"fetching", "calling"} THEN @ - 1 ELSE @]
    BY <1>8 DEF Tick
  <2>2. call[e].token # NoToken => Older(call[e].token) # NoToken
    BY <1>0, NullAssumption DEF Older, CallType, Token
  <2>. QED
    BY <1>0, <2>1, <2>2 DEF CallType
<1>9. CASE Revoke
  <2>1. call'[e] = IF call[e].token = NoToken THEN call[e] ELSE [call[e] EXCEPT !.token.real = 0]
    BY <1>9 DEF Revoke
  <2>2. CASE call[e].token # NoToken
    <3>1. [call[e].token EXCEPT !.real = 0] \in Token
      BY <1>0, <2>2 DEF CallType, Token
    <3>2. call'[e].token = [call[e].token EXCEPT !.real = 0]
      BY <1>0, <2>1, <2>2 DEF CallType
    <3>. QED
      BY <1>0, <2>1, <2>2, <3>1, <3>2, NullAssumption DEF CallType, Token
  <2>. QED
    BY <2>1, <2>2
<1>10. CASE UNCHANGED vars
  BY <1>10 DEF vars
<1>. QED
  BY <1>3, <1>4, <1>5, <1>6, <1>7, <1>8, <1>9, <1>10 DEF Next, Advance

\* A usable token that is fit outlives the call it is sent with.
LEMMA UsableOutlives ==
  ASSUME stored \in Token \cup {NoToken}, Usable(stored), Sound, stored.fit
  PROVE  stored.real > Timeout
<1>1. stored \in Token /\ stored.left > Margin /\ stored.left <= stored.real + Margin - Timeout
  BY DEF Usable, Sound, Near
<1>2. stored.left \in Nat /\ stored.real \in Nat
  BY <1>1 DEF Token
<1>. QED
  BY <1>1, <1>2, SettingsAssumption

\* A token stays as near to the truth when it gets older, and loses one tick of its life.
LEMMA OlderSound ==
  ASSUME NEW t \in Token
  PROVE  LET o == Older(t) IN
         /\ o \in Token
         /\ o.fit = t.fit /\ (Near(t) => Near(o))
         /\ \A n \in Nat : t.real > n + 1 => o.real > n
<1>. DEFINE l == IF t.left = 0 THEN 0 ELSE t.left - 1
            r == IF t.real = 0 THEN 0 ELSE t.real - 1
<1>1. t.left \in Nat /\ t.real \in Nat /\ l \in Nat /\ r \in Nat
  BY DEF Token
<1>2. Older(t) = [left |-> l, real |-> r, fit |-> t.fit]
  BY NullAssumption DEF Older, Token
<1>3. t.left <= t.real + Margin - Timeout => l <= r + Margin - Timeout
  BY <1>1, SettingsAssumption
<1>4. \A n \in Nat : t.real > n + 1 => r > n
  BY <1>1
<1>. HIDE DEF l, r
<1>5. Older(t) \in Token /\ Older(t).left = l /\ Older(t).real = r /\ Older(t).fit = t.fit
  BY <1>1, <1>2 DEF Token
<1>. QED
  BY <1>3, <1>4, <1>5 DEF Near

\* No step rejects a caller more often than there are revocations.
LEMMA SettledStep == TypeOK /\ Locked /\ Holding /\ Settled /\ [Next]_vars => Settled'
<1>. SUFFICES ASSUME TypeOK, Locked, Holding, Settled, [Next]_vars, NEW e \in Caller
              PROVE  SettledAt(e)'
  BY DEF Settled
<1>. USE TypeParts, SettingsAssumption
<1>0. /\ call \in [Caller -> CallType] /\ call[e] \in CallType
      /\ rejected[e] \in Nat /\ revoked \in Nat /\ rejected \in [Caller -> 0 .. MaxRevoked + 1]
      /\ SettledAt(e)
  BY DEF Coroutines, TypeOK, Settled
<1>1. ASSUME NEW c \in Caller, NEW want \in Route \cup {NoRoute}, Ensure(c, want),
             call[c].st \in {"idle", "calling"}, UNCHANGED <<stored, revoked, rejected>>
      PROVE  SettledAt(e)'
  <2>1. CASE e = c
    <3>1. call'[c].st = "calling" =>
            Usable(stored) /\ call'[c].token = stored /\ call'[c].timer = Timeout
      BY <1>1, EnsureStep
    <3>. QED
      BY <1>0, <1>1, <2>1, <3>1, UsableOutlives DEF SettledAt, Sound
  <2>2. CASE e # c
    BY <1>0, <1>1, <2>2, EnsureStep DEF SettledAt, Sound
  <2>. QED
    BY <2>1, <2>2
<1>2. ASSUME NEW c \in Caller, Quit(c), stored' \in {stored, NoToken},
             UNCHANGED <<revoked, rejected>>
      PROVE  SettledAt(e)'
  <2>1. Sound => Sound'
    BY <1>2 DEF Sound
  <2>2. call'[e] = IF e = c THEN Idle ELSE call[e]
    BY <1>0, <1>2 DEF Quit
  <2>. QED
    BY <1>0, <1>2, <2>1, <2>2 DEF SettledAt, Idle
<1>3. ASSUME NEW c \in Caller, NEW r \in Route \cup {NoRoute}, Ask(c, r) PROVE SettledAt(e)'
  BY <1>1, <1>3 DEF Ask
<1>4. ASSUME NEW c \in Caller, Woken(c) PROVE SettledAt(e)'
  <2>1. UNCHANGED <<stored, revoked, rejected>>
    BY <1>4 DEF Woken
  <2>2. CASE Usable(stored) /\ e = c
    <3>1. call'[e] = [st |-> "calling", token |-> stored, timer |-> Timeout, want |-> call[c].want]
      BY <1>0, <1>4, <2>2 DEF Woken, Send
    <3>. QED
      BY <1>0, <2>1, <2>2, <3>1, UsableOutlives DEF SettledAt, Sound
  <2>3. CASE ~(Usable(stored) /\ e = c)
    <3>1. call'[e].st = "calling" => call'[e] = call[e]
      BY <1>0, <1>4, <2>3 DEF Woken, Send, CallType
    <3>. QED
      BY <1>0, <2>1, <3>1 DEF SettledAt, Sound
  <2>. QED
    BY <2>2, <2>3
<1>5. ASSUME NEW c \in Caller, NEW life \in Lives, NEW d \in 0 .. Timeout,
             NEW said \in Said, NEW skew \in Skews, FetchOk(c, life, d, said, skew)
      PROVE  SettledAt(e)'
  <2>1. /\ UNCHANGED <<revoked, rejected>>
        /\ call'[e] = IF e = c THEN [st |-> "calling", token |-> stored', timer |-> Timeout,
                                     want |-> call[c].want]
                      ELSE call[e]
    BY <1>0, <1>5 DEF FetchOk, Send
  <2>2. Near(stored') /\ (stored'.fit => stored'.real > Timeout)
    BY <1>5, FetchedToken
  <2>3. Sound'
    BY <2>2 DEF Sound, Near
  <2>. QED
    BY <1>0, <2>1, <2>2, <2>3 DEF SettledAt
<1>6. ASSUME NEW c \in Caller, NEW missing \in BOOLEAN, FetchFail(c, missing) PROVE SettledAt(e)'
  <2>1. stored' \in {stored, NoToken}
    BY <1>6 DEF FetchFail
  <2>. QED
    BY <1>2, <1>6, <2>1 DEF FetchFail
<1>7. ASSUME NEW c \in Caller, Cancel(c) \/ \E ok \in BOOLEAN : CallEnds(c, ok)
      PROVE  SettledAt(e)'
  BY <1>2, <1>7 DEF Cancel, CallEnds
<1>8. ASSUME NEW c \in Caller, Reject(c) PROVE SettledAt(e)'
  <2>1. CASE client = "mobiett"
    <3>1. stored' = NoToken /\ revoked' = revoked
      BY <1>8, <2>1 DEF Reject, Rejected
    <3>2. call'[e] = IF e = c THEN Idle ELSE call[e]
      BY <1>0, <1>8 DEF Reject, Quit
    <3>3. CASE e = c
      <4>1. call[c].token.real = 0 /\ call[c].st = "calling"
        BY <1>8 DEF Reject
      <4>2. call[c].timer \in Nat
        BY <1>0, <3>3 DEF CallType
      <4>3. call[c].token.fit => rejected[c] < revoked
        BY <1>0, <3>3, <4>1, <4>2 DEF SettledAt
      <4>4. rejected'[c] = IF call[c].token.fit THEN rejected[c] + 1 ELSE rejected[c]
        BY <1>0, <1>8, <2>1, <4>3, <3>3 DEF Reject
      <4>. QED
        BY <1>0, <3>1, <3>2, <3>3, <4>3, <4>4 DEF SettledAt, Sound, Idle
    <3>4. CASE e # c
      <4>1. rejected'[e] = rejected[e]
        BY <1>0, <1>8, <3>4 DEF Reject
      <4>. QED
        BY <1>0, <3>1, <3>2, <3>4, <4>1 DEF SettledAt, Sound
    <3>. QED
      BY <3>3, <3>4
  <2>2. CASE client # "mobiett"
    <3>1. stored' = stored /\ UNCHANGED <<revoked, rejected>>
      BY <1>8, <2>2 DEF Reject, Rejected
    <3>. QED
      BY <1>2, <1>8, <3>1 DEF Reject
  <2>. QED
    BY <2>1, <2>2
<1>9. ASSUME NEW c \in Caller, NEW known \in BOOLEAN, HatAnswered(c, known) PROVE SettledAt(e)'
  BY <1>1, <1>2, <1>9 DEF HatAnswered
<1>10. CASE Tick
  <2>1. UNCHANGED <<revoked, rejected>> /\ stored' = Older(stored)
    BY <1>10 DEF Tick
  <2>2. Sound => Sound'
    BY <2>1, OlderSound DEF Sound, Older
  <2>3. /\ call'[e].st = call[e].st /\ call'[e].token = Older(call[e].token)
        /\ call[e].st = "calling" => call[e].timer > 0 /\ call'[e].timer = call[e].timer - 1
    BY <1>0, <1>10 DEF Tick, CallType
  <2>4. call[e].st = "calling" => call[e].token \in Token /\ call[e].timer \in Nat
    BY <1>0 DEF Holding, CallType
  <2>5. ASSUME call[e].st = "calling", call[e].token.real > call[e].timer
        PROVE  Older(call[e].token).real > call[e].timer - 1
    <3>. DEFINE n == call[e].timer - 1
    <3>1. n \in Nat /\ call[e].token.real > n + 1
      BY <2>3, <2>4, <2>5
    <3>. HIDE DEF n
    <3>2. Older(call[e].token).real > n
      BY <2>4, <2>5, <3>1, OlderSound
    <3>. QED
      BY <3>2 DEF n
  <2>6. call[e].st = "calling" => call'[e].token.fit = call[e].token.fit
    BY <2>3, <2>4, OlderSound
  <2>. QED
    BY <1>0, <2>1, <2>2, <2>3, <2>5, <2>6 DEF SettledAt
<1>11. CASE Revoke
  BY <1>0, <1>11 DEF Revoke, SettledAt
<1>12. CASE UNCHANGED vars
  BY <1>0, <1>12 DEF vars, SettledAt, Sound
<1>. QED
  BY <1>3, <1>4, <1>5, <1>6, <1>7, <1>8, <1>9, <1>10, <1>11, <1>12 DEF Next, Advance

-----------------------------------------------------------------------------
(* The HAT_ID dict *)

Looking == {c \in Caller : call[c].want # NoRoute}

\* The room there is for ids and lookups.
HatLimit == MaxHat + Cardinality(Caller) - 1

LEMMA LookingFinite ==
  /\ IsFiniteSet(Looking) /\ Cardinality(Looking) \in Nat
  /\ Cardinality(Looking) <= Cardinality(Caller) /\ Cardinality(Caller) \in Nat
BY CallerAssumption, FS_Subset, FS_CardinalityType DEF Looking

\* Neither more ids nor more lookups.
LEMMA FewerLooking ==
  ASSUME hats \in Seq(Hat), HatBounded, hats' = hats, Looking' \subseteq Looking
  PROVE  HatBounded'
<1>1. Cardinality(Looking') <= Cardinality(Looking) /\ Cardinality(Looking') \in Nat
  BY LookingFinite, FS_Subset, FS_CardinalityType
<1>2. Len(hats) \in Nat
  BY LenProperties
<1>3. Len(hats) + Cardinality(Looking) <= HatLimit
  BY DEF HatBounded, Looking, HatLimit
<1>4. HatLimit \in Int
  BY LookingFinite, SettingsAssumption DEF HatLimit
<1>. HIDE DEF HatLimit, Looking
<1>5. Len(hats') + Cardinality(Looking') <= HatLimit
  BY <1>1, <1>2, <1>3, <1>4, LookingFinite
<1>. QED
  BY <1>5 DEF HatBounded, Looking, HatLimit

\* One more lookup, for which there is room, or takes the room of an id.
LEMMA OneMoreLooking ==
  ASSUME hats \in Seq(Hat), HatBounded, hats' = MakeRoom,
         NEW c \in Caller \ Looking, Looking' = Looking \cup {c}
  PROVE  HatBounded'
<1>1. Cardinality(Looking') = Cardinality(Looking) + 1
  BY LookingFinite, FS_AddElement
<1>2. Cardinality(Looking') <= Cardinality(Caller)
  <2>1. Looking' \in SUBSET Caller
    BY DEF Looking
  <2>. QED
    BY <2>1, CallerAssumption, FS_Subset
<1>3. Len(hats) + Cardinality(Looking) <= HatLimit
  BY DEF HatBounded, Looking, HatLimit
<1>4. Len(hats) \in Nat /\ Len(hats') = IF Len(hats) >= MaxHat THEN Len(hats) - 1 ELSE Len(hats)
  BY LenProperties, MakeRoomShape
<1>5. Len(hats') + Cardinality(Looking') <= HatLimit
  BY <1>1, <1>2, <1>3, <1>4, LookingFinite, SettingsAssumption DEF HatLimit
<1>. QED
  BY <1>5 DEF HatBounded, Looking, HatLimit

\* A lookup that becomes an id.
LEMMA LookedUp ==
  ASSUME hats \in Seq(Hat), HatBounded, hats' \in Seq(Hat), Len(hats') <= Len(hats) + 1,
         NEW c \in Looking, Looking' = Looking \ {c}
  PROVE  HatBounded'
<1>1. Cardinality(Looking') = Cardinality(Looking) - 1
  BY LookingFinite, FS_RemoveElement
<1>2. Len(hats) + Cardinality(Looking) <= HatLimit
  BY DEF HatBounded, Looking, HatLimit
<1>3. HatLimit \in Int /\ Len(hats) \in Nat /\ Len(hats') \in Nat
  BY LookingFinite, SettingsAssumption, LenProperties DEF HatLimit
<1>. HIDE DEF HatLimit, Looking
<1>4. Len(hats') + Cardinality(Looking') <= HatLimit
  BY <1>1, <1>2, <1>3, LookingFinite
<1>. QED
  BY <1>4 DEF HatBounded, Looking, HatLimit

\* Every step keeps the ids and the lookups within the limit.
LEMMA HatStep == TypeOK /\ Locked /\ Holding /\ HatBounded /\ [Next]_vars => HatBounded'
<1>. SUFFICES ASSUME TypeOK, Locked, Holding, HatBounded, [Next]_vars PROVE HatBounded'
  OBVIOUS
<1>. USE TypeParts
<1>0. call \in [Caller -> CallType]
  BY DEF Coroutines
<1>1. ASSUME hats' = hats, \A c \in Caller : call'[c].want \in {call[c].want, NoRoute}
      PROVE  HatBounded'
  BY <1>1, FewerLooking DEF Looking
<1>2. ASSUME NEW c \in Caller, Quit(c), hats' = hats PROVE HatBounded'
  BY <1>0, <1>1, <1>2 DEF Quit, Idle
<1>3. ASSUME NEW c \in Caller, NEW r \in Route \cup {NoRoute}, Ask(c, r) PROVE HatBounded'
  <2>. DEFINE want == IF Entry(r) # {} THEN NoRoute ELSE r
  <2>1. call'[c].want = want /\ \A d \in Caller \ {c} : call'[d] = call[d]
    BY <1>3, EnsureStep DEF Ask
  <2>2. c \notin Looking
    BY <1>3 DEF Ask, Holding, Looking
  <2>3. CASE r = NoRoute \/ Entry(r) # {}
    <3>1. hats' = hats /\ want = NoRoute
      BY <1>3, <2>3 DEF Ask
    <3>. QED
      BY <1>1, <2>1, <3>1
  <2>4. CASE r # NoRoute /\ Entry(r) = {}
    <3>1. hats' = MakeRoom
      BY <1>3, <2>4 DEF Ask
    <3>2. Looking' = Looking \cup {c}
      BY <2>1, <2>4 DEF Looking
    <3>. QED
      BY <2>2, <3>1, <3>2, OneMoreLooking
  <2>. QED
    BY <2>3, <2>4
<1>4. ASSUME NEW c \in Caller, Woken(c) PROVE HatBounded'
  <2>1. hats' = hats
    BY <1>4 DEF Woken
  <2>2. ASSUME NEW e \in Caller PROVE call'[e].want = call[e].want
    <3>1. CASE Usable(stored)
      BY <1>0, <1>4, <3>1 DEF Woken, Send
    <3>2. CASE ~Usable(stored)
      <4>1. call' = [call EXCEPT ![c].st = "fetching"]
        BY <1>4, <3>2 DEF Woken
      <4>. QED
        BY <1>0, <4>1 DEF CallType
    <3>. QED
      BY <3>1, <3>2
  <2>. QED
    BY <1>1, <2>1, <2>2
<1>5. ASSUME NEW c \in Caller, NEW life \in Lives, NEW d \in 0 .. Timeout,
             NEW said \in Said, NEW skew \in Skews, FetchOk(c, life, d, said, skew)
      PROVE  HatBounded'
  <2>1. hats' = hats /\ \A e \in Caller : call'[e].want = call[e].want
    BY <1>0, <1>5 DEF FetchOk, Send
  <2>. QED
    BY <1>1, <2>1
<1>6. ASSUME NEW c \in Caller,
             \/ \E missing \in BOOLEAN : FetchFail(c, missing)
             \/ Cancel(c) \/ Reject(c) \/ \E ok \in BOOLEAN : CallEnds(c, ok)
      PROVE  HatBounded'
  BY <1>2, <1>6 DEF FetchFail, Cancel, Reject, CallEnds
<1>7. ASSUME NEW c \in Caller, NEW known \in BOOLEAN, HatAnswered(c, known) PROVE HatBounded'
  <2>. DEFINE r == call[c].want
              h == [route |-> r, known |-> known]
  <2>1. r \in Route /\ h \in Hat /\ c \in Looking
    BY <1>0, <1>7 DEF HatAnswered, CallType, Hat, Looking
  <2>2. hats' \in Seq(Hat) /\ Len(hats') <= Len(hats) + 1
    BY <1>7, <2>1, HatStored DEF HatAnswered
  <2>3. call'[c].want = NoRoute /\ \A d \in Caller \ {c} : call'[d] = call[d]
    <3>1. CASE known
      BY <1>7, <3>1, EnsureStep DEF HatAnswered
    <3>2. CASE ~known
      BY <1>0, <1>7, <3>2 DEF HatAnswered, Quit, Idle
    <3>. QED
      BY <3>1, <3>2
  <2>4. Looking' = Looking \ {c}
    BY <2>3 DEF Looking
  <2>. QED
    BY <2>1, <2>2, <2>4, LookedUp
<1>8. CASE Tick
  BY <1>0, <1>1, <1>8 DEF Tick, CallType
<1>9. CASE Revoke
  BY <1>0, <1>1, <1>9 DEF Revoke, CallType
<1>10. CASE UNCHANGED vars
  BY <1>1, <1>10 DEF vars
<1>. QED
  BY <1>3, <1>4, <1>5, <1>6, <1>7, <1>8, <1>9, <1>10 DEF Next, Advance

-----------------------------------------------------------------------------
(* The theorems *)

LEMMA InitIInv == Init => IInv
<1>. SUFFICES ASSUME Init PROVE IInv
  OBVIOUS
<1>. USE SettingsAssumption
<1>1. <<>> \in Seq(Caller) /\ IsInjective(<<>>) /\ Range(<<>>) = {} /\ <<>> \in Seq(Hat) /\ Len(<<>>) = 0
  BY EmptySeq DEF IsInjective, Range
<1>2. TypeOK
  BY <1>1, IdleType DEF Init, TypeOK, CallType, Hat
<1>3. Locked /\ Holding /\ Settled
  BY <1>1 DEF Init, Locked, Holding, Settled, SettledAt, Sound, Idle
<1>4. HatBounded
  <2>1. Looking = {}
    BY DEF Init, Looking, Idle
  <2>2. Cardinality(Looking) = 0
    BY <2>1, FS_EmptySet
  <2>3. Len(hats) + Cardinality(Looking) <= HatLimit
    BY <1>1, <2>2, LookingFinite DEF Init, HatLimit
  <2>. QED
    BY <2>3 DEF HatBounded, Looking, HatLimit
<1>. QED
  BY <1>2, <1>3, <1>4 DEF IInv

\* The invariant that the properties below follow from is inductive.
THEOREM Inductive == Spec => []IInv
<1>1. IInv /\ [Next]_vars => IInv'
  BY TypeStep, HoldingStep, SettledStep, HatStep DEF IInv
<1>. QED
  BY <1>1, InitIInv, PTL DEF Spec

\* Every variable of the token cache stays in its domain.
THEOREM TypeCorrect == Spec => []TypeOK
<1>1. IInv => TypeOK
  BY DEF IInv
<1>. QED
  BY <1>1, Inductive, PTL

\* The second check inside the lock works: nobody asks for a token while a usable one is
\* cached, and no two ask at once, whatever is cancelled, fails or is rejected
\* (ntcapi_client.py:55, mobiett_client.py).
THEOREM FetchesAreNeeded == Spec => []NoNeedlessFetch
<1>1. IInv => NoNeedlessFetch
  BY DEF IInv, Locked, NoNeedlessFetch
<1>. QED
  BY <1>1, Inductive, PTL

\* The margin pays for the call that uses a token and for an error in its believed lifetime
\* of up to the margin less one timeout, whatever the lifetimes, clocks and timeouts: without
\* revocations no call outlives a fit token.
THEOREM MarginSuffices == Spec => []TokenOutlivesCall
<1>1. IInv => TokenOutlivesCall
  <2>. SUFFICES ASSUME IInv, revoked = 0, NEW c \in Caller, call[c].st = "calling",
                       call[c].token.fit
                PROVE  call[c].token.real > 0
    BY DEF TokenOutlivesCall
  <2>1. /\ SettledAt(c) /\ rejected[c] \in Nat /\ call[c].timer \in Nat
        /\ call[c].token \in Token
    BY DEF IInv, Settled, TypeOK, Holding
  <2>2. call[c].token.real > call[c].timer /\ call[c].token.real \in Nat
    BY <2>1 DEF SettledAt, Token
  <2>. QED
    BY <2>1, <2>2
<1>. QED
  BY <1>1, Inductive, PTL

\* What is fit: a margin of two timeouts makes every token so that is granted for more than
\* two timeouts and stated by expires_in, and, in ntcapi, by an expire_date that is read and
\* whose clock is ahead by at most the margin less one timeout; the assumed hour is fit
\* for a token that has that much less than an hour left.
THEOREM StatedTokensAreFit ==
  ASSUME NEW life \in Lives, life > 2 * Timeout, NEW d \in 0 .. Timeout,
         NEW said \in Said, NEW skew \in Skews
  PROVE  /\ said = "expires_in" => Fit(life, Believed(life, life - d, said, skew), life - d)
         /\ (said = "expire_date" /\ client = "ntcapi" /\ skew <= Margin - Timeout
             /\ life - d + skew \in Margin .. Day)
              => Fit(life, Believed(life, life - d, said, skew), life - d)
         /\ said = "nothing" /\ life - d >= Hour - (Margin - Timeout)
              => Fit(life, Believed(life, life - d, said, skew), life - d)
<1>1. life \in Nat /\ life - d \in Int /\ skew \in Int
  BY SettingsAssumption
<1>2. ASSUME said = "expires_in"
      PROVE  Fit(life, Believed(life, life - d, said, skew), life - d)
  <2>1. Believed(life, life - d, said, skew) = life
    BY <1>2 DEF Believed
  <2>2. Fit(life, life, life - d)
    BY <1>1, SettingsAssumption DEF Fit
  <2>. QED
    BY <2>1, <2>2
<1>3. ASSUME said = "expire_date", client = "ntcapi", skew <= Margin - Timeout,
             life - d + skew \in Margin .. Day
      PROVE  Fit(life, Believed(life, life - d, said, skew), life - d)
  <2>1. Believed(life, life - d, said, skew) = life - d + skew
    BY <1>3 DEF Believed
  <2>2. Fit(life, life - d + skew, life - d)
    BY <1>1, <1>3, SettingsAssumption DEF Fit
  <2>. QED
    BY <2>1, <2>2
<1>4. ASSUME said = "nothing", life - d >= Hour - (Margin - Timeout)
      PROVE  Fit(life, Believed(life, life - d, said, skew), life - d)
  <2>1. Believed(life, life - d, said, skew) = Hour
    BY <1>4 DEF Believed
  <2>2. Fit(life, Hour, life - d)
    BY <1>1, <1>4, SettingsAssumption DEF Fit
  <2>. QED
    BY <2>1, <2>2
<1>. QED
  BY <1>2, <1>3, <1>4

\* A revocation costs each caller of the Mobiett client one 401 for a fit token at most, in
\* whichever order late rejections and fetches come.
THEOREM NoRejectionStorm == Spec => []RejectedOnce
<1>1. IInv => RejectedOnce
  BY DEF IInv, Settled, SettledAt, RejectedOnce
<1>. QED
  BY <1>1, Inductive, PTL

\* The HAT_ID dict exceeds its room by the concurrent lookups at most, for any size and
\* any number of callers.
THEOREM HatIdsBounded == Spec => []HatBounded
<1>1. IInv => HatBounded
  BY DEF IInv
<1>. QED
  BY <1>1, Inductive, PTL

\* Nobody waits at a lock that is free or that its holder forgot: while a caller waits, the
\* head of the queue is at its token request or ready to go on, also after failures and
\* cancellations (utils/lock.py:10-15; the safety that CallsEnd rests on).
THEOREM LockIsNotOrphaned ==
  Spec => [](\A c \in Caller : call[c].st = "queued" =>
               queue # <<>> /\ Head(queue) \in Caller
               /\ call[Head(queue)].st \in {"queued", "fetching"})
<1>1. IInv => \A c \in Caller : call[c].st = "queued" =>
                queue # <<>> /\ Head(queue) \in Caller
                /\ call[Head(queue)].st \in {"queued", "fetching"}
  <2>. SUFFICES ASSUME IInv, NEW c \in Caller, call[c].st = "queued"
                PROVE  queue # <<>> /\ Head(queue) \in Caller
                       /\ call[Head(queue)].st \in {"queued", "fetching"}
    OBVIOUS
  <2>1. queue \in Seq(Caller) /\ c \in Range(queue)
    BY DEF IInv, TypeOK, Locked
  <2>2. queue # <<>>
    BY <2>1, RangeEquality
  <2>3. Head(queue) \in Range(queue) /\ Head(queue) \in Caller
    <3>1. Len(queue) \in Nat /\ Len(queue) # 0 /\ Head(queue) = queue[1]
      BY <2>1, <2>2, HeadTailProperties, EmptySeq, LenProperties
    <3>2. Range(queue) = {queue[j] : j \in 1 .. Len(queue)}
      BY <2>1, RangeEquality
    <3>. QED
      BY <2>1, <2>2, <3>1, <3>2, HeadTailProperties
  <2>. QED
    BY <2>2, <2>3 DEF IInv, Locked
<1>. QED
  BY <1>1, Inductive, PTL

=============================================================================
