-------------------------- MODULE SoapRouterProofs ---------------------------
(***************************************************************************)
(* Proofs about SoapRouter, for any callers, proxies and settings: type    *)
(* correctness; what concurrent callers leave of the quota, the isolation  *)
(* and the spacing of a gateway; and, for one caller at a time, the quota  *)
(* itself, which rests on the isolation and the spacing.                   *)
(***************************************************************************)
EXTENDS SoapRouter, SequenceTheorems, FiniteSetTheorems, WellFoundedInduction, TLAPS

\* the oldest calls come first
Chronological(ages) == \A i, j \in 1 .. Len(ages) : i <= j => ages[i] >= ages[j]

\* order lists each proxy once
Ordered == order \in Seq(Proxy) /\ IsInjective(order) /\ Range(order) = Proxy

Types ==
  /\ directHealthy \in BOOLEAN
  /\ sinceDirectFailure \in 0 .. ProbeInterval
  /\ healthy \in [Proxy -> BOOLEAN]
  /\ sinceFailure \in [Proxy -> 0 .. Cooldown]
  /\ sinceCall \in [Proxy -> 0 .. MinInterval]
  /\ history \in [Proxy -> Seq(0 .. Window)]
  /\ pc \in [Caller -> {"idle", "direct", "probe", "sleep", "proxy"}]
  /\ via \in [Caller -> Proxy \cup {NoProxy}]
  /\ wait \in [Caller -> 0 .. MinInterval]
  /\ excluded \in [Caller -> SUBSET Proxy]
  /\ sent \in [Proxy -> Seq(0 .. Window)]
  /\ aborts \in 0 .. MaxAborts

\* lists of calls are chronological; what is kept of the requests sent is young
Lists ==
  \A p \in Proxy :
    /\ Chronological(history[p]) /\ Chronological(sent[p])
    /\ \A i \in 1 .. Len(sent[p]) : Young(sent[p][i])

\* a caller holds a proxy while it sleeps for it and while it calls it
Selected == \A c \in Caller : via[c] # NoProxy <=> pc[c] \in {"sleep", "proxy"}

\* callers that hold p selected: each will add to its history unless its call fails
Holding(p) == {c \in Caller : via[c] = p}

\* what a gateway has answered and may still answer
Booked ==
  \A p \in Proxy :
    Len(history[p]) + Cardinality(Holding(p)) < MaxPerWindow + Cardinality(Caller)

IInv == Types /\ Ordered /\ Len(order) = Cardinality(Proxy) /\ Lists /\ Selected /\ Booked

-----------------------------------------------------------------------------
(* Lists and queues *)

\* A nonempty set of natural numbers has a least element.
LEMMA NatLeast ==
  ASSUME NEW S \in SUBSET Nat, S # {}
  PROVE  \E m \in S : \A n \in S : m <= n
<1>1. PICK m \in S : \A n \in S : ~(<<n, m>> \in OpToRel(<, Nat))
  BY NatLessThanWellFounded, WFMin
<1>2. \A n \in S : ~(n < m)
  BY <1>1 DEF OpToRel
<1>. QED
  BY <1>2

\* A function on 1 .. n is a sequence of length n.
LEMMA FunctionAsSeq ==
  ASSUME NEW T, NEW n \in Nat, NEW t \in [1 .. n -> T]
  PROVE  t \in Seq(T) /\ Len(t) = n
<1>1. t \in Seq(T)
  BY SeqDef
<1>2. Len(t) \in Nat /\ 1 .. Len(t) = 1 .. n
  BY <1>1, LenProperties
<1>3. Len(t) \in 1 .. Len(t) \/ Len(t) = 0
  BY <1>2
<1>4. n \in 1 .. n \/ n = 0
  OBVIOUS
<1>. QED
  BY <1>1, <1>2, <1>3, <1>4

\* RemoveFirst takes an element out of an injective sequence and keeps the order.
LEMMA LeaveQueue ==
  ASSUME NEW S, NEW q \in Seq(S), IsInjective(q), NEW c
  PROVE  LET r == RemoveFirst(q, c) IN
         /\ r \in Seq(S) /\ IsInjective(r)
         /\ Len(r) = IF c \in Range(q) THEN Len(q) - 1 ELSE Len(q)
         /\ Range(r) = Range(q) \ {c}
         /\ q # <<>> /\ Head(q) # c => r # <<>> /\ Head(r) = Head(q)
<1>0. Range(q) = {q[j] : j \in 1 .. Len(q)} /\ \A m, n \in 1 .. Len(q) : q[m] = q[n] => m = n
  BY RangeEquality DEF IsInjective
<1>1. CASE \A i \in 1 .. Len(q) : q[i] # c
  BY <1>0, <1>1 DEF RemoveFirst
<1>2. CASE \E i \in 1 .. Len(q) : q[i] = c
  <2>1. PICK i \in 1 .. Len(q) : q[i] = c
    BY <1>2
  <2>2. {k \in 1 .. Len(q) : q[k] = c} = {i}
    BY <1>0, <2>1
  <2>3. RemoveFirst(q, c) = RemoveAt(q, i)
    BY <2>1, <2>2 DEF RemoveFirst, SelectInSeq, Min
  <2>. DEFINE a == SubSeq(q, 1, i - 1)
              b == SubSeq(q, i + 1, Len(q))
              r == a \o b
  <2>4. a \in Seq(S) /\ Len(a) = i - 1 /\ \A j \in 1 .. i - 1 : a[j] = q[j]
    BY SubSeqProperties
  <2>5. b \in Seq(S) /\ Len(b) = Len(q) - i /\ \A j \in 1 .. Len(q) - i : b[j] = q[i + j]
    BY SubSeqProperties
  <2>6. RemoveFirst(q, c) = r
    BY <2>3 DEF RemoveAt
  <2>. HIDE DEF a, b
  <2>7. /\ r \in Seq(S) /\ Len(r) = Len(a) + Len(b)
        /\ \A j \in 1 .. Len(a) + Len(b) : r[j] = IF j <= Len(a) THEN a[j] ELSE b[j - Len(a)]
    BY <2>4, <2>5, ConcatProperties
  <2>. HIDE DEF r
  <2>8. Len(r) = Len(q) - 1 /\ \A j \in 1 .. Len(r) : r[j] = IF j < i THEN q[j] ELSE q[j + 1]
    <3>1. Len(r) = Len(q) - 1
      BY <2>4, <2>5, <2>7
    <3>2. ASSUME NEW j \in 1 .. Len(r), j < i PROVE r[j] = q[j]
      <4>1. j \in 1 .. Len(a) + Len(b) /\ j <= Len(a) /\ j \in 1 .. i - 1
        BY <3>1, <3>2, <2>4, <2>5
      <4>. QED
        BY <4>1, <2>4, <2>7
    <3>3. ASSUME NEW j \in 1 .. Len(r), j >= i PROVE r[j] = q[j + 1]
      <4>1. j \in 1 .. Len(a) + Len(b) /\ ~(j <= Len(a)) /\ j - Len(a) \in 1 .. Len(q) - i
        BY <3>1, <3>3, <2>4, <2>5
      <4>2. i + (j - Len(a)) = j + 1
        BY <2>4
      <4>. QED
        BY <4>1, <4>2, <2>5, <2>7
    <3>. QED
      BY <3>1, <3>2, <3>3
  <2>9. IsInjective(r)
    <3>. SUFFICES ASSUME NEW j \in 1 .. Len(r), NEW k \in 1 .. Len(r), r[j] = r[k] PROVE j = k
      BY <2>7 DEF IsInjective
    <3>. QED
      BY <1>0, <2>8
  <2>10. Range(r) = Range(q) \ {c}
    <3>1. \A j \in 1 .. Len(r) : r[j] \in Range(q) \ {c}
      <4>. TAKE j \in 1 .. Len(r)
      <4>1. PICK k \in 1 .. Len(q) : k # i /\ r[j] = q[k]
        BY <2>8
      <4>. QED
        BY <1>0, <2>1, <4>1
    <3>2. \A j \in 1 .. Len(q) : q[j] = c \/ \E k \in 1 .. Len(r) : r[k] = q[j]
      <4>. TAKE j \in 1 .. Len(q)
      <4>1. CASE j < i
        BY <4>1, <2>8
      <4>2. CASE j > i
        <5>1. j - 1 \in 1 .. Len(r) /\ r[j - 1] = q[j]
          BY <4>2, <2>8
        <5>. QED
          BY <5>1
      <4>. QED
        BY <4>1, <4>2, <2>1
    <3>3. Range(r) = {r[j] : j \in 1 .. Len(r)}
      BY <2>7, RangeEquality
    <3>. QED
      BY <1>0, <3>1, <3>2, <3>3
  <2>11. q # <<>> /\ Head(q) # c => r # <<>> /\ Head(r) = Head(q)
    BY <2>1, <2>7, <2>8
  <2>. QED
    BY <1>0, <2>1, <2>6, <2>7, <2>8, <2>9, <2>10, <2>11
<1>. QED
  BY <1>1, <1>2

\* An injective sequence with one more element.
LEMMA AppendQueue ==
  ASSUME NEW S, NEW q \in Seq(S), IsInjective(q), NEW c \in S, c \notin Range(q)
  PROVE  LET r == Append(q, c) IN
         /\ r \in Seq(S) /\ IsInjective(r) /\ Range(r) = Range(q) \cup {c}
         /\ Head(r) = IF q = <<>> THEN c ELSE Head(q)
<1>. DEFINE r == Append(q, c)
<1>1. /\ r \in Seq(S) /\ Len(r) = Len(q) + 1 /\ r[Len(q) + 1] = c
      /\ \A i \in 1 .. Len(q) : r[i] = q[i]
  BY AppendProperties
<1>2. Head(r) = IF q = <<>> THEN c ELSE Head(q)
  BY HeadTailAppend
<1>. HIDE DEF r
<1>3. Range(q) = {q[i] : i \in 1 .. Len(q)} /\ Range(r) = {r[i] : i \in 1 .. Len(r)}
  BY <1>1, RangeEquality
<1>4. \A m, n \in 1 .. Len(q) : q[m] = q[n] => m = n
  BY DEF IsInjective
<1>5. IsInjective(r)
  BY <1>1, <1>3, <1>4 DEF IsInjective
<1>. QED
  BY <1>1, <1>2, <1>3, <1>5 DEF r

-----------------------------------------------------------------------------
(* What the helpers of the model do *)

LEMMA Settings ==
  /\ ProbeInterval \in Nat /\ Cooldown \in Nat /\ MinInterval \in Nat /\ MaxAborts \in Nat
  /\ MaxPerWindow \in Nat \ {0} /\ Window \in Nat \ {0}
BY SettingsAssumption

LEMMA LeastOf ==
  ASSUME NEW S \in SUBSET Nat, S # {}
  PROVE  Least(S) \in S /\ \A n \in S : Least(S) <= n
<1>1. PICK m \in S : \A n \in S : m <= n
  BY NatLeast
<1>. QED
  BY <1>1 DEF Least

\* What is recent of a chronological list is its end, and all of it that is young.
LEMMA RecentShape ==
  ASSUME NEW T \in SUBSET Nat, NEW s \in Seq(T), Chronological(s)
  PROVE  LET r == Recent(s)
             k == Len(s) - Len(r)
         IN  /\ r \in Seq(T) /\ k \in 0 .. Len(s) /\ Chronological(r)
             /\ \A i \in 1 .. Len(r) : r[i] = s[i + k] /\ Young(r[i])
             /\ \A i \in 1 .. k : ~Young(s[i])
<1>. DEFINE n == Len(s)
            Later == {i \in 1 .. n + 1 : i = n + 1 \/ Young(s[i])}
            Old == {i \in DOMAIN s : ~Young(s[i])}
<1>1. n \in Nat /\ DOMAIN s = 1 .. n /\ \A i \in 1 .. n : s[i] \in T
  BY LenProperties, ElementOfSeq
<1>2. PICK m \in Later : \A i \in Later : m <= i
  <2>1. n + 1 \in Later /\ Later \in SUBSET Nat
    BY <1>1
  <2>. QED
    BY <2>1, NatLeast
<1>3. m \in 1 .. n + 1 /\ \A i \in 1 .. n : i < m <=> ~Young(s[i])
  <2>1. m \in 1 .. n + 1
    BY <1>2
  <2>2. ASSUME NEW i \in 1 .. n, i < m PROVE ~Young(s[i])
    <3>1. i \notin Later /\ i \in 1 .. n + 1
      BY <1>1, <1>2, <2>1, <2>2
    <3>. QED
      BY <3>1
  <2>3. ASSUME NEW i \in 1 .. n, ~(i < m) PROVE Young(s[i])
    <3>1. m \in 1 .. n /\ m <= i
      BY <1>1, <2>1, <2>3
    <3>2. Young(s[m])
      BY <1>1, <1>2, <3>1
    <3>3. s[m] >= s[i]
      BY <3>1 DEF Chronological
    <3>4. s[m] \in Nat /\ s[i] \in Nat
      BY <1>1, <3>1
    <3>. QED
      BY <3>2, <3>3, <3>4, Settings DEF Young
  <2>. QED
    BY <2>1, <2>2, <2>3
<1>4. Old = 1 .. (m - 1)
  BY <1>1, <1>3
<1>5. Cardinality(Old) = m - 1
  <2>1. m - 1 \in Int /\ m - 1 >= 0 /\ (m - 1) - 1 + 1 = m - 1 /\ (1 > m - 1 => m - 1 = 0)
    BY <1>1, <1>3
  <2>2. Cardinality(1 .. (m - 1)) = IF 1 > m - 1 THEN 0 ELSE (m - 1) - 1 + 1
    BY <2>1, FS_Interval
  <2>. QED
    BY <1>4, <2>1, <2>2
<1>. DEFINE r == SubSeq(s, m, n)
<1>6. Recent(s) = r
  <2>1. Cardinality(Old) + 1 = m
    BY <1>1, <1>3, <1>5
  <2>. QED
    BY <2>1 DEF Recent
<1>7. /\ r \in Seq(T) /\ Len(r) = n - (m - 1)
      /\ \A i \in 1 .. Len(r) : r[i] = s[i + (m - 1)]
  <2>1. m \in Int /\ n \in Int /\ \A i \in m .. n : s[i] \in T
    BY <1>1, <1>3
  <2>2. /\ r \in Seq(T) /\ Len(r) = IF m <= n THEN n - m + 1 ELSE 0
        /\ \A i \in 1 .. n - m + 1 : r[i] = s[m + i - 1]
    BY <2>1, SubSeqProperties
  <2>. HIDE DEF r
  <2>3. Len(r) = n - (m - 1)
    BY <1>1, <1>3, <2>2
  <2>4. \A i \in 1 .. Len(r) : m + i - 1 = i + (m - 1) /\ i \in 1 .. n - m + 1
    BY <1>1, <1>3, <2>3
  <2>. QED
    BY <2>2, <2>3, <2>4
<1>. HIDE DEF r, Old, Later
<1>8. n - Len(r) = m - 1 /\ m - 1 \in 0 .. n
  BY <1>1, <1>3, <1>7
<1>9. ASSUME NEW i \in 1 .. Len(r)
      PROVE  i + (m - 1) \in 1 .. n /\ r[i] = s[i + (m - 1)] /\ Young(r[i])
  <2>1. i + (m - 1) \in 1 .. n /\ ~(i + (m - 1) < m)
    BY <1>1, <1>3, <1>7
  <2>. QED
    BY <1>3, <1>7, <2>1
<1>10. Chronological(r)
  <2>. SUFFICES ASSUME NEW i \in 1 .. Len(r), NEW j \in 1 .. Len(r), i <= j
                PROVE  r[i] >= r[j]
    BY DEF Chronological
  <2>1. i + (m - 1) <= j + (m - 1)
    BY <1>3
  <2>. QED
    BY <1>9, <2>1 DEF Chronological
<1>11. \A i \in 1 .. m - 1 : ~Young(s[i])
  BY <1>1, <1>3
<1>. QED
  BY <1>6, <1>7, <1>8, <1>9, <1>10, <1>11

\* A call made now is the youngest of its list.
LEMMA OneMore ==
  ASSUME NEW s \in Seq(0 .. Window), Chronological(s)
  PROVE  LET r == Append(s, 0) IN
         /\ r \in Seq(0 .. Window) /\ Chronological(r) /\ Len(r) = Len(s) + 1
         /\ \A i \in 1 .. Len(s) : r[i] = s[i]
         /\ r[Len(s) + 1] = 0
<1>. DEFINE r == Append(s, 0)
<1>1. 0 \in 0 .. Window
  BY Settings
<1>2. /\ r \in Seq(0 .. Window) /\ Len(r) = Len(s) + 1
      /\ \A i \in 1 .. Len(s) : r[i] = s[i]
      /\ r[Len(s) + 1] = 0
  BY <1>1, AppendProperties
<1>. HIDE DEF r
<1>3. \A i \in 1 .. Len(r) : r[i] \in 0 .. Window
  BY <1>2, ElementOfSeq
<1>4. Chronological(r)
  <2>. SUFFICES ASSUME NEW i \in 1 .. Len(r), NEW j \in 1 .. Len(r), i <= j PROVE r[i] >= r[j]
    BY DEF Chronological
  <2>1. CASE j = Len(s) + 1
    <3>1. r[j] = 0 /\ r[i] \in 0 .. Window
      BY <1>2, <1>3, <2>1
    <3>. QED
      BY <3>1, Settings
  <2>2. CASE j # Len(s) + 1
    <3>1. i \in 1 .. Len(s) /\ j \in 1 .. Len(s)
      BY <1>2, <2>2, LenProperties
    <3>. QED
      BY <1>2, <3>1 DEF Chronological
  <2>. QED
    BY <2>1, <2>2
<1>. QED
  BY <1>2, <1>4 DEF r

\* A list gets older without changing its order, with or without a cap.
LEMMA Ageing ==
  ASSUME NEW s \in Seq(0 .. Window), Chronological(s)
  PROVE  LET r == [i \in DOMAIN s |-> s[i] + 1]
             h == [i \in DOMAIN s |-> Older(s[i], Window)]
         IN  /\ r \in Seq(Nat) /\ Len(r) = Len(s) /\ Chronological(r)
             /\ h \in Seq(0 .. Window) /\ Len(h) = Len(s) /\ Chronological(h)
             /\ \A i \in 1 .. Len(s) : r[i] = s[i] + 1 /\ h[i] <= s[i] + 1
<1>. DEFINE n == Len(s)
            r == [i \in 1 .. n |-> s[i] + 1]
            h == [i \in 1 .. n |-> Older(s[i], Window)]
<1>1. n \in Nat /\ DOMAIN s = 1 .. n /\ \A i \in 1 .. n : s[i] \in 0 .. Window
  BY LenProperties, ElementOfSeq
<1>2. \A i \in 1 .. n : s[i] + 1 \in Nat
  BY <1>1, Settings
<1>3. \A i \in 1 .. n : Older(s[i], Window) \in 0 .. Window /\ Older(s[i], Window) <= s[i] + 1
  BY <1>1, Settings DEF Older
<1>4. r \in [1 .. n -> Nat] /\ h \in [1 .. n -> 0 .. Window]
  BY <1>2, <1>3
<1>. HIDE DEF n
<1>5. r \in Seq(Nat) /\ Len(r) = n
  BY <1>1, <1>4, FunctionAsSeq
<1>6. h \in Seq(0 .. Window) /\ Len(h) = n
  BY <1>1, <1>4, FunctionAsSeq
<1>7. \A i, j \in 1 .. n : i <= j => s[i] >= s[j]
  BY DEF Chronological, n
<1>8. \A i, j \in 1 .. n : i <= j => r[i] >= r[j]
  BY <1>1, <1>7, Settings
<1>9. \A i, j \in 1 .. n : i <= j => h[i] >= h[j]
  BY <1>1, <1>7, Settings DEF Older
<1>10. Chronological(r) /\ Chronological(h)
  BY <1>5, <1>6, <1>8, <1>9 DEF Chronological
<1>11. \A i \in 1 .. n : r[i] = s[i] + 1 /\ h[i] <= s[i] + 1
  BY <1>3
<1>. QED
  BY <1>1, <1>5, <1>6, <1>10, <1>11 DEF n

\* The spacing is part of the interval, and ends it.
LEMMA SpacingShape ==
  ASSUME Types, NEW p \in Proxy
  PROVE  Spacing(p) \in 0 .. MinInterval /\ sinceCall[p] + Spacing(p) >= MinInterval
BY Settings DEF Types, Spacing

\* The best of the ready proxies is one of them.
LEMMA BestReady ==
  ASSUME Types, Ordered, NEW excl, Ready(excl) # {}
  PROVE  Best(Ready(excl)) \in Ready(excl)
<1>. DEFINE ready == Ready(excl)
            spaces == {Spacing(q) : q \in ready}
            wanted == {p \in ready : Spacing(p) = Least(spaces)}
            places == {i \in DOMAIN order : order[i] \in wanted}
<1>1. ready \subseteq Proxy
  BY DEF Ready, Candidates
<1>2. spaces \in SUBSET Nat /\ spaces # {}
  BY <1>1, SpacingShape, Settings
<1>3. Least(spaces) \in spaces
  BY <1>2, LeastOf
<1>4. PICK p \in wanted : TRUE
  BY <1>3
<1>5. places \in SUBSET Nat /\ places # {}
  <2>1. p \in Range(order)
    BY <1>1, <1>4 DEF Ordered
  <2>2. PICK i \in DOMAIN order : order[i] = p
    BY <2>1 DEF Range
  <2>3. DOMAIN order \subseteq Nat
    BY LenProperties DEF Ordered
  <2>. QED
    BY <1>4, <2>2, <2>3
<1>6. Least(places) \in places
  BY <1>5, LeastOf
<1>7. Best(ready) = order[Least(places)]
  BY DEF Best
<1>. QED
  BY <1>6, <1>7

\* The history of a proxy after a purge.
LEMMA PurgedShape ==
  ASSUME Types, Lists, NEW p \in Proxy
  PROVE  /\ Purged(p) \in Seq(0 .. Window) /\ Chronological(Purged(p))
         /\ Len(Purged(p)) \in Nat /\ Len(Purged(p)) <= Len(history[p])
<1>1. history[p] \in Seq(0 .. Window) /\ Chronological(history[p]) /\ 0 .. Window \in SUBSET Nat
  BY Settings DEF Types, Lists
<1>2. /\ Purged(p) \in Seq(0 .. Window) /\ Chronological(Purged(p))
      /\ Len(history[p]) - Len(Purged(p)) \in 0 .. Len(history[p])
  BY <1>1, RecentShape DEF Purged
<1>3. Len(history[p]) \in Nat /\ Len(Purged(p)) \in Nat
  BY <1>1, <1>2, LenProperties
<1>. QED
  BY <1>2, <1>3

\* One turn of the proxy loop: it gives up, or one ready proxy is selected.
LEMMA PoolStep ==
  ASSUME Types, Ordered, Lists, NEW c \in Caller, NEW excl, Pool(c, excl)
  PROVE  /\ history' \in [Proxy -> Seq(0 .. Window)]
         /\ \A p \in Proxy : /\ history'[p] = IF p \in Candidates(excl) THEN Purged(p) ELSE history[p]
                             /\ Chronological(history'[p]) /\ Len(history'[p]) <= Len(history[p])
         /\ \/ Leave(c) /\ sent' = sent
            \/ \E p \in Ready(excl) :
                 /\ via' = [via EXCEPT ![c] = p]
                 /\ excluded' = [excluded EXCEPT ![c] = excl]
                 /\ wait' = [wait EXCEPT ![c] = Spacing(p)]
                 /\ \/ Spacing(p) > 0 /\ pc' = [pc EXCEPT ![c] = "sleep"] /\ sent' = sent
                    \/ Spacing(p) = 0 /\ pc' = [pc EXCEPT ![c] = "proxy"] /\ Sent(p)
<1>1. history' = [p \in Proxy |-> IF p \in Candidates(excl) THEN Purged(p) ELSE history[p]]
  BY DEF Pool
<1>2. ASSUME NEW p \in Proxy
      PROVE  /\ history'[p] \in Seq(0 .. Window) /\ Chronological(history'[p])
             /\ Len(history'[p]) <= Len(history[p])
  <2>1. history[p] \in Seq(0 .. Window) /\ Chronological(history[p]) /\ Len(history[p]) \in Nat
    BY LenProperties DEF Types, Lists
  <2>. QED
    BY <1>1, <2>1, PurgedShape
<1>3. history' \in [Proxy -> Seq(0 .. Window)]
  BY <1>1, <1>2
<1>4. CASE Ready(excl) = {}
  BY <1>1, <1>2, <1>3, <1>4 DEF Pool
<1>5. CASE Ready(excl) # {}
  <2>. DEFINE p == Best(Ready(excl))
  <2>1. p \in Ready(excl)
    BY <1>5, BestReady
  <2>2. /\ via' = [via EXCEPT ![c] = p]
        /\ excluded' = [excluded EXCEPT ![c] = excl]
        /\ wait' = [wait EXCEPT ![c] = Spacing(p)]
        /\ IF Spacing(p) > 0
           THEN pc' = [pc EXCEPT ![c] = "sleep"] /\ sent' = sent
           ELSE pc' = [pc EXCEPT ![c] = "proxy"] /\ Sent(p)
    BY <1>5 DEF Pool
  <2>3. ~(Spacing(p) > 0) => Spacing(p) = 0
    <3>1. p \in Proxy
      BY <2>1 DEF Ready, Candidates
    <3>. QED
      BY <3>1, SpacingShape, Settings
  <2>. HIDE DEF p
  <2>. QED
    BY <1>1, <1>2, <1>3, <2>1, <2>2, <2>3
<1>. QED
  BY <1>4, <1>5

\* A request is added to those of its gateway.
LEMMA SentStep ==
  ASSUME Types, Lists, NEW p \in Proxy, Sent(p)
  PROVE  /\ sent' \in [Proxy -> Seq(0 .. Window)]
         /\ \A q \in Proxy : /\ Chronological(sent'[q])
                             /\ \A i \in 1 .. Len(sent'[q]) : Young(sent'[q][i])
<1>1. sent[p] \in Seq(0 .. Window) /\ Chronological(sent[p])
  BY DEF Types, Lists
<1>2. /\ sent'[p] \in Seq(0 .. Window) /\ Chronological(sent'[p]) /\ Len(sent'[p]) = Len(sent[p]) + 1
      /\ \A i \in 1 .. Len(sent[p]) : sent'[p][i] = sent[p][i]
      /\ sent'[p][Len(sent[p]) + 1] = 0
  <2>1. sent'[p] = Append(sent[p], 0)
    BY DEF Sent, Types
  <2>. QED
    BY <1>1, <2>1, OneMore
<1>3. \A q \in Proxy \ {p} : sent'[q] = sent[q]
  BY DEF Sent, Types
<1>4. sent' \in [Proxy -> Seq(0 .. Window)]
  <2>1. sent' = [sent EXCEPT ![p] = sent'[p]]
    BY DEF Sent, Types
  <2>. QED
    BY <1>2, <2>1 DEF Types
<1>5. ASSUME NEW i \in 1 .. Len(sent'[p]) PROVE Young(sent'[p][i])
  <2>1. CASE i = Len(sent[p]) + 1
    BY <1>2, <2>1, Settings DEF Young
  <2>2. CASE i # Len(sent[p]) + 1
    <3>1. i \in 1 .. Len(sent[p])
      BY <1>1, <1>2, <2>2, LenProperties
    <3>. QED
      BY <1>2, <3>1 DEF Lists
  <2>. QED
    BY <2>1, <2>2
<1>. QED
  BY <1>2, <1>3, <1>4, <1>5 DEF Lists

\* Any set of callers is finite.
LEMMA Callers ==
  ASSUME NEW T \in SUBSET Caller, NEW S \in SUBSET T
  PROVE  /\ IsFiniteSet(S) /\ Cardinality(S) \in Nat /\ Cardinality(T) \in Nat
         /\ Cardinality(Caller) \in Nat
         /\ Cardinality(S) <= Cardinality(T) /\ Cardinality(T) <= Cardinality(Caller)
<1>1. IsFiniteSet(Caller)
  BY CallerAssumption
<1>2. IsFiniteSet(T) /\ Cardinality(T) <= Cardinality(Caller)
  BY <1>1, FS_Subset
<1>3. IsFiniteSet(S) /\ Cardinality(S) <= Cardinality(T)
  BY <1>2, FS_Subset
<1>. QED
  BY <1>1, <1>2, <1>3, FS_CardinalityType

\* A quota is not overrun further by a step that records nothing and selects nothing.
LEMMA NoFurther ==
  ASSUME IInv, NEW p \in Proxy, history'[p] \in Seq(0 .. Window),
         Len(history'[p]) <= Len(history[p]), Holding(p)' \subseteq Holding(p)
  PROVE  Len(history'[p]) + Cardinality(Holding(p)') < MaxPerWindow + Cardinality(Caller)
<1>1. Holding(p) \in SUBSET Caller
  BY DEF Holding
<1>2. /\ Cardinality(Holding(p)') \in Nat /\ Cardinality(Holding(p)) \in Nat
      /\ Cardinality(Caller) \in Nat /\ Cardinality(Holding(p)') <= Cardinality(Holding(p))
  BY <1>1, Callers
<1>3. Len(history[p]) \in Nat /\ Len(history'[p]) \in Nat
  BY LenProperties DEF IInv, Types
<1>4. Len(history[p]) + Cardinality(Holding(p)) < MaxPerWindow + Cardinality(Caller)
  BY DEF IInv, Booked
<1>. QED
  BY <1>2, <1>3, <1>4, Settings

\* A caller that leaves holds nothing.
LEMMA LeaveStep ==
  ASSUME IInv, NEW c \in Caller, Leave(c)
  PROVE  /\ pc' \in [Caller -> {"idle", "direct", "probe", "sleep", "proxy"}]
         /\ via' \in [Caller -> Proxy \cup {NoProxy}]
         /\ wait' \in [Caller -> 0 .. MinInterval]
         /\ excluded' \in [Caller -> SUBSET Proxy]
         /\ Selected'
         /\ \A p \in Proxy : Holding(p)' = Holding(p) \ {c}
<1>1. 0 \in 0 .. MinInterval
  BY Settings
<1>2. /\ pc' \in [Caller -> {"idle", "direct", "probe", "sleep", "proxy"}]
      /\ via' \in [Caller -> Proxy \cup {NoProxy}]
      /\ wait' \in [Caller -> 0 .. MinInterval]
      /\ excluded' \in [Caller -> SUBSET Proxy]
  BY <1>1 DEF IInv, Types, Leave
<1>3. /\ pc'[c] = "idle" /\ via'[c] = NoProxy
      /\ \A d \in Caller \ {c} : pc'[d] = pc[d] /\ via'[d] = via[d]
  BY DEF IInv, Types, Leave
<1>4. Selected'
  BY <1>3 DEF IInv, Selected
<1>5. \A p \in Proxy : Holding(p)' = Holding(p) \ {c}
  BY <1>3, ProxyAssumption DEF Holding
<1>. QED
  BY <1>2, <1>4, <1>5

\* A turn of the proxy loop keeps the invariant.
LEMMA PoolKeeps ==
  ASSUME IInv, NEW c \in Caller, NEW excl \in SUBSET Proxy, Pool(c, excl),
         directHealthy' \in BOOLEAN, sinceDirectFailure' \in 0 .. ProbeInterval,
         healthy' \in [Proxy -> BOOLEAN], sinceFailure' \in [Proxy -> 0 .. Cooldown],
         UNCHANGED <<callVars, aborts>>
  PROVE  IInv'
<1>0. Types /\ Ordered /\ Lists
  BY DEF IInv
<1>1. /\ history' \in [Proxy -> Seq(0 .. Window)]
      /\ \A p \in Proxy : /\ history'[p] = IF p \in Candidates(excl) THEN Purged(p) ELSE history[p]
                          /\ Chronological(history'[p]) /\ Len(history'[p]) <= Len(history[p])
  BY <1>0, PoolStep
<1>2. Ordered' /\ (Len(order) = Cardinality(Proxy))'
  BY DEF IInv, Ordered, callVars
<1>3. CASE Leave(c) /\ sent' = sent
  <2>1. \A p \in Proxy : Holding(p)' = Holding(p) \ {c}
    BY <1>3, LeaveStep
  <2>2. ASSUME NEW p \in Proxy
        PROVE  Len(history'[p]) + Cardinality(Holding(p)') < MaxPerWindow + Cardinality(Caller)
    <3>1. Holding(p)' \subseteq Holding(p) /\ history'[p] \in Seq(0 .. Window)
      BY <1>1, <2>1
    <3>. QED
      BY <1>1, <3>1, NoFurther
  <2>3. Booked'
    BY <2>2 DEF Booked
  <2>4. Lists'
    BY <1>0, <1>1, <1>3 DEF Lists
  <2>5. Types'
    BY <1>0, <1>1, <1>3, LeaveStep DEF Types, callVars
  <2>. QED
    BY <1>2, <1>3, <2>3, <2>4, <2>5, LeaveStep DEF IInv
<1>4. ASSUME NEW p \in Ready(excl),
             via' = [via EXCEPT ![c] = p],
             excluded' = [excluded EXCEPT ![c] = excl],
             wait' = [wait EXCEPT ![c] = Spacing(p)],
             \/ Spacing(p) > 0 /\ pc' = [pc EXCEPT ![c] = "sleep"] /\ sent' = sent
             \/ Spacing(p) = 0 /\ pc' = [pc EXCEPT ![c] = "proxy"] /\ Sent(p)
      PROVE  IInv'
  <2>1. p \in Proxy /\ p \in Candidates(excl) /\ Len(Purged(p)) < MaxPerWindow
    BY DEF Ready, Candidates
  <2>2. /\ sent' \in [Proxy -> Seq(0 .. Window)]
        /\ \A q \in Proxy : /\ Chronological(sent'[q])
                            /\ \A i \in 1 .. Len(sent'[q]) : Young(sent'[q][i])
    <3>1. CASE sent' = sent
      BY <1>0, <3>1 DEF Types, Lists
    <3>2. CASE Sent(p)
      BY <1>0, <2>1, <3>2, SentStep
    <3>. QED
      BY <1>4, <3>1, <3>2
  <2>3. Lists'
    BY <1>1, <2>2 DEF Lists
  <2>4. pc' \in [Caller -> {"idle", "direct", "probe", "sleep", "proxy"}] /\ pc'[c] \in {"sleep", "proxy"}
    BY <1>0, <1>4 DEF Types
  <2>5. Types'
    <3>1. Spacing(p) \in 0 .. MinInterval
      BY <1>0, <2>1, SpacingShape
    <3>2. /\ via' \in [Caller -> Proxy \cup {NoProxy}]
          /\ excluded' \in [Caller -> SUBSET Proxy]
          /\ wait' \in [Caller -> 0 .. MinInterval]
      BY <1>0, <1>4, <2>1, <3>1 DEF Types
    <3>. QED
      BY <1>0, <1>1, <2>2, <2>4, <3>2 DEF Types, callVars
  <2>6. /\ via'[c] = p
        /\ \A d \in Caller \ {c} : pc'[d] = pc[d] /\ via'[d] = via[d]
    BY <1>0, <1>4 DEF Types
  <2>7. Selected'
    BY <2>1, <2>4, <2>6, ProxyAssumption DEF IInv, Selected
  <2>8. ASSUME NEW q \in Proxy
        PROVE  Len(history'[q]) + Cardinality(Holding(q)') < MaxPerWindow + Cardinality(Caller)
    <3>1. history'[q] \in Seq(0 .. Window)
      BY <1>1
    <3>2. CASE q = p
      <4>1. Holding(q)' \in SUBSET Caller
        BY DEF Holding
      <4>2. /\ Cardinality(Holding(q)') \in Nat /\ Cardinality(Caller) \in Nat
            /\ Cardinality(Holding(q)') <= Cardinality(Caller)
        BY <4>1, Callers
      <4>3. Len(history'[q]) < MaxPerWindow /\ Len(history'[q]) \in Nat
        BY <1>1, <2>1, <3>1, <3>2, LenProperties
      <4>. QED
        BY <4>2, <4>3, Settings
    <3>3. CASE q # p
      <4>1. Holding(q)' \subseteq Holding(q)
        BY <2>6, <3>3 DEF Holding
      <4>. QED
        BY <1>1, <3>1, <4>1, NoFurther
    <3>. QED
      BY <3>2, <3>3
  <2>9. Booked'
    BY <2>8 DEF Booked
  <2>. QED
    BY <1>2, <2>3, <2>5, <2>7, <2>9 DEF IInv
<1>. QED
  BY <1>0, <1>3, <1>4, PoolStep

-----------------------------------------------------------------------------
(* The inductive invariant *)

\* A successful call is recorded: the caller that held the proxy makes room for it.
LEMMA RecordStep ==
  ASSUME IInv, NEW c \in Caller, ProxyOk(c)
  PROVE  IInv'
<1>1. PICK p \in Proxy : p = via[c] /\ c \in Holding(p)
  BY DEF IInv, Types, Selected, ProxyOk, Holding
<1>2. /\ healthy' = [healthy EXCEPT ![p] = TRUE]
      /\ sinceCall' = [sinceCall EXCEPT ![p] = 0]
      /\ history' = [history EXCEPT ![p] = Append(history[p], 0)]
      /\ order' = Append(RemoveFirst(order, p), p)
      /\ Leave(c) /\ UNCHANGED <<directVars, sinceFailure, sent, aborts>>
  BY <1>1 DEF IInv, Types, ProxyOk
<1>3. history[p] \in Seq(0 .. Window) /\ Chronological(history[p])
  BY <1>1 DEF IInv, Types, Lists
<1>4. /\ history'[p] \in Seq(0 .. Window) /\ Chronological(history'[p])
      /\ Len(history'[p]) = Len(history[p]) + 1
  <2>1. history'[p] = Append(history[p], 0)
    BY <1>1, <1>2 DEF IInv, Types
  <2>. QED
    BY <1>3, <2>1, OneMore
<1>5. \A q \in Proxy \ {p} : history'[q] = history[q]
  BY <1>2 DEF IInv, Types
<1>6. history' \in [Proxy -> Seq(0 .. Window)]
  <2>1. history' = [history EXCEPT ![p] = history'[p]]
    BY <1>1, <1>2 DEF IInv, Types
  <2>. QED
    BY <1>4, <2>1 DEF IInv, Types
<1>7. Types'
  <2>1. 0 \in 0 .. MinInterval
    BY Settings
  <2>2. healthy' \in [Proxy -> BOOLEAN] /\ sinceCall' \in [Proxy -> 0 .. MinInterval]
    BY <1>2, <2>1 DEF IInv, Types
  <2>. QED
    BY <1>2, <1>6, <2>2, LeaveStep DEF IInv, Types, directVars
<1>8. Lists'
  BY <1>2, <1>4, <1>5 DEF IInv, Lists
<1>9. Ordered' /\ (Len(order) = Cardinality(Proxy))'
  <2>. DEFINE r == RemoveFirst(order, p)
  <2>1. order \in Seq(Proxy) /\ IsInjective(order) /\ Range(order) = Proxy
    BY DEF IInv, Ordered
  <2>2. /\ r \in Seq(Proxy) /\ IsInjective(r)
        /\ Len(r) = IF p \in Range(order) THEN Len(order) - 1 ELSE Len(order)
        /\ Range(r) = Range(order) \ {p}
    BY <2>1, LeaveQueue
  <2>. HIDE DEF r
  <2>3. /\ Append(r, p) \in Seq(Proxy) /\ IsInjective(Append(r, p))
        /\ Range(Append(r, p)) = Range(r) \cup {p}
    BY <1>1, <2>1, <2>2, AppendQueue
  <2>4. Len(Append(r, p)) = Len(r) + 1
    BY <1>1, <2>2, AppendProperties
  <2>5. Len(Append(r, p)) = Len(order)
    BY <1>1, <2>1, <2>2, <2>4, LenProperties
  <2>6. order' = Append(r, p)
    BY <1>2 DEF r
  <2>. QED
    BY <1>1, <2>1, <2>2, <2>3, <2>5, <2>6 DEF IInv, Ordered
<1>10. \A q \in Proxy : Holding(q)' = Holding(q) \ {c}
  BY <1>2, LeaveStep
<1>11. ASSUME NEW q \in Proxy
       PROVE  Len(history'[q]) + Cardinality(Holding(q)') < MaxPerWindow + Cardinality(Caller)
  <2>1. CASE q # p
    <3>1. Holding(q)' \subseteq Holding(q) /\ history'[q] = history[q]
      BY <1>5, <1>10, <2>1
    <3>2. history[q] \in Seq(0 .. Window) /\ Len(history[q]) \in Nat
      BY LenProperties DEF IInv, Types
    <3>. QED
      BY <3>1, <3>2, NoFurther
  <2>2. CASE q = p
    <3>1. Holding(p) \in SUBSET Caller
      BY DEF Holding
    <3>2. IsFiniteSet(Holding(p)) /\ Cardinality(Holding(p)) \in Nat /\ Cardinality(Caller) \in Nat
      BY <3>1, Callers
    <3>3. Cardinality(Holding(p)') = Cardinality(Holding(p)) - 1
      BY <1>1, <1>10, <3>2, FS_RemoveElement
    <3>4. Len(history[p]) + Cardinality(Holding(p)) < MaxPerWindow + Cardinality(Caller)
      BY <1>1 DEF IInv, Booked
    <3>. QED
      BY <1>3, <1>4, <2>2, <3>2, <3>3, <3>4, LenProperties, Settings
  <2>. QED
    BY <2>1, <2>2
<1>12. Booked'
  BY <1>11 DEF Booked
<1>. QED
  BY <1>2, <1>7, <1>8, <1>9, <1>12, LeaveStep DEF IInv

\* A caller that leaves without recording anything: DirectOk and Abort.
LEMMA LeaveKeeps ==
  ASSUME IInv, NEW c \in Caller, Leave(c), directHealthy' \in BOOLEAN, aborts' \in 0 .. MaxAborts,
         UNCHANGED <<sinceDirectFailure, healthVars, callVars, history, sent>>
  PROVE  IInv'
<1>1. Types'
  BY LeaveStep DEF IInv, Types, healthVars, callVars
<1>2. Ordered' /\ (Len(order) = Cardinality(Proxy))' /\ Lists'
  BY DEF IInv, Ordered, Lists, callVars
<1>3. ASSUME NEW p \in Proxy
      PROVE  Len(history'[p]) + Cardinality(Holding(p)') < MaxPerWindow + Cardinality(Caller)
  <2>1. Holding(p)' \subseteq Holding(p)
    BY LeaveStep
  <2>2. history[p] \in Seq(0 .. Window) /\ Len(history[p]) \in Nat
    BY LenProperties DEF IInv, Types
  <2>. QED
    BY <2>1, <2>2, NoFurther
<1>4. Booked'
  BY <1>3 DEF Booked
<1>. QED
  BY <1>1, <1>2, <1>4, LeaveStep DEF IInv

\* A caller wakes up and calls the proxy it holds.
LEMMA AwakeKeeps ==
  ASSUME IInv, NEW c \in Caller, Awake(c)
  PROVE  IInv'
<1>1. /\ pc[c] = "sleep" /\ pc' = [pc EXCEPT ![c] = "proxy"] /\ Sent(via[c])
      /\ UNCHANGED <<directVars, healthVars, callVars, history, via, wait, excluded, aborts>>
  BY DEF Awake
<1>2. via[c] \in Proxy
  BY <1>1 DEF IInv, Types, Selected
<1>3. /\ sent' \in [Proxy -> Seq(0 .. Window)]
      /\ \A q \in Proxy : /\ Chronological(sent'[q])
                          /\ \A i \in 1 .. Len(sent'[q]) : Young(sent'[q][i])
  BY <1>1, <1>2, SentStep DEF IInv
<1>4. Types'
  BY <1>1, <1>3 DEF IInv, Types, directVars, healthVars, callVars
<1>5. Ordered' /\ (Len(order) = Cardinality(Proxy))'
  BY <1>1 DEF IInv, Ordered, callVars
<1>6. Lists'
  BY <1>1, <1>3 DEF IInv, Lists
<1>7. Selected'
  BY <1>1 DEF IInv, Types, Selected
<1>8. Booked'
  BY <1>1 DEF IInv, Booked, Holding
<1>. QED
  BY <1>4, <1>5, <1>6, <1>7, <1>8 DEF IInv

\* The lists of a proxy when time passes: sent loses its oldest ends.
LEMMA TickLists ==
  ASSUME IInv, Tick, NEW p \in Proxy
  PROVE  /\ history'[p] \in Seq(0 .. Window) /\ Chronological(history'[p])
         /\ Len(history'[p]) = Len(history[p])
         /\ \A i \in 1 .. Len(history[p]) : history'[p][i] <= history[p][i] + 1
         /\ sent'[p] \in Seq(0 .. Window) /\ Chronological(sent'[p])
         /\ Len(sent[p]) - Len(sent'[p]) \in 0 .. Len(sent[p])
         /\ \A i \in 1 .. Len(sent'[p]) :
              /\ Young(sent'[p][i])
              /\ sent'[p][i] = sent[p][i + (Len(sent[p]) - Len(sent'[p]))] + 1
<1>. DEFINE s == sent[p]
            r == [i \in DOMAIN s |-> s[i] + 1]
            h == [i \in DOMAIN history[p] |-> Older(history[p][i], Window)]
<1>1. s \in Seq(0 .. Window) /\ Chronological(s) /\ history[p] \in Seq(0 .. Window) /\ Chronological(history[p])
  BY DEF IInv, Types, Lists
<1>2. history'[p] = h /\ sent'[p] = Recent(r)
  BY DEF Tick
<1>3. /\ h \in Seq(0 .. Window) /\ Len(h) = Len(history[p]) /\ Chronological(h)
      /\ \A i \in 1 .. Len(history[p]) : h[i] <= history[p][i] + 1
  BY <1>1, Ageing
<1>4. /\ r \in Seq(Nat) /\ Len(r) = Len(s) /\ Chronological(r)
      /\ \A i \in 1 .. Len(s) : r[i] = s[i] + 1
  BY <1>1, Ageing
<1>. HIDE DEF r, h
<1>. DEFINE t == Recent(r)
            k == Len(r) - Len(t)
<1>5. /\ t \in Seq(Nat) /\ k \in 0 .. Len(r) /\ Chronological(t)
      /\ \A i \in 1 .. Len(t) : t[i] = r[i + k] /\ Young(t[i])
  BY <1>4, RecentShape
<1>. HIDE DEF t
<1>6. Len(t) \in Nat /\ Len(r) \in Nat /\ \A i \in 1 .. Len(t) : t[i] \in Nat
  BY <1>4, <1>5, LenProperties, ElementOfSeq
<1>7. ASSUME NEW i \in 1 .. Len(t) PROVE t[i] \in 0 .. Window
  <2>1. t[i] \in Nat /\ t[i] < Window
    BY <1>5, <1>6 DEF Young
  <2>. QED
    BY <2>1, Settings
<1>8. t \in Seq(0 .. Window)
  <2>1. t \in [1 .. Len(t) -> Nat]
    BY <1>5, LenProperties
  <2>2. t \in [1 .. Len(t) -> 0 .. Window]
    BY <1>7, <2>1
  <2>. QED
    BY <1>6, <2>2, FunctionAsSeq
<1>9. \A i \in 1 .. Len(t) : t[i] = s[i + k] + 1
  <2>1. \A i \in 1 .. Len(t) : i + k \in 1 .. Len(s)
    BY <1>4, <1>5, <1>6
  <2>. QED
    BY <1>4, <1>5, <2>1
<1>10. sent'[p] = t
  BY <1>2 DEF t
<1>. QED
  BY <1>2, <1>3, <1>4, <1>5, <1>8, <1>9, <1>10

\* Time passes.
LEMMA TickKeeps ==
  ASSUME IInv, Tick
  PROVE  IInv'
<1>1. UNCHANGED <<directHealthy, healthy, order, pc, via, excluded, aborts>>
  BY DEF Tick
<1>2. ASSUME NEW n \in Nat, NEW a \in 0 .. n PROVE Older(a, n) \in 0 .. n
  BY DEF Older
<1>3. /\ sinceDirectFailure' \in 0 .. ProbeInterval
      /\ sinceFailure' \in [Proxy -> 0 .. Cooldown]
      /\ sinceCall' \in [Proxy -> 0 .. MinInterval]
  BY <1>2, Settings DEF IInv, Types, Tick
<1>4. wait' \in [Caller -> 0 .. MinInterval]
  BY Settings DEF IInv, Types, Tick
<1>5. history' \in [Proxy -> Seq(0 .. Window)] /\ sent' \in [Proxy -> Seq(0 .. Window)]
  <2>1. /\ history' = [p \in Proxy |-> history'[p]]
        /\ sent' = [p \in Proxy |-> sent'[p]]
    BY DEF Tick
  <2>. QED
    BY <2>1, TickLists
<1>6. Types'
  BY <1>1, <1>3, <1>4, <1>5 DEF IInv, Types
<1>7. Lists'
  BY TickLists DEF Lists
<1>8. Ordered' /\ (Len(order) = Cardinality(Proxy))' /\ Selected'
  BY <1>1 DEF IInv, Ordered, Selected
<1>9. Booked'
  <2>1. \A p \in Proxy : Len(history'[p]) = Len(history[p]) /\ Holding(p)' = Holding(p)
    BY <1>1, TickLists DEF Holding
  <2>. QED
    BY <2>1 DEF IInv, Booked
<1>. QED
  BY <1>6, <1>7, <1>8, <1>9 DEF IInv

LEMMA InitIInv == Init => IInv
<1>. SUFFICES ASSUME Init PROVE IInv
  OBVIOUS
<1>1. Cardinality(Proxy) \in Nat /\ ExistsBijection(1 .. Cardinality(Proxy), Proxy)
  BY ProxyAssumption, FS_CardinalityType
<1>2. order \in [1 .. Cardinality(Proxy) -> Proxy] /\ IsInjective(order)
  <2>1. PICK f \in Injection(1 .. Cardinality(Proxy), Proxy) : TRUE
    BY <1>1 DEF ExistsBijection, Bijection
  <2>2. f \in [1 .. Cardinality(Proxy) -> Proxy] /\ IsInjective(f)
    BY <2>1 DEF Injection
  <2>. QED
    BY <2>2 DEF Init, SetToSeq
<1>3. order \in Seq(Proxy) /\ Len(order) = Cardinality(Proxy)
  BY <1>1, <1>2, FunctionAsSeq
<1>4. Range(order) = Proxy
  <2>. DEFINE D == 1 .. Cardinality(Proxy)
  <2>1. order \in Injection(D, Proxy)
    BY <1>2 DEF Injection, IsInjective
  <2>2. Cardinality(D) = Cardinality(Proxy)
    BY <1>1, ProxyAssumption, FS_Bijection, FS_SameCardinalityBij, FS_Interval
  <2>3. order \in Surjection(D, Proxy)
    BY <2>1, <2>2, ProxyAssumption, FS_Injection
  <2>. QED
    BY <1>2, <2>3 DEF Surjection, Range
<1>5. <<>> \in Seq(0 .. Window) /\ Len(<<>>) = 0
  BY EmptySeq
<1>6. /\ 0 \in 0 .. MinInterval /\ 0 \in 0 .. MaxAborts /\ ProbeInterval \in 0 .. ProbeInterval
      /\ Cooldown \in 0 .. Cooldown /\ MinInterval \in 0 .. MinInterval
  BY Settings
<1>7. Types
  BY <1>5, <1>6 DEF Init, Types
<1>8. Lists
  BY <1>5 DEF Init, Lists, Chronological
<1>9. Selected
  BY DEF Init, Selected
<1>10. Booked
  <2>. SUFFICES ASSUME NEW p \in Proxy
                PROVE  Len(history[p]) + Cardinality(Holding(p)) < MaxPerWindow + Cardinality(Caller)
    BY DEF Booked
  <2>1. Holding(p) \in SUBSET Caller
    BY DEF Holding
  <2>2. Cardinality(Holding(p)) \in Nat /\ Cardinality(Caller) \in Nat /\ Cardinality(Holding(p)) <= Cardinality(Caller)
    BY <2>1, Callers
  <2>3. Len(history[p]) = 0
    BY <1>5 DEF Init
  <2>. QED
    BY <2>2, <2>3, Settings
<1>. QED
  BY <1>2, <1>3, <1>4, <1>7, <1>8, <1>9, <1>10 DEF IInv, Ordered

LEMMA Step == IInv /\ [Next]_vars => IInv'
<1>. SUFFICES ASSUME IInv, [Next]_vars PROVE IInv'
  OBVIOUS
<1>0. 0 \in 0 .. ProbeInterval /\ 0 \in 0 .. Cooldown
  BY Settings
<1>1. CASE Tick
  BY <1>1, TickKeeps
<1>2. ASSUME NEW c \in Caller, StartDirect(c) PROVE IInv'
  <2>1. /\ pc[c] = "idle" /\ pc' = [pc EXCEPT ![c] = IF directHealthy THEN "direct" ELSE "probe"]
        /\ UNCHANGED <<directVars, healthVars, callVars, history, via, wait, excluded, sent, aborts>>
    BY <1>2 DEF StartDirect
  <2>2. Types'
    BY <2>1 DEF IInv, Types, directVars, healthVars, callVars
  <2>3. Ordered' /\ (Len(order) = Cardinality(Proxy))' /\ Lists'
    BY <2>1 DEF IInv, Ordered, Lists, callVars
  <2>4. Selected'
    BY <2>1 DEF IInv, Types, Selected
  <2>5. Booked'
    BY <2>1 DEF IInv, Booked, Holding
  <2>. QED
    BY <2>2, <2>3, <2>4, <2>5 DEF IInv
<1>3. ASSUME NEW c \in Caller, StartPool(c) PROVE IInv'
  <2>1. Pool(c, {}) /\ {} \in SUBSET Proxy /\ UNCHANGED <<directVars, healthVars, callVars, aborts>>
    BY <1>3 DEF StartPool
  <2>. QED
    BY <2>1, PoolKeeps DEF IInv, Types, directVars, healthVars
<1>4. ASSUME NEW c \in Caller, DirectOk(c) PROVE IInv'
  <2>1. /\ Leave(c) /\ directHealthy' = (directHealthy \/ pc[c] = "probe")
        /\ UNCHANGED <<sinceDirectFailure, healthVars, callVars, history, sent, aborts>>
    BY <1>4 DEF DirectOk
  <2>2. directHealthy' \in BOOLEAN /\ aborts' \in 0 .. MaxAborts
    BY <2>1 DEF IInv, Types
  <2>. QED
    BY <2>1, <2>2, LeaveKeeps
<1>5. ASSUME NEW c \in Caller, DirectFail(c) PROVE IInv'
  <2>1. /\ Pool(c, {}) /\ {} \in SUBSET Proxy /\ UNCHANGED <<healthVars, callVars, aborts>>
        /\ directHealthy' = FALSE /\ sinceDirectFailure' = 0
    BY <1>5 DEF DirectFail
  <2>. QED
    BY <1>0, <2>1, PoolKeeps DEF IInv, Types, healthVars
<1>6. ASSUME NEW c \in Caller, Awake(c) PROVE IInv'
  BY <1>6, AwakeKeeps
<1>7. ASSUME NEW c \in Caller, ProxyOk(c) PROVE IInv'
  BY <1>7, RecordStep
<1>8. ASSUME NEW c \in Caller, ProxyFail(c) PROVE IInv'
  <2>1. /\ Pool(c, excluded[c] \cup {via[c]}) /\ UNCHANGED <<directVars, callVars, aborts>>
        /\ healthy' = [healthy EXCEPT ![via[c]] = FALSE]
        /\ sinceFailure' = [sinceFailure EXCEPT ![via[c]] = 0]
        /\ pc[c] = "proxy"
    BY <1>8 DEF ProxyFail
  <2>2. excluded[c] \cup {via[c]} \in SUBSET Proxy
    BY <2>1 DEF IInv, Types, Selected
  <2>3. /\ healthy' \in [Proxy -> BOOLEAN] /\ sinceFailure' \in [Proxy -> 0 .. Cooldown]
        /\ directHealthy' \in BOOLEAN /\ sinceDirectFailure' \in 0 .. ProbeInterval
    BY <1>0, <2>1 DEF IInv, Types, directVars
  <2>. QED
    BY <2>1, <2>2, <2>3, PoolKeeps
<1>9. ASSUME NEW c \in Caller, Abort(c) PROVE IInv'
  <2>1. /\ Leave(c) /\ aborts < MaxAborts /\ aborts' = aborts + 1
        /\ UNCHANGED <<directVars, healthVars, callVars, history, sent>>
    BY <1>9 DEF Abort
  <2>2. aborts' \in 0 .. MaxAborts
    BY <2>1, Settings DEF IInv, Types
  <2>3. directHealthy' \in BOOLEAN /\ UNCHANGED sinceDirectFailure
    BY <2>1 DEF IInv, Types, directVars
  <2>. QED
    BY <2>1, <2>2, <2>3, LeaveKeeps
<1>10. CASE UNCHANGED vars
  BY <1>10 DEF vars, directVars, healthVars, callVars, IInv, Types, Ordered, Lists, Selected,
               Booked, Holding
<1>. QED
  BY <1>1, <1>2, <1>3, <1>4, <1>5, <1>6, <1>7, <1>8, <1>9, <1>10 DEF Next, Start, Proceed

\* IInv holds in every state the router can reach.
THEOREM Inductive == Spec => []IInv
BY InitIInv, Step, PTL DEF Spec

-----------------------------------------------------------------------------
(* Counting the requests of the last n units of time *)

LEMMA UpTo == ASSUME NEW n \in Nat PROVE IsFiniteSet(1 .. n) /\ Cardinality(1 .. n) = n
<1>1. 1 \in Int /\ n \in Int
  OBVIOUS
<1>2. IsFiniteSet(1 .. n) /\ Cardinality(1 .. n) = IF 1 > n THEN 0 ELSE n - 1 + 1
  BY <1>1, FS_Interval
<1>3. (IF 1 > n THEN 0 ELSE n - 1 + 1) = n
  OBVIOUS
<1>. QED
  BY <1>2, <1>3

LEMMA LatelySet ==
  ASSUME NEW s \in Seq(Nat), NEW n \in Nat
  PROVE  LET S == {i \in DOMAIN s : s[i] < n}
         IN  /\ Len(s) \in Nat /\ DOMAIN s = 1 .. Len(s) /\ \A i \in DOMAIN s : s[i] \in Nat
             /\ IsFiniteSet(S) /\ Lately(s, n) = Cardinality(S)
             /\ Lately(s, n) \in Nat /\ Lately(s, n) <= Len(s)
<1>. DEFINE S == {i \in DOMAIN s : s[i] < n}
<1>1. Len(s) \in Nat /\ DOMAIN s = 1 .. Len(s) /\ \A i \in DOMAIN s : s[i] \in Nat
  BY LenProperties, ElementOfSeq
<1>2. IsFiniteSet(1 .. Len(s)) /\ Cardinality(1 .. Len(s)) = Len(s) /\ S \subseteq 1 .. Len(s)
  BY <1>1, UpTo
<1>3. IsFiniteSet(S) /\ Cardinality(S) <= Len(s)
  BY <1>2, FS_Subset
<1>4. Cardinality(S) \in Nat
  BY <1>3, FS_CardinalityType
<1>. QED
  BY <1>1, <1>3, <1>4 DEF Lately

\* Ages are natural numbers.
LEMMA AgesAreNat == ASSUME NEW s \in Seq(0 .. Window) PROVE s \in Seq(Nat)
<1>1. s \in [1 .. Len(s) -> Nat] /\ Len(s) \in Nat
  BY LenProperties, ElementOfSeq, Settings
<1>. QED
  BY <1>1, SeqDef

\* A request made now is one more, unless no time is counted.
LEMMA LatelyAppend ==
  ASSUME NEW s \in Seq(0 .. Window), NEW n \in Nat
  PROVE  Lately(Append(s, 0), n) = IF n = 0 THEN 0 ELSE Lately(s, n) + 1
<1>. DEFINE r == Append(s, 0)
            S == {i \in DOMAIN s : s[i] < n}
            R == {i \in DOMAIN r : r[i] < n}
<1>1. s \in Seq(Nat) /\ 0 \in Nat
  BY AgesAreNat
<1>2. /\ r \in Seq(Nat) /\ Len(r) = Len(s) + 1 /\ r[Len(s) + 1] = 0
      /\ \A i \in 1 .. Len(s) : r[i] = s[i]
  BY <1>1, AppendProperties
<1>. HIDE DEF r
<1>3. /\ Len(s) \in Nat /\ DOMAIN s = 1 .. Len(s) /\ \A i \in DOMAIN s : s[i] \in Nat
      /\ IsFiniteSet(S) /\ Lately(s, n) = Cardinality(S)
  BY <1>1, LatelySet
<1>4. /\ DOMAIN r = 1 .. Len(r) /\ \A i \in DOMAIN r : r[i] \in Nat
      /\ Lately(r, n) = Cardinality(R)
  BY <1>2, LatelySet
<1>5. CASE n = 0
  <2>1. R = {}
    BY <1>4, <1>5
  <2>. QED
    BY <1>4, <1>5, <2>1, FS_EmptySet DEF r
<1>6. CASE n # 0
  <2>1. R = S \cup {Len(s) + 1} /\ Len(s) + 1 \notin S
    BY <1>2, <1>3, <1>4, <1>6
  <2>2. Cardinality(R) = Cardinality(S) + 1
    BY <1>3, <2>1, FS_AddElement
  <2>. QED
    BY <1>3, <1>4, <1>6, <2>2 DEF r
<1>. QED
  BY <1>5, <1>6

LEMMA LatelyNone == ASSUME NEW s \in Seq(0 .. Window) PROVE Lately(s, 0) = 0
<1>. DEFINE S == {i \in DOMAIN s : s[i] < 0}
<1>1. /\ \A i \in DOMAIN s : s[i] \in Nat
      /\ Lately(s, 0) = Cardinality(S)
  BY AgesAreNat, LatelySet
<1>2. S = {}
  BY <1>1
<1>. QED
  BY <1>1, <1>2, FS_EmptySet

LEMMA LatelyAll ==
  ASSUME NEW s \in Seq(0 .. Window), \A i \in 1 .. Len(s) : Young(s[i])
  PROVE  Lately(s, Window) = Len(s)
<1>. DEFINE S == {i \in DOMAIN s : s[i] < Window}
<1>1. Window \in Nat
  BY Settings
<1>2. Len(s) \in Nat /\ DOMAIN s = 1 .. Len(s) /\ Lately(s, Window) = Cardinality(S)
  BY <1>1, AgesAreNat, LatelySet
<1>3. S = 1 .. Len(s)
  BY <1>2 DEF Young
<1>. QED
  BY <1>2, <1>3, UpTo

\* A list whose elements found their way into another one, each at a later place and no
\* older, is the smaller.
LEMMA LatelyInjection ==
  ASSUME NEW s \in Seq(Nat), NEW t \in Seq(Nat), NEW m \in Nat, NEW n \in Nat, NEW k \in Int,
         \A i \in 1 .. Len(s) : s[i] < m => i + k \in 1 .. Len(t) /\ t[i + k] < n
  PROVE  Lately(s, m) <= Lately(t, n)
<1>. DEFINE S == {i \in DOMAIN s : s[i] < m}
            T == {i \in DOMAIN t : t[i] < n}
            f == [i \in S |-> i + k]
<1>1. Len(s) \in Nat /\ DOMAIN s = 1 .. Len(s) /\ Lately(s, m) = Cardinality(S)
  BY LatelySet
<1>2. DOMAIN t = 1 .. Len(t) /\ IsFiniteSet(T) /\ Lately(t, n) = Cardinality(T)
  BY LatelySet
<1>3. f \in Injection(S, T)
  <2>1. f \in [S -> T]
    BY <1>1, <1>2
  <2>2. \A a, b \in S : f[a] = f[b] => a = b
    BY <1>1
  <2>. QED
    BY <2>1, <2>2 DEF Injection, IsInjective
<1>. QED
  BY <1>1, <1>2, <1>3, FS_Injection

\* Purging a list takes nothing away from what is counted within the window.
LEMMA LatelyRecent ==
  ASSUME NEW s \in Seq(Nat), Chronological(s), NEW n \in 0 .. Window
  PROVE  Recent(s) \in Seq(Nat) /\ Lately(s, n) <= Lately(Recent(s), n)
<1>. DEFINE r == Recent(s)
            k == Len(s) - Len(r)
<1>1. /\ r \in Seq(Nat) /\ k \in 0 .. Len(s)
      /\ \A i \in 1 .. Len(r) : r[i] = s[i + k] /\ Young(r[i])
      /\ \A i \in 1 .. k : ~Young(s[i])
  BY RecentShape
<1>. HIDE DEF r
<1>2. Len(s) \in Nat /\ Len(r) \in Nat /\ \A i \in 1 .. Len(s) : s[i] \in Nat
  BY <1>1, LenProperties, ElementOfSeq
<1>3. ASSUME NEW i \in 1 .. Len(s), s[i] < n
      PROVE  i + (0 - k) \in 1 .. Len(r) /\ r[i + (0 - k)] < n
  <2>1. i \notin 1 .. k
    BY <1>1, <1>2, <1>3, Settings DEF Young
  <2>2. i + (0 - k) \in 1 .. Len(r) /\ (i + (0 - k)) + k = i
    BY <1>1, <1>2, <2>1
  <2>. QED
    BY <1>1, <1>3, <2>2
<1>4. n \in Nat /\ 0 - k \in Int
  BY <1>1, Settings
<1>. QED
  BY <1>1, <1>3, <1>4, LatelyInjection DEF r

\* The callers in a set and the one that joins or leaves it.
LEMMA OneCallerMore ==
  ASSUME NEW S \in SUBSET Caller, NEW T \in SUBSET Caller, NEW c \in Caller, c \notin S,
         T = S \cup {c}
  PROVE  /\ Cardinality(T) = Cardinality(S) + 1
         /\ Cardinality(S) \in Nat /\ Cardinality(S) < Cardinality(Caller)
<1>1. IsFiniteSet(S) /\ Cardinality(S) \in Nat /\ IsFiniteSet(Caller)
  BY Callers, CallerAssumption
<1>2. Cardinality(T) = Cardinality(S) + 1
  BY <1>1, FS_AddElement
<1>3. Cardinality(T) <= Cardinality(Caller) /\ Cardinality(Caller) \in Nat
  BY Callers
<1>. QED
  BY <1>1, <1>2, <1>3

-----------------------------------------------------------------------------
(***************************************************************************)
(* Concurrent callers: what a step does to one gateway.                    *)
(***************************************************************************)
OnCall(p) == {c \in Caller : pc[c] = "proxy" /\ via[c] = p}
Asleep(p) == {c \in Caller : pc[c] = "sleep" /\ via[c] = p}

Stamps(p)  == <<sinceCall[p], healthy[p], sinceFailure[p]>>
Purging(p) == history'[p] \in {history[p], Purged(p)}

\* nobody but those of C goes to sleep, and sleeps go on
SleepOn(p, C) == \A d \in Asleep(p)' \ C : d \in Asleep(p) /\ wait'[d] = wait[d]

Calm(p) ==
  /\ sent'[p] = sent[p] /\ lost'[p] = lost[p] /\ Stamps(p)' = Stamps(p) /\ aborts' >= aborts
  /\ OnCall(p)' = OnCall(p) /\ SleepOn(p, {}) /\ Purging(p)
  /\ Asleep(p)' \subseteq Asleep(p)

Chosen(p, c) ==
  /\ Available(p) /\ c \notin Asleep(p) \cup OnCall(p)
  /\ sent'[p] = sent[p] /\ lost'[p] = lost[p] /\ Stamps(p)' = Stamps(p) /\ aborts' = aborts
  /\ OnCall(p)' = OnCall(p) /\ SleepOn(p, {c}) /\ Purging(p)
  /\ Asleep(p)' = Asleep(p) \cup {c} /\ wait'[c] = Spacing(p)

Called(p, c) ==
  /\ Available(p) /\ Spacing(p) = 0 /\ c \notin Asleep(p) \cup OnCall(p)
  /\ sent'[p] = Append(sent[p], 0) /\ lost'[p] = lost[p] /\ Stamps(p)' = Stamps(p)
  /\ aborts' = aborts
  /\ OnCall(p)' = OnCall(p) \cup {c} /\ SleepOn(p, {c}) /\ Purging(p)
  /\ Asleep(p)' = Asleep(p)

Awoken(p, c) ==
  /\ c \in Asleep(p) /\ c \notin OnCall(p) /\ wait[c] = 0
  /\ sent'[p] = Append(sent[p], 0) /\ lost'[p] = lost[p] /\ Stamps(p)' = Stamps(p)
  /\ aborts' = aborts
  /\ OnCall(p)' = OnCall(p) \cup {c} /\ SleepOn(p, {c}) /\ Purging(p)
  /\ Asleep(p)' = Asleep(p) \ {c}

\* a request ends: with an answer, a failure or a cancellation
Ends(p, c) ==
  /\ c \in OnCall(p) /\ c \notin Asleep(p)
  /\ sent'[p] = sent[p] /\ OnCall(p)' = OnCall(p) \ {c}
  /\ SleepOn(p, {c}) /\ Asleep(p)' = Asleep(p)

Answered(p, c) ==
  /\ Ends(p, c) /\ lost'[p] = lost[p] /\ aborts' = aborts
  /\ history'[p] = Append(history[p], 0)
  /\ sinceCall'[p] = 0 /\ healthy'[p] = TRUE /\ sinceFailure'[p] = sinceFailure[p]

Failed(p, c) ==
  /\ Ends(p, c) /\ lost'[p] = Append(lost[p], 0) /\ aborts' = aborts
  /\ history'[p] = history[p]
  /\ sinceCall'[p] = sinceCall[p] /\ healthy'[p] = FALSE /\ sinceFailure'[p] = 0

Cut(p, c) ==
  /\ Ends(p, c) /\ lost'[p] = Append(lost[p], 0) /\ aborts' = aborts + 1
  /\ history'[p] = history[p] /\ Stamps(p)' = Stamps(p)

View(p, c) ==
  \/ Calm(p) \/ Chosen(p, c) \/ Called(p, c) \/ Awoken(p, c)
  \/ Answered(p, c) \/ Failed(p, c) \/ Cut(p, c)

\* Only c moves.
Alone(c) ==
  \A d \in Caller \ {c} : pc'[d] = pc[d] /\ via'[d] = via[d] /\ wait'[d] = wait[d]

\* A caller that leaves a gateway it neither calls nor selects changes nothing for it but
\* that it may give up its sleep.
LEMMA CalmView ==
  ASSUME IInv, NEW c \in Caller, NEW p \in Proxy, Alone(c), c \notin OnCall(p),
         ~(pc'[c] \in {"sleep", "proxy"} /\ via'[c] = p),
         sent'[p] = sent[p], lost'[p] = lost[p], Stamps(p)' = Stamps(p), aborts' >= aborts,
         Purging(p)
  PROVE  Calm(p)
<1>1. OnCall(p)' = OnCall(p)
  BY DEF OnCall, Alone
<1>2. Asleep(p)' \subseteq Asleep(p)
  BY DEF Asleep, Alone
<1>3. SleepOn(p, {})
  BY DEF SleepOn, Asleep, Alone
<1>. QED
  BY <1>1, <1>2, <1>3 DEF Calm

\* A turn of the proxy loop, seen from a gateway the caller does not hold.
LEMMA PoolView ==
  ASSUME IInv, NEW c \in Caller, NEW excl \in SUBSET Proxy, Pool(c, excl),
         NEW p \in Proxy, c \notin Holding(p),
         lost'[p] = lost[p], Stamps(p)' = Stamps(p), aborts' = aborts
  PROVE  View(p, c)
<1>0. Types /\ Ordered /\ Lists
  BY DEF IInv
<1>1. c \notin Asleep(p) \cup OnCall(p)
  BY DEF Holding, Asleep, OnCall
<1>2. Purging(p)
  BY <1>0, PoolStep DEF Purging
<1>3. aborts' >= aborts
  BY DEF IInv, Types
<1>4. CASE Leave(c) /\ sent' = sent
  <2>1. Alone(c) /\ pc'[c] = "idle"
    BY <1>4 DEF Leave, Alone, IInv, Types
  <2>. QED
    BY <1>1, <1>2, <1>3, <1>4, <2>1, CalmView DEF View
<1>5. ASSUME NEW q \in Ready(excl),
             via' = [via EXCEPT ![c] = q],
             wait' = [wait EXCEPT ![c] = Spacing(q)],
             \/ Spacing(q) > 0 /\ pc' = [pc EXCEPT ![c] = "sleep"] /\ sent' = sent
             \/ Spacing(q) = 0 /\ pc' = [pc EXCEPT ![c] = "proxy"] /\ Sent(q)
      PROVE  View(p, c)
  <2>1. q \in Proxy /\ Available(q)
    BY DEF Ready, Candidates
  <2>2. Alone(c) /\ via'[c] = q /\ wait'[c] = Spacing(q) /\ pc'[c] \in {"sleep", "proxy"}
    BY <1>5 DEF Alone, IInv, Types
  <2>3. CASE q # p
    <3>1. sent'[p] = sent[p]
      BY <1>5, <2>1, <2>3 DEF Sent, IInv, Types
    <3>. QED
      BY <1>1, <1>2, <1>3, <2>2, <2>3, <3>1, CalmView DEF View
  <2>4. CASE q = p /\ Spacing(q) > 0
    <3>1. pc'[c] = "sleep" /\ sent' = sent
      BY <1>5, <2>1, <2>4, SpacingShape, Settings DEF IInv, Types
    <3>2. OnCall(p)' = OnCall(p)
      BY <1>1, <2>2, <3>1 DEF OnCall, Alone
    <3>3. Asleep(p)' = Asleep(p) \cup {c} /\ SleepOn(p, {c})
      BY <2>2, <2>4, <3>1 DEF Asleep, SleepOn, Alone
    <3>. QED
      BY <1>1, <1>2, <2>1, <2>2, <2>4, <3>1, <3>2, <3>3 DEF Chosen, View
  <2>5. CASE q = p /\ Spacing(q) = 0
    <3>1. pc'[c] = "proxy" /\ sent'[p] = Append(sent[p], 0)
      BY <1>5, <2>1, <2>5 DEF Sent, IInv, Types
    <3>2. OnCall(p)' = OnCall(p) \cup {c}
      BY <2>2, <2>5, <3>1 DEF OnCall, Alone
    <3>3. Asleep(p)' = Asleep(p) /\ SleepOn(p, {c})
      BY <1>1, <2>2, <3>1 DEF Asleep, SleepOn, Alone
    <3>. QED
      BY <1>1, <1>2, <2>1, <2>5, <3>1, <3>2, <3>3 DEF Called, View
  <2>6. Spacing(q) > 0 \/ Spacing(q) = 0
    BY <1>5
  <2>. QED
    BY <2>3, <2>4, <2>5, <2>6
<1>. QED
  BY <1>0, <1>4, <1>5, PoolStep

\* A caller whose request has ended.
LEMMA EndView ==
  ASSUME IInv, NEW c \in Caller, NEW p \in Proxy, Alone(c), c \in OnCall(p),
         ~(pc'[c] \in {"sleep", "proxy"} /\ via'[c] = p), sent'[p] = sent[p]
  PROVE  Ends(p, c)
<1>1. c \notin Asleep(p)
  BY DEF Asleep, OnCall
<1>2. OnCall(p)' = OnCall(p) \ {c}
  BY DEF OnCall, Alone
<1>3. Asleep(p)' = Asleep(p) /\ SleepOn(p, {c})
  BY <1>1 DEF Asleep, SleepOn, Alone
<1>. QED
  BY <1>1, <1>2, <1>3 DEF Ends

-----------------------------------------------------------------------------
(* What the callers of a gateway, all together, may do to it *)

\* the ends of lost requests: typed, the oldest first, none older than the window
Losses ==
  /\ lost \in [Proxy -> Seq(0 .. Window)]
  /\ \A p \in Proxy : /\ Chronological(lost[p])
                      /\ \A i \in 1 .. Len(lost[p]) : Young(lost[p][i])

\* A loss is added to those of its gateway.
LEMMA LoseStep ==
  ASSUME Losses, NEW p \in Proxy, Lose(p)
  PROVE  Losses'
<1>1. lost[p] \in Seq(0 .. Window) /\ Chronological(lost[p])
  BY DEF Losses
<1>2. lost'[p] = Append(lost[p], 0) /\ \A q \in Proxy \ {p} : lost'[q] = lost[q]
  BY DEF Lose, Losses
<1>3. /\ lost'[p] \in Seq(0 .. Window) /\ Chronological(lost'[p]) /\ Len(lost'[p]) = Len(lost[p]) + 1
      /\ \A i \in 1 .. Len(lost[p]) : lost'[p][i] = lost[p][i]
      /\ lost'[p][Len(lost[p]) + 1] = 0
  BY <1>1, <1>2, OneMore
<1>4. lost' \in [Proxy -> Seq(0 .. Window)]
  <2>1. lost' = [lost EXCEPT ![p] = lost'[p]]
    BY DEF Lose, Losses
  <2>. QED
    BY <1>3, <2>1 DEF Losses
<1>5. ASSUME NEW i \in 1 .. Len(lost'[p]) PROVE Young(lost'[p][i])
  <2>1. CASE i = Len(lost[p]) + 1
    BY <1>3, <2>1, Settings DEF Young
  <2>2. CASE i # Len(lost[p]) + 1
    <3>1. i \in 1 .. Len(lost[p])
      BY <1>1, <1>3, <2>2, LenProperties
    <3>. QED
      BY <1>3, <3>1 DEF Losses
  <2>. QED
    BY <2>1, <2>2
<1>. QED
  BY <1>2, <1>3, <1>4, <1>5 DEF Losses

\* A list a unit of time later: its elements are a unit older, and the window keeps what
\* is young.
LEMMA Faded ==
  ASSUME NEW s \in Seq(0 .. Window), Chronological(s)
  PROVE  LET t == Recent([i \in DOMAIN s |-> s[i] + 1]) IN
         /\ t \in Seq(0 .. Window) /\ Chronological(t) /\ \A i \in 1 .. Len(t) : Young(t[i])
         /\ \A n \in Nat : Lately(t, n + 1) <= Lately(s, n)
         /\ \A n \in Nat : n < Window => Lately(s, n) <= Lately(t, n + 1)
<1>. DEFINE r == [i \in DOMAIN s |-> s[i] + 1]
            t == Recent(r)
            k == Len(r) - Len(t)
<1>1. /\ r \in Seq(Nat) /\ Len(r) = Len(s) /\ Chronological(r)
      /\ \A i \in 1 .. Len(s) : r[i] = s[i] + 1
  BY Ageing
<1>2. s \in Seq(Nat) /\ Len(s) \in Nat /\ \A i \in 1 .. Len(s) : s[i] \in Nat
  BY AgesAreNat, LenProperties, ElementOfSeq
<1>. HIDE DEF r
<1>3. /\ t \in Seq(Nat) /\ k \in 0 .. Len(r) /\ Chronological(t)
      /\ \A i \in 1 .. Len(t) : t[i] = r[i + k] /\ Young(t[i])
      /\ \A i \in 1 .. k : ~Young(r[i])
  BY <1>1, RecentShape
<1>. HIDE DEF t
<1>4. Len(t) \in Nat /\ \A i \in 1 .. Len(t) : t[i] \in Nat
  BY <1>3, LenProperties, ElementOfSeq
<1>5. t \in Seq(0 .. Window)
  <2>1. t \in [1 .. Len(t) -> Nat]
    BY <1>3, LenProperties
  <2>2. \A i \in 1 .. Len(t) : t[i] \in 0 .. Window
    BY <1>3, <1>4, Settings DEF Young
  <2>3. t \in [1 .. Len(t) -> 0 .. Window]
    BY <2>1, <2>2
  <2>. QED
    BY <1>4, <2>3, FunctionAsSeq
<1>6. ASSUME NEW n \in Nat PROVE Lately(t, n + 1) <= Lately(s, n)
  <2>1. ASSUME NEW i \in 1 .. Len(t), t[i] < n + 1 PROVE i + k \in 1 .. Len(s) /\ s[i + k] < n
    <3>1. i + k \in 1 .. Len(s)
      BY <1>1, <1>2, <1>3, <1>4
    <3>2. t[i] = s[i + k] + 1 /\ s[i + k] \in Nat
      BY <1>1, <1>2, <1>3, <3>1
    <3>3. \A x \in Nat : x + 1 < n + 1 => x < n
      OBVIOUS
    <3>. QED
      BY <2>1, <3>1, <3>2, <3>3
  <2>2. n + 1 \in Nat /\ k \in Int
    BY <1>1, <1>2, <1>3
  <2>. QED
    BY <1>2, <1>3, <2>1, <2>2, LatelyInjection
<1>7. ASSUME NEW n \in Nat, n < Window PROVE Lately(s, n) <= Lately(t, n + 1)
  <2>1. ASSUME NEW i \in 1 .. Len(s), s[i] < n
        PROVE  i + (0 - k) \in 1 .. Len(t) /\ t[i + (0 - k)] < n + 1
    <3>1. r[i] = s[i] + 1 /\ s[i] \in Nat
      BY <1>1, <1>2
    <3>2. Young(r[i])
      BY <1>7, <2>1, <3>1, Settings DEF Young
    <3>3. i \notin 1 .. k
      BY <1>3, <3>2
    <3>4. i + (0 - k) \in 1 .. Len(t) /\ (i + (0 - k)) + k = i
      BY <1>1, <1>2, <1>3, <1>4, <3>3
    <3>5. t[i + (0 - k)] = s[i] + 1
      BY <1>3, <3>1, <3>4
    <3>. QED
      BY <2>1, <3>1, <3>4, <3>5
  <2>2. n + 1 \in Nat /\ 0 - k \in Int
    BY <1>1, <1>2, <1>3
  <2>. QED
    BY <1>2, <1>3, <2>1, <2>2, LatelyInjection
<1>. QED
  BY <1>3, <1>5, <1>6, <1>7 DEF t, r

\* The calls of a history, a unit of time later.
LEMMA HistoryFaded ==
  ASSUME IInv, Tick, NEW p \in Proxy, NEW n \in Nat
  PROVE  Lately(history[p], n) <= Lately(history'[p], n + 1)
<1>1. /\ history[p] \in Seq(0 .. Window) /\ history'[p] \in Seq(0 .. Window)
      /\ Len(history'[p]) = Len(history[p])
      /\ \A i \in 1 .. Len(history[p]) : history'[p][i] <= history[p][i] + 1
  BY TickLists DEF IInv, Types
<1>2. /\ history[p] \in Seq(Nat) /\ history'[p] \in Seq(Nat)
      /\ \A i \in 1 .. Len(history[p]) : history[p][i] \in Nat /\ history'[p][i] \in Nat
  BY <1>1, AgesAreNat, ElementOfSeq
<1>3. ASSUME NEW i \in 1 .. Len(history[p]), history[p][i] < n
      PROVE  i + 0 \in 1 .. Len(history'[p]) /\ history'[p][i + 0] < n + 1
  <2>1. i + 0 = i
    OBVIOUS
  <2>2. history'[p][i] < n + 1
    <3>1. history[p][i] \in Nat /\ history'[p][i] \in Nat /\ history'[p][i] <= history[p][i] + 1
      BY <1>1, <1>2
    <3>2. \A x, y \in Nat : y <= x + 1 /\ x < n => y < n + 1
      OBVIOUS
    <3>. QED
      BY <1>3, <3>1, <3>2
  <2>. QED
    BY <1>1, <2>1, <2>2
<1>4. n + 1 \in Nat /\ 0 \in Int
  OBVIOUS
<1>. QED
  BY <1>2, <1>3, <1>4, LatelyInjection

\* The losses are what Losses says.
LEMMA LossesStep ==
  ASSUME IInv, Losses, [Next]_vars
  PROVE  Losses'
<1>1. CASE Tick
  <2>1. lost' = [p \in Proxy |-> Recent([i \in DOMAIN lost[p] |-> lost[p][i] + 1])]
    BY <1>1 DEF Tick
  <2>2. ASSUME NEW p \in Proxy
        PROVE  /\ lost'[p] \in Seq(0 .. Window) /\ Chronological(lost'[p])
               /\ \A i \in 1 .. Len(lost'[p]) : Young(lost'[p][i])
    <3>1. lost[p] \in Seq(0 .. Window) /\ Chronological(lost[p])
      BY DEF Losses
    <3>. QED
      BY <2>1, <3>1, Faded
  <2>. QED
    BY <2>1, <2>2 DEF Losses
<1>2. CASE lost' = lost
  BY <1>2 DEF Losses
<1>3. ASSUME NEW c \in Caller, pc[c] = "proxy", Lose(via[c]) PROVE Losses'
  <2>1. via[c] \in Proxy
    BY <1>3 DEF IInv, Types, Selected
  <2>. QED
    BY <1>3, <2>1, LoseStep
<1>4. ASSUME NEW c \in Caller, ProxyFail(c) \/ Abort(c) PROVE Losses'
  BY <1>2, <1>3, <1>4 DEF ProxyFail, Abort
<1>. QED
  BY <1>1, <1>2, <1>4
  DEF Next, Start, Proceed, StartDirect, StartPool, DirectOk, DirectFail, Awake, ProxyOk, vars

-----------------------------------------------------------------------------
\* Every step but the passing of time, seen from each gateway.
Seen(p) == Calm(p) \/ \E c \in Caller : View(p, c)

LEMMA Views ==
  ASSUME IInv, Losses, [Next]_vars, ~Tick, NEW p \in Proxy
  PROVE  Seen(p)
<1>0. aborts \in Nat /\ aborts >= aborts
  BY Settings DEF IInv, Types
<1>1. ASSUME NEW c \in Caller, c \notin OnCall(p), Alone(c), pc'[c] \notin {"sleep", "proxy"},
             UNCHANGED <<healthVars, callVars, history, sent, lost>>, aborts' >= aborts
      PROVE  Seen(p)
  <2>1. sent'[p] = sent[p] /\ lost'[p] = lost[p] /\ Stamps(p)' = Stamps(p) /\ Purging(p)
    BY <1>1 DEF Stamps, Purging, healthVars, callVars
  <2>. QED
    BY <1>1, <2>1, CalmView DEF Seen
<1>2. ASSUME NEW c \in Caller, StartDirect(c) PROVE Seen(p)
  <2>1. c \notin OnCall(p) /\ Alone(c) /\ pc'[c] \notin {"sleep", "proxy"}
    BY <1>2 DEF StartDirect, OnCall, Alone, IInv, Types
  <2>. QED
    BY <1>0, <1>1, <1>2, <2>1 DEF StartDirect
<1>3. ASSUME NEW c \in Caller, StartPool(c) \/ DirectFail(c) PROVE Seen(p)
  <2>1. /\ Pool(c, {}) /\ {} \in SUBSET Proxy
        /\ lost'[p] = lost[p] /\ Stamps(p)' = Stamps(p) /\ aborts' = aborts
    BY <1>3 DEF StartPool, DirectFail, Stamps, healthVars, callVars
  <2>2. c \notin Holding(p)
    BY <1>3, ProxyAssumption DEF StartPool, DirectFail, InDirect, Holding, IInv, Selected, Types
  <2>. QED
    BY <2>1, <2>2, PoolView DEF Seen
<1>4. ASSUME NEW c \in Caller, DirectOk(c) PROVE Seen(p)
  <2>1. c \notin OnCall(p) /\ Alone(c) /\ pc'[c] \notin {"sleep", "proxy"}
    BY <1>4 DEF DirectOk, InDirect, Leave, OnCall, Alone, IInv, Types
  <2>. QED
    BY <1>0, <1>1, <1>4, <2>1 DEF DirectOk
<1>5. ASSUME NEW c \in Caller, Awake(c) PROVE Seen(p)
  <2>1. /\ pc[c] = "sleep" /\ wait[c] = 0 /\ pc' = [pc EXCEPT ![c] = "proxy"] /\ Sent(via[c])
        /\ UNCHANGED <<healthVars, callVars, history, via, wait, lost, aborts>>
    BY <1>5 DEF Awake
  <2>2. Alone(c) /\ via'[c] = via[c] /\ pc'[c] = "proxy" /\ via[c] \in Proxy
    BY <2>1 DEF Alone, IInv, Types, Selected
  <2>3. Stamps(p)' = Stamps(p) /\ Purging(p) /\ lost'[p] = lost[p] /\ aborts' = aborts
    BY <2>1 DEF Stamps, Purging, healthVars, callVars
  <2>4. c \notin OnCall(p)
    BY <2>1 DEF OnCall
  <2>5. CASE via[c] = p
    <3>1. sent'[p] = Append(sent[p], 0)
      BY <2>1, <2>5 DEF Sent, IInv, Types
    <3>2. c \in Asleep(p) /\ OnCall(p)' = OnCall(p) \cup {c}
      BY <2>1, <2>2, <2>5 DEF Asleep, OnCall, Alone
    <3>3. Asleep(p)' = Asleep(p) \ {c} /\ SleepOn(p, {c})
      BY <2>1, <2>2 DEF Asleep, SleepOn, Alone
    <3>. QED
      BY <2>1, <2>3, <2>4, <3>1, <3>2, <3>3 DEF Awoken, View, Seen
  <2>6. CASE via[c] # p
    <3>1. sent'[p] = sent[p]
      BY <2>1, <2>6 DEF Sent, IInv, Types
    <3>. QED
      BY <1>0, <2>2, <2>3, <2>4, <2>6, <3>1, CalmView DEF Seen
  <2>. QED
    BY <2>5, <2>6
<1>6. ASSUME NEW c \in Caller, ProxyOk(c) PROVE Seen(p)
  <2>1. PICK q \in Proxy : q = via[c] /\ pc[c] = "proxy"
    BY <1>6 DEF ProxyOk, IInv, Types, Selected
  <2>2. /\ healthy' = [healthy EXCEPT ![q] = TRUE]
        /\ sinceCall' = [sinceCall EXCEPT ![q] = 0]
        /\ history' = [history EXCEPT ![q] = Append(history[q], 0)]
        /\ Leave(c) /\ UNCHANGED <<sinceFailure, sent, lost, aborts>>
    BY <1>6, <2>1 DEF ProxyOk, IInv, Types
  <2>3. Alone(c) /\ pc'[c] = "idle"
    BY <2>2 DEF Leave, Alone, IInv, Types
  <2>4. CASE q = p
    <3>1. c \in OnCall(p)
      BY <2>1, <2>4 DEF OnCall
    <3>2. Ends(p, c)
      BY <2>2, <2>3, <3>1, EndView
    <3>3. /\ history'[p] = Append(history[p], 0) /\ sinceCall'[p] = 0 /\ healthy'[p] = TRUE
          /\ sinceFailure'[p] = sinceFailure[p] /\ lost'[p] = lost[p] /\ aborts' = aborts
      BY <2>2, <2>4 DEF IInv, Types
    <3>. QED
      BY <3>2, <3>3 DEF Answered, View, Seen
  <2>5. CASE q # p
    <3>1. c \notin OnCall(p)
      BY <2>1, <2>5 DEF OnCall
    <3>2. Stamps(p)' = Stamps(p) /\ Purging(p)
      BY <2>2, <2>5 DEF Stamps, Purging, IInv, Types
    <3>. QED
      BY <1>0, <2>2, <2>3, <3>1, <3>2, CalmView DEF Seen
  <2>. QED
    BY <2>4, <2>5
<1>7. ASSUME NEW c \in Caller, ProxyFail(c) PROVE Seen(p)
  <2>1. PICK q \in Proxy : q = via[c] /\ pc[c] = "proxy"
    BY <1>7 DEF ProxyFail, IInv, Types, Selected
  <2>. DEFINE excl == excluded[c] \cup {q}
  <2>2. /\ healthy' = [healthy EXCEPT ![q] = FALSE]
        /\ sinceFailure' = [sinceFailure EXCEPT ![q] = 0]
        /\ lost' = [lost EXCEPT ![q] = Append(lost[q], 0)]
        /\ Pool(c, excl) /\ UNCHANGED <<callVars, aborts>>
    BY <1>7, <2>1 DEF ProxyFail, Lose, Losses
  <2>3. excl \in SUBSET Proxy /\ q \in excl
    BY <2>1 DEF IInv, Types
  <2>. HIDE DEF excl
  <2>4. CASE q = p
    <3>1. c \in OnCall(p) /\ q \notin Candidates(excl)
      BY <2>1, <2>3, <2>4 DEF OnCall, Candidates
    <3>2. \A r \in Ready(excl) : r \in Proxy /\ r # p
      BY <2>4, <3>1 DEF Ready, Candidates
    <3>3. /\ Alone(c) /\ sent'[p] = sent[p] /\ history'[p] = history[p]
          /\ ~(pc'[c] \in {"sleep", "proxy"} /\ via'[c] = p)
      <4>1. /\ history'[p] = history[p]
            /\ \/ Leave(c) /\ sent' = sent
               \/ \E r \in Ready(excl) :
                    /\ via' = [via EXCEPT ![c] = r]
                    /\ wait' = [wait EXCEPT ![c] = Spacing(r)]
                    /\ \/ pc' = [pc EXCEPT ![c] = "sleep"] /\ sent' = sent
                       \/ pc' = [pc EXCEPT ![c] = "proxy"] /\ Sent(r)
        BY <2>2, <2>4, <3>1, PoolStep DEF IInv
      <4>2. CASE Leave(c) /\ sent' = sent
        BY <4>1, <4>2 DEF Leave, Alone, IInv, Types
      <4>3. ASSUME NEW r \in Ready(excl),
                   via' = [via EXCEPT ![c] = r], wait' = [wait EXCEPT ![c] = Spacing(r)],
                   \/ pc' = [pc EXCEPT ![c] = "sleep"] /\ sent' = sent
                   \/ pc' = [pc EXCEPT ![c] = "proxy"] /\ Sent(r)
            PROVE  Alone(c) /\ sent'[p] = sent[p] /\ via'[c] # p
        <5>1. r \in Proxy /\ r # p
          BY <3>2
        <5>2. Alone(c) /\ via'[c] = r
          BY <4>3 DEF Alone, IInv, Types
        <5>3. sent'[p] = sent[p]
          BY <4>3, <5>1 DEF Sent, IInv, Types
        <5>. QED
          BY <5>1, <5>2, <5>3
      <4>. QED
        BY <4>1, <4>2, <4>3
    <3>4. Ends(p, c)
      BY <3>1, <3>3, EndView
    <3>5. /\ healthy'[p] = FALSE /\ sinceFailure'[p] = 0 /\ sinceCall'[p] = sinceCall[p]
          /\ lost'[p] = Append(lost[p], 0) /\ aborts' = aborts
      BY <2>2, <2>4 DEF IInv, Types, Losses, callVars
    <3>. QED
      BY <3>3, <3>4, <3>5 DEF Failed, View, Seen
  <2>5. CASE q # p
    <3>1. c \notin Holding(p)
      BY <2>1, <2>5 DEF Holding
    <3>2. lost'[p] = lost[p] /\ Stamps(p)' = Stamps(p) /\ aborts' = aborts
      BY <2>2, <2>5 DEF Stamps, IInv, Types, Losses, callVars
    <3>. QED
      BY <2>2, <2>3, <3>1, <3>2, PoolView DEF Seen
  <2>. QED
    BY <2>4, <2>5
<1>8. ASSUME NEW c \in Caller, Abort(c) PROVE Seen(p)
  <2>1. /\ Leave(c) /\ aborts' = aborts + 1
        /\ IF pc[c] = "proxy" THEN Lose(via[c]) ELSE UNCHANGED lost
        /\ UNCHANGED <<healthVars, callVars, history, sent>>
    BY <1>8 DEF Abort
  <2>2. Alone(c) /\ pc'[c] = "idle"
    BY <2>1 DEF Leave, Alone, IInv, Types
  <2>3. Stamps(p)' = Stamps(p) /\ Purging(p) /\ history'[p] = history[p] /\ sent'[p] = sent[p]
    BY <2>1 DEF Stamps, Purging, healthVars, callVars
  <2>4. CASE c \in OnCall(p)
    <3>1. Ends(p, c)
      BY <2>2, <2>3, <2>4, EndView
    <3>2. lost'[p] = Append(lost[p], 0)
      BY <2>1, <2>4 DEF OnCall, Lose, Losses
    <3>. QED
      BY <2>1, <2>3, <3>1, <3>2 DEF Cut, View, Seen
  <2>5. CASE c \notin OnCall(p)
    <3>1. lost'[p] = lost[p]
      BY <2>1, <2>5 DEF OnCall, Lose, Losses
    <3>2. aborts' >= aborts
      BY <1>0, <2>1
    <3>. QED
      BY <2>2, <2>3, <2>5, <3>1, <3>2, CalmView DEF Seen
  <2>. QED
    BY <2>4, <2>5
<1>9. CASE UNCHANGED vars
  BY <1>0, <1>9 DEF vars, healthVars, callVars, Seen, Calm, Stamps, OnCall, Asleep, SleepOn, Purging
<1>. QED
  BY <1>2, <1>3, <1>4, <1>5, <1>6, <1>7, <1>8, <1>9 DEF Next, Start, Proceed

-----------------------------------------------------------------------------
(* What a step leaves true for each gateway *)

\* What the counts of a gateway are.
LEMMA Counts ==
  ASSUME IInv, Losses, NEW p \in Proxy
  PROVE  /\ sent[p] \in Seq(0 .. Window) /\ history[p] \in Seq(0 .. Window)
         /\ lost[p] \in Seq(0 .. Window)
         /\ \A n \in Nat : /\ Lately(sent[p], n) \in Nat /\ Lately(history[p], n) \in Nat
                           /\ Lately(lost[p], n) \in Nat
         /\ Lately(sent[p], 0) = 0
         /\ Cardinality(OnCall(p)) \in Nat /\ Cardinality(Asleep(p)) \in Nat
         /\ Cardinality(Caller) \in Nat /\ aborts \in Nat
         /\ sinceCall[p] \in 0 .. MinInterval /\ sinceFailure[p] \in 0 .. Cooldown
         /\ healthy[p] \in BOOLEAN
<1>1. /\ sent[p] \in Seq(0 .. Window) /\ history[p] \in Seq(0 .. Window)
      /\ lost[p] \in Seq(0 .. Window)
  BY DEF IInv, Types, Losses
<1>2. sent[p] \in Seq(Nat) /\ history[p] \in Seq(Nat) /\ lost[p] \in Seq(Nat)
  BY <1>1, AgesAreNat
<1>3. \A n \in Nat : /\ Lately(sent[p], n) \in Nat /\ Lately(history[p], n) \in Nat
                     /\ Lately(lost[p], n) \in Nat
  BY <1>2, LatelySet
<1>4. OnCall(p) \in SUBSET Caller /\ Asleep(p) \in SUBSET Caller
  BY DEF OnCall, Asleep
<1>5. /\ Cardinality(OnCall(p)) \in Nat /\ Cardinality(Asleep(p)) \in Nat
      /\ Cardinality(Caller) \in Nat
  BY <1>4, Callers
<1>6. /\ aborts \in Nat
      /\ sinceCall[p] \in 0 .. MinInterval /\ sinceFailure[p] \in 0 .. Cooldown
      /\ healthy[p] \in BOOLEAN
  BY Settings DEF IInv, Types
<1>. QED
  BY <1>1, <1>3, <1>5, <1>6, LatelyNone

\* One caller more or less on call.
LEMMA OnCallMore ==
  ASSUME NEW p \in Proxy, NEW c \in Caller, c \notin OnCall(p), OnCall(p)' = OnCall(p) \cup {c}
  PROVE  Cardinality(OnCall(p)') = Cardinality(OnCall(p)) + 1
<1>1. OnCall(p) \in SUBSET Caller /\ OnCall(p)' \in SUBSET Caller
  BY DEF OnCall
<1>. QED
  BY <1>1, OneCallerMore

LEMMA OnCallLess ==
  ASSUME NEW p \in Proxy, NEW c \in Caller, c \in OnCall(p), OnCall(p)' = OnCall(p) \ {c}
  PROVE  Cardinality(OnCall(p)) = Cardinality(OnCall(p)') + 1
<1>1. /\ OnCall(p) \in SUBSET Caller /\ OnCall(p)' \in SUBSET Caller
      /\ c \notin OnCall(p)' /\ OnCall(p) = OnCall(p)' \cup {c}
  BY DEF OnCall
<1>. QED
  BY <1>1, OneCallerMore

\* Every request of the last n units of time has been answered and recorded since, is
\* under way, or was lost since.
Accounted(p) ==
  \A n \in 0 .. Window :
    Lately(sent[p], n) <= Lately(history[p], n) + Cardinality(OnCall(p)) + Lately(lost[p], n)

LEMMA AccountedStep ==
  ASSUME IInv, Losses, IInv', Losses', [Next]_vars, NEW p \in Proxy, Accounted(p)
  PROVE  Accounted(p)'
<1>. SUFFICES ASSUME NEW n \in 0 .. Window
              PROVE  Lately(sent'[p], n) <=
                       Lately(history'[p], n) + Cardinality(OnCall(p)') + Lately(lost'[p], n)
  BY DEF Accounted
<1>. DEFINE S == Lately(sent[p], n)
            H == Lately(history[p], n)
            C == Cardinality(OnCall(p))
            L == Lately(lost[p], n)
            S1 == Lately(sent'[p], n)
            H1 == Lately(history'[p], n)
            C1 == Cardinality(OnCall(p)')
            L1 == Lately(lost'[p], n)
<1>0. n \in Nat /\ S <= H + C + L
  BY Settings DEF Accounted
<1>1. /\ sent[p] \in Seq(0 .. Window) /\ history[p] \in Seq(0 .. Window)
      /\ lost[p] \in Seq(0 .. Window) /\ S \in Nat /\ H \in Nat /\ C \in Nat /\ L \in Nat
  BY <1>0, Counts
<1>2. /\ sent'[p] \in Seq(0 .. Window)
      /\ S1 \in Nat /\ H1 \in Nat /\ C1 \in Nat /\ L1 \in Nat
  <2>1. /\ sent'[p] \in Seq(0 .. Window) /\ history'[p] \in Seq(0 .. Window)
        /\ lost'[p] \in Seq(0 .. Window) /\ OnCall(p)' \in SUBSET Caller
    BY DEF IInv, Types, Losses, OnCall
  <2>. QED
    BY <1>0, <2>1, AgesAreNat, LatelySet, Callers
<1>. HIDE DEF S, H, C, L, S1, H1, C1, L1
<1>3. CASE n = 0
  <2>1. S1 = 0
    BY <1>2, <1>3, LatelyNone DEF S1
  <2>. QED
    BY <1>2, <2>1 DEF S1, H1, C1, L1
<1>4. CASE n # 0 /\ Tick
  <2>. DEFINE m == n - 1
  <2>1. m \in 0 .. Window /\ m \in Nat /\ m < Window /\ m + 1 = n
    BY <1>0, <1>4, Settings
  <2>. HIDE DEF m
  <2>2. /\ sent'[p] = Recent([i \in DOMAIN sent[p] |-> sent[p][i] + 1])
        /\ lost'[p] = Recent([i \in DOMAIN lost[p] |-> lost[p][i] + 1])
        /\ OnCall(p)' = OnCall(p)
    BY <1>4 DEF Tick, OnCall
  <2>3. Chronological(sent[p]) /\ Chronological(lost[p])
    BY DEF IInv, Lists, Losses
  <2>4. S1 <= Lately(sent[p], m) /\ Lately(lost[p], m) <= L1
    BY <1>1, <2>1, <2>2, <2>3, Faded DEF S1, L1
  <2>5. Lately(history[p], m) <= H1
    BY <1>4, <2>1, HistoryFaded DEF H1
  <2>6. Lately(sent[p], m) <= Lately(history[p], m) + C + Lately(lost[p], m)
    BY <2>1 DEF Accounted, C
  <2>7. Lately(sent[p], m) \in Nat /\ Lately(history[p], m) \in Nat /\ Lately(lost[p], m) \in Nat
    BY <2>1, Counts
  <2>8. C1 = C
    BY <2>2 DEF C, C1
  <2>9. S1 <= H1 + C1 + L1
    <3>1. \A a, h, l, c, a1, h1, l1, c1 \in Nat :
            a1 <= a /\ l <= l1 /\ h <= h1 /\ a <= h + c + l /\ c1 = c => a1 <= h1 + c1 + l1
      OBVIOUS
    <3>. QED
      BY <1>1, <1>2, <2>4, <2>5, <2>6, <2>7, <2>8, <3>1
  <2>. QED
    BY <2>9 DEF S1, H1, C1, L1
<1>5. CASE n # 0 /\ ~Tick
  <2>1. Purging(p) => H <= H1
    <3>1. CASE history'[p] = history[p]
      BY <1>1, <3>1 DEF H, H1
    <3>2. CASE history'[p] = Purged(p)
      <4>1. history[p] \in Seq(Nat) /\ Chronological(history[p])
        BY <1>1, AgesAreNat DEF IInv, Lists
      <4>. QED
        BY <3>2, <4>1, LatelyRecent DEF H, H1, Purged
    <3>. QED
      BY <3>1, <3>2 DEF Purging
  <2>2. CASE Calm(p)
    <3>1. S1 = S /\ L1 = L /\ C1 = C /\ H <= H1
      BY <2>1, <2>2 DEF Calm, S, S1, L, L1, C, C1
    <3>2. S1 <= H1 + C1 + L1
      BY <1>0, <1>1, <1>2, <3>1
    <3>. QED
      BY <3>2 DEF S1, H1, C1, L1
  <2>3. ASSUME NEW c \in Caller, Chosen(p, c) PROVE S1 <= H1 + C1 + L1
    <3>1. S1 = S /\ L1 = L /\ C1 = C /\ H <= H1
      BY <2>1, <2>3 DEF Chosen, S, S1, L, L1, C, C1
    <3>. QED
      BY <1>0, <1>1, <1>2, <3>1
  <2>4. ASSUME NEW c \in Caller, Called(p, c) \/ Awoken(p, c) PROVE S1 <= H1 + C1 + L1
    <3>1. /\ sent'[p] = Append(sent[p], 0) /\ lost'[p] = lost[p] /\ Purging(p)
          /\ OnCall(p)' = OnCall(p) \cup {c} /\ c \notin OnCall(p)
      BY <2>4 DEF Called, Awoken
    <3>2. S1 = S + 1
      BY <1>0, <1>1, <1>5, <3>1, LatelyAppend DEF S, S1
    <3>3. C1 = C + 1 /\ L1 = L /\ H <= H1
      BY <2>1, <3>1, OnCallMore DEF C, C1, L, L1
    <3>. QED
      BY <1>0, <1>1, <1>2, <3>2, <3>3
  <2>5. ASSUME NEW c \in Caller, Answered(p, c) PROVE S1 <= H1 + C1 + L1
    <3>1. /\ sent'[p] = sent[p] /\ lost'[p] = lost[p] /\ history'[p] = Append(history[p], 0)
          /\ OnCall(p)' = OnCall(p) \ {c} /\ c \in OnCall(p)
      BY <2>5 DEF Answered, Ends
    <3>2. S1 = S /\ L1 = L /\ H1 = H + 1
      BY <1>0, <1>1, <1>5, <3>1, LatelyAppend DEF S, S1, L, L1, H, H1
    <3>3. C = C1 + 1
      BY <3>1, OnCallLess DEF C, C1
    <3>. QED
      BY <1>0, <1>1, <1>2, <3>2, <3>3
  <2>6. ASSUME NEW c \in Caller, Failed(p, c) \/ Cut(p, c) PROVE S1 <= H1 + C1 + L1
    <3>1. /\ sent'[p] = sent[p] /\ history'[p] = history[p] /\ lost'[p] = Append(lost[p], 0)
          /\ OnCall(p)' = OnCall(p) \ {c} /\ c \in OnCall(p)
      BY <2>6 DEF Failed, Cut, Ends
    <3>2. S1 = S /\ L1 = L + 1 /\ H1 = H
      BY <1>0, <1>1, <1>5, <3>1, LatelyAppend DEF S, S1, L, L1, H, H1
    <3>3. C = C1 + 1
      BY <3>1, OnCallLess DEF C, C1
    <3>. QED
      BY <1>0, <1>1, <1>2, <3>2, <3>3
  <2>7. Seen(p)
    BY <1>5, Views
  <2>. QED
    BY <2>2, <2>3, <2>4, <2>5, <2>6, <2>7 DEF Seen, View, S1, H1, C1, L1
<1>. QED
  BY <1>3, <1>4, <1>5

-----------------------------------------------------------------------------
\* Callers asleep are not on call, and a caller that does neither leaves room for one more.
LEMMA Roles ==
  ASSUME IInv, NEW p \in Proxy
  PROVE  /\ Cardinality(OnCall(p)) + Cardinality(Asleep(p)) <= Cardinality(Caller)
         /\ \A c \in Caller : c \notin Asleep(p) \cup OnCall(p) =>
              Cardinality(OnCall(p)) + Cardinality(Asleep(p)) < Cardinality(Caller)
         /\ \A c \in Caller : c \notin Asleep(p) => Cardinality(Asleep(p)) < Cardinality(Caller)
<1>. DEFINE U == OnCall(p) \cup Asleep(p)
<1>1. /\ OnCall(p) \in SUBSET Caller /\ Asleep(p) \in SUBSET Caller /\ U \in SUBSET Caller
      /\ OnCall(p) \cap Asleep(p) = {}
  BY DEF OnCall, Asleep
<1>2. /\ IsFiniteSet(OnCall(p)) /\ IsFiniteSet(Asleep(p))
      /\ Cardinality(OnCall(p)) \in Nat /\ Cardinality(Asleep(p)) \in Nat
      /\ Cardinality(U) \in Nat /\ Cardinality(U) <= Cardinality(Caller)
      /\ Cardinality(Caller) \in Nat
  BY <1>1, Callers
<1>3. Cardinality(U) = Cardinality(OnCall(p)) + Cardinality(Asleep(p))
  <2>1. Cardinality(U) = Cardinality(OnCall(p)) + Cardinality(Asleep(p))
                          - Cardinality(OnCall(p) \cap Asleep(p))
    BY <1>2, FS_Union
  <2>2. Cardinality(OnCall(p) \cap Asleep(p)) = 0
    BY <1>1, FS_EmptySet
  <2>. QED
    BY <1>2, <2>1, <2>2
<1>4. ASSUME NEW c \in Caller, c \notin Asleep(p) \cup OnCall(p)
      PROVE  Cardinality(U) < Cardinality(Caller)
  <2>1. c \notin U /\ U \cup {c} \in SUBSET Caller
    BY <1>1, <1>4
  <2>. QED
    BY <1>1, <2>1, OneCallerMore
<1>5. ASSUME NEW c \in Caller, c \notin Asleep(p)
      PROVE  Cardinality(Asleep(p)) < Cardinality(Caller)
  <2>1. Asleep(p) \cup {c} \in SUBSET Caller
    BY <1>1
  <2>. QED
    BY <1>1, <1>5, <2>1, OneCallerMore
<1>. HIDE DEF U
<1>6. \A c \in Caller : c \notin Asleep(p) \cup OnCall(p) =>
        Cardinality(OnCall(p)) + Cardinality(Asleep(p)) < Cardinality(Caller)
  BY <1>3, <1>4
<1>. QED
  BY <1>2, <1>3, <1>5, <1>6

\* Those asleep for a gateway that is isolated may still call it; who calls it gets up.
Leaks(p) ==
  ~Available(p) => Lately(sent[p], sinceFailure[p]) + Cardinality(Asleep(p)) < Cardinality(Caller)

LEMMA LeaksStep ==
  ASSUME IInv, Losses, IInv', Losses', [Next]_vars, NEW p \in Proxy, Leaks(p)
  PROVE  Leaks(p)'
<1>. DEFINE N == Cardinality(Caller)
            F == sinceFailure[p]
            F1 == sinceFailure'[p]
            S == Lately(sent[p], F)
            S1 == Lately(sent'[p], F1)
            A == Cardinality(Asleep(p))
            A1 == Cardinality(Asleep(p)')
<1>1. /\ sent[p] \in Seq(0 .. Window) /\ S \in Nat /\ A \in Nat /\ N \in Nat
      /\ F \in 0 .. Cooldown /\ F1 \in 0 .. Cooldown /\ F \in Nat /\ F1 \in Nat
  <2>1. F \in 0 .. Cooldown /\ F1 \in 0 .. Cooldown
    BY DEF IInv, Types
  <2>2. F \in Nat /\ F1 \in Nat
    BY <2>1, Settings
  <2>. QED
    BY <2>1, <2>2, Counts
<1>2. /\ sent'[p] \in Seq(0 .. Window) /\ S1 \in Nat /\ A1 \in Nat
  <2>1. sent'[p] \in Seq(0 .. Window) /\ Asleep(p)' \in SUBSET Caller
    BY DEF IInv, Types, Asleep
  <2>. QED
    BY <1>1, <2>1, AgesAreNat, LatelySet, Callers
<1>3. SUFFICES ASSUME ~(Available(p)') PROVE S1 + A1 < N
  BY DEF Leaks
<1>4. ~(healthy'[p]) /\ F1 < Cooldown
  BY <1>1, <1>3, Settings DEF Available
<1>5. Asleep(p)' \subseteq Asleep(p) => A1 <= A
  <2>1. Asleep(p) \in SUBSET Caller
    BY DEF Asleep
  <2>. QED
    BY <2>1, Callers
<1>6. ~Available(p) => S + A < N
  BY DEF Leaks
<1>7. Stamps(p)' = Stamps(p) => F1 = F /\ ~Available(p)
  BY <1>3 DEF Stamps, Available
<1>. HIDE DEF N, F, F1, S, S1, A, A1
<1>8. CASE Tick
  <2>1. F1 = Older(F, Cooldown) /\ healthy'[p] = healthy[p]
    BY <1>8 DEF Tick, F, F1
  <2>2. F1 = F + 1 /\ F < Cooldown
    BY <1>1, <1>4, <2>1, Settings DEF Older
  <2>3. ~Available(p)
    BY <1>1, <1>4, <2>1, <2>2, Settings DEF Available, F
  <2>4. sent'[p] = Recent([i \in DOMAIN sent[p] |-> sent[p][i] + 1]) /\ Asleep(p)' = Asleep(p)
    BY <1>8 DEF Tick, Asleep
  <2>5. S1 <= S
    <3>1. Chronological(sent[p])
      BY DEF IInv, Lists
    <3>. QED
      BY <1>1, <2>2, <2>4, <3>1, Faded DEF S, S1
  <2>6. A1 = A
    BY <2>4 DEF A, A1
  <2>. QED
    BY <1>1, <1>2, <1>6, <2>3, <2>5, <2>6
<1>9. CASE Calm(p)
  <2>1. F1 = F /\ ~Available(p)
    BY <1>7, <1>9 DEF Calm
  <2>2. S1 = S /\ A1 <= A
    BY <1>5, <1>9, <2>1 DEF Calm, S, S1
  <2>. QED
    BY <1>1, <1>2, <1>6, <2>1, <2>2
<1>10. ASSUME NEW c \in Caller, Chosen(p, c) \/ Called(p, c) PROVE FALSE
  BY <1>7, <1>10 DEF Chosen, Called
<1>11. ASSUME NEW c \in Caller, Awoken(p, c) PROVE S1 + A1 < N
  <2>1. F1 = F /\ ~Available(p)
    BY <1>7, <1>11 DEF Awoken
  <2>2. sent'[p] = Append(sent[p], 0) /\ c \in Asleep(p) /\ Asleep(p)' = Asleep(p) \ {c}
    BY <1>11 DEF Awoken
  <2>3. S1 <= S + 1
    <3>1. S1 = IF F = 0 THEN 0 ELSE S + 1
      BY <1>1, <2>1, <2>2, LatelyAppend DEF S, S1
    <3>. QED
      BY <1>1, <3>1
  <2>4. A = A1 + 1
    <3>1. /\ Asleep(p)' \in SUBSET Caller /\ Asleep(p) \in SUBSET Caller
          /\ c \notin Asleep(p)' /\ Asleep(p) = Asleep(p)' \cup {c}
      BY <2>2 DEF Asleep
    <3>. QED
      BY <3>1, OneCallerMore DEF A, A1
  <2>. QED
    BY <1>1, <1>2, <1>6, <2>1, <2>3, <2>4
<1>12. ASSUME NEW c \in Caller, Answered(p, c) PROVE FALSE
  BY <1>4, <1>12 DEF Answered
<1>13. ASSUME NEW c \in Caller, Failed(p, c) PROVE S1 + A1 < N
  <2>1. F1 = 0 /\ c \notin Asleep(p) /\ Asleep(p)' = Asleep(p)
    BY <1>13 DEF Failed, Ends, F1
  <2>2. S1 = 0
    BY <1>2, <2>1, LatelyNone DEF S1
  <2>3. A < N /\ A1 = A
    BY <2>1, Roles DEF A, A1, N
  <2>. QED
    BY <1>1, <1>2, <2>2, <2>3
<1>14. ASSUME NEW c \in Caller, Cut(p, c) PROVE S1 + A1 < N
  <2>1. F1 = F /\ ~Available(p)
    BY <1>7, <1>14 DEF Cut
  <2>2. S1 = S /\ A1 = A
    BY <1>14, <2>1 DEF Cut, Ends, S, S1, A, A1
  <2>. QED
    BY <1>6, <2>1, <2>2
<1>15. Tick \/ Seen(p)
  BY Views
<1>. QED
  BY <1>8, <1>9, <1>10, <1>11, <1>12, <1>13, <1>14, <1>15 DEF Seen, View

\* An age a unit of time later.
LEMMA OlderBy ==
  ASSUME NEW cap \in Nat, NEW a \in 0 .. cap
  PROVE  Older(a, cap) \in 0 .. cap /\ Older(a, cap) \in Nat /\ Older(a, cap) <= a + 1
BY DEF Older

\* A healthy gateway that failed within the interval has answered since.
Healed(p) == healthy[p] /\ sinceFailure[p] < MinInterval => sinceCall[p] <= sinceFailure[p]

\* What was sent since the last answer and the last failure is under way or was cancelled.
Unsettled(p) ==
  \A n \in 0 .. MinInterval : n <= sinceCall[p] /\ n <= sinceFailure[p] =>
    Lately(sent[p], n) <= Cardinality(OnCall(p)) + aborts

\* those that will wake up within x
Waking(p, x) == {c \in Asleep(p) : wait[c] <= x}

\* Whatever interval is cut in two, those that sent in its first part and those that will
\* wake up in the second are different callers, but for cancelled requests.
Spread(p) ==
  \A x \in 0 .. MinInterval :
    Lately(sent[p], MinInterval - x) + Cardinality(Waking(p, x)) <= Cardinality(Caller) + aborts

Paced(p) == Healed(p) /\ Unsettled(p) /\ Spread(p)

\* The settings of the code: the cooldown is 60 s, the interval 2 s.
SpacingSettings == MinInterval <= Cooldown

LEMMA HealedStep ==
  ASSUME IInv, Losses, [Next]_vars, SpacingSettings, NEW p \in Proxy, Healed(p)
  PROVE  Healed(p)'
<1>1. /\ sinceCall[p] \in 0 .. MinInterval /\ sinceFailure[p] \in 0 .. Cooldown
      /\ MinInterval \in Nat /\ Cooldown \in Nat /\ MinInterval <= Cooldown
  BY Settings DEF IInv, Types, SpacingSettings
<1>2. CASE Tick
  <2>1. /\ sinceCall'[p] = Older(sinceCall[p], MinInterval)
        /\ sinceFailure'[p] = Older(sinceFailure[p], Cooldown)
        /\ healthy'[p] = healthy[p]
    BY <1>2 DEF Tick
  <2>. QED
    BY <1>1, <2>1 DEF Healed, Older
<1>3. CASE Stamps(p)' = Stamps(p)
  BY <1>3 DEF Stamps, Healed
<1>4. ASSUME NEW c \in Caller, Answered(p, c) \/ Failed(p, c) PROVE Healed(p)'
  BY <1>1, <1>4 DEF Answered, Failed, Healed
<1>5. Tick \/ Seen(p)
  BY Views
<1>. QED
  BY <1>2, <1>3, <1>4, <1>5 DEF Seen, View, Calm, Chosen, Called, Awoken, Cut

LEMMA UnsettledStep ==
  ASSUME IInv, Losses, IInv', [Next]_vars, SpacingSettings, NEW p \in Proxy, Unsettled(p)
  PROVE  Unsettled(p)'
<1>. SUFFICES ASSUME NEW n \in 0 .. MinInterval, n <= sinceCall'[p], n <= sinceFailure'[p]
              PROVE  Lately(sent'[p], n) <= Cardinality(OnCall(p)') + aborts'
  BY DEF Unsettled
<1>. DEFINE S == Lately(sent[p], n)
            S1 == Lately(sent'[p], n)
            C == Cardinality(OnCall(p))
            C1 == Cardinality(OnCall(p)')
<1>0. n \in Nat
  BY Settings
<1>1. /\ sent[p] \in Seq(0 .. Window) /\ S \in Nat /\ C \in Nat /\ aborts \in Nat
      /\ sinceCall[p] \in 0 .. MinInterval /\ sinceFailure[p] \in 0 .. Cooldown
  BY <1>0, Counts
<1>2. /\ sent'[p] \in Seq(0 .. Window) /\ S1 \in Nat /\ C1 \in Nat /\ aborts' \in Nat
  <2>1. sent'[p] \in Seq(0 .. Window) /\ OnCall(p)' \in SUBSET Caller /\ aborts' \in Nat
    BY Settings DEF IInv, Types, OnCall
  <2>. QED
    BY <1>0, <2>1, AgesAreNat, LatelySet, Callers
<1>3. n <= sinceCall[p] /\ n <= sinceFailure[p] => S <= C + aborts
  BY DEF Unsettled
<1>4. Stamps(p)' = Stamps(p) => S <= C + aborts
  BY <1>3 DEF Stamps
<1>. HIDE DEF S, S1, C, C1
<1>5. CASE n = 0
  <2>1. S1 = 0
    BY <1>2, <1>5, LatelyNone DEF S1
  <2>2. S1 <= C1 + aborts'
    BY <1>2, <2>1
  <2>. QED
    BY <2>2 DEF S1, C1
<1>6. CASE n # 0 /\ Tick
  <2>. DEFINE m == n - 1
  <2>1. m \in 0 .. MinInterval /\ m \in Nat /\ m + 1 = n
    BY <1>0, <1>6, Settings
  <2>2. m <= sinceCall[p] /\ m <= sinceFailure[p]
    <3>1. /\ sinceCall'[p] = Older(sinceCall[p], MinInterval)
          /\ sinceFailure'[p] = Older(sinceFailure[p], Cooldown)
      BY <1>6 DEF Tick
    <3>2. /\ sinceCall'[p] \in Nat /\ sinceCall'[p] <= sinceCall[p] + 1
          /\ sinceFailure'[p] \in Nat /\ sinceFailure'[p] <= sinceFailure[p] + 1
          /\ sinceCall[p] \in Nat /\ sinceFailure[p] \in Nat
      <4>1. Older(sinceCall[p], MinInterval) \in Nat /\ Older(sinceCall[p], MinInterval) <= sinceCall[p] + 1
        BY <1>1, Settings, OlderBy
      <4>2. Older(sinceFailure[p], Cooldown) \in Nat /\ Older(sinceFailure[p], Cooldown) <= sinceFailure[p] + 1
        BY <1>1, Settings, OlderBy
      <4>. QED
        BY <1>1, <3>1, <4>1, <4>2, Settings
    <3>. QED
      BY <1>0, <3>2
  <2>. HIDE DEF m
  <2>3. Lately(sent[p], m) <= C + aborts
    BY <2>1, <2>2 DEF Unsettled, C
  <2>4. /\ sent'[p] = Recent([i \in DOMAIN sent[p] |-> sent[p][i] + 1])
        /\ OnCall(p)' = OnCall(p) /\ aborts' = aborts
    BY <1>6 DEF Tick, OnCall
  <2>5. S1 <= Lately(sent[p], m)
    <3>1. Chronological(sent[p])
      BY DEF IInv, Lists
    <3>. QED
      BY <1>1, <2>1, <2>4, <3>1, Faded DEF S1
  <2>6. Lately(sent[p], m) \in Nat
    BY <2>1, Counts
  <2>7. C1 = C
    BY <2>4 DEF C, C1
  <2>8. S1 <= C1 + aborts'
    <3>1. \A a, b, c, d \in Nat : a <= b /\ b <= c + d => a <= c + d
      OBVIOUS
    <3>. QED
      BY <1>1, <1>2, <2>3, <2>4, <2>5, <2>6, <2>7, <3>1
  <2>. QED
    BY <2>8 DEF S1, C1
<1>7. CASE n # 0 /\ ~Tick
  <2>1. ASSUME Calm(p) PROVE S1 <= C1 + aborts'
    <3>1. S1 = S /\ C1 = C /\ S <= C + aborts /\ aborts <= aborts'
      BY <1>1, <1>2, <1>4, <2>1 DEF Calm, S, S1, C, C1
    <3>2. \A s, k, a, b \in Nat : s <= k + a /\ a <= b => s <= k + b
      OBVIOUS
    <3>. QED
      BY <1>1, <1>2, <3>1, <3>2
  <2>2. ASSUME NEW c \in Caller, Chosen(p, c) PROVE S1 <= C1 + aborts'
    <3>1. S1 = S /\ C1 = C /\ S <= C + aborts /\ aborts' = aborts
      BY <1>4, <2>2 DEF Chosen, S, S1, C, C1
    <3>. QED
      BY <3>1
  <2>3. ASSUME NEW c \in Caller, Called(p, c) \/ Awoken(p, c) PROVE S1 <= C1 + aborts'
    <3>1. /\ sent'[p] = Append(sent[p], 0) /\ Stamps(p)' = Stamps(p) /\ aborts' = aborts
          /\ OnCall(p)' = OnCall(p) \cup {c} /\ c \notin OnCall(p)
      BY <2>3 DEF Called, Awoken
    <3>2. S1 = S + 1
      BY <1>0, <1>1, <1>7, <3>1, LatelyAppend DEF S, S1
    <3>3. C1 = C + 1 /\ S <= C + aborts
      BY <1>4, <3>1, OnCallMore DEF C, C1
    <3>4. \A s, k, a \in Nat : s <= k + a => s + 1 <= k + 1 + a
      OBVIOUS
    <3>. QED
      BY <1>1, <3>1, <3>2, <3>3, <3>4
  <2>4. ASSUME NEW c \in Caller, Answered(p, c) \/ Failed(p, c) PROVE FALSE
    <3>1. sinceCall'[p] = 0 \/ sinceFailure'[p] = 0
      BY <2>4 DEF Answered, Failed
    <3>. QED
      BY <1>0, <1>7, <3>1
  <2>5. ASSUME NEW c \in Caller, Cut(p, c) PROVE S1 <= C1 + aborts'
    <3>1. /\ sent'[p] = sent[p] /\ Stamps(p)' = Stamps(p) /\ aborts' = aborts + 1
          /\ OnCall(p)' = OnCall(p) \ {c} /\ c \in OnCall(p)
      BY <2>5 DEF Cut, Ends
    <3>2. S1 = S /\ S <= C + aborts /\ C = C1 + 1
      BY <1>4, <3>1, OnCallLess DEF S, S1, C, C1
    <3>. QED
      BY <1>1, <1>2, <3>1, <3>2
  <2>6. Seen(p)
    BY <1>7, Views
  <2>7. S1 <= C1 + aborts'
    BY <2>1, <2>2, <2>3, <2>4, <2>5, <2>6 DEF Seen, View
  <2>. QED
    BY <2>7 DEF S1, C1
<1>. QED
  BY <1>5, <1>6, <1>7

LEMMA SpreadStep ==
  ASSUME IInv, Losses, IInv', [Next]_vars, SpacingSettings, NEW p \in Proxy, Paced(p)
  PROVE  Spread(p)'
<1>. SUFFICES ASSUME NEW x \in 0 .. MinInterval
              PROVE  Lately(sent'[p], MinInterval - x) + Cardinality(Waking(p, x)')
                       <= Cardinality(Caller) + aborts'
  BY DEF Spread
<1>. DEFINE n == MinInterval - x
            N == Cardinality(Caller)
            S == Lately(sent[p], n)
            S1 == Lately(sent'[p], n)
            W == Cardinality(Waking(p, x))
            W1 == Cardinality(Waking(p, x)')
<1>0. n \in 0 .. MinInterval /\ n \in Nat /\ x \in Nat /\ n = MinInterval - x /\ MinInterval \in Nat
  BY Settings
<1>. HIDE DEF n
<1>1. /\ sent[p] \in Seq(0 .. Window) /\ S \in Nat /\ N \in Nat /\ aborts \in Nat
      /\ sinceCall[p] \in 0 .. MinInterval /\ sinceFailure[p] \in 0 .. Cooldown
      /\ Cardinality(OnCall(p)) \in Nat /\ Cardinality(Asleep(p)) \in Nat
  BY <1>0, Counts
<1>2. /\ sent'[p] \in Seq(0 .. Window) /\ S1 \in Nat /\ aborts' \in Nat
  <2>1. sent'[p] \in Seq(0 .. Window) /\ aborts' \in Nat
    BY Settings DEF IInv, Types
  <2>. QED
    BY <1>0, <2>1, AgesAreNat, LatelySet
<1>3. /\ Waking(p, x) \in SUBSET Asleep(p) /\ Asleep(p) \in SUBSET Caller
      /\ Waking(p, x)' \in SUBSET Caller
  BY DEF Waking, Asleep
<1>4. /\ W \in Nat /\ W1 \in Nat /\ W <= Cardinality(Asleep(p)) /\ W1 <= N
      /\ (Waking(p, x)' \subseteq Waking(p, x) => W1 <= W)
  BY <1>3, Callers
<1>5. S + W <= N + aborts
  <2>1. Spread(p) /\ x \in 0 .. MinInterval
    BY DEF Paced
  <2>. QED
    BY <2>1 DEF Spread, n
<1>. HIDE DEF N, S, S1, W, W1
<1>6. SleepOn(p, {}) => Waking(p, x)' \subseteq Waking(p, x)
  BY DEF SleepOn, Waking
<1>7. SUFFICES S1 + W1 <= N + aborts'
  BY DEF n, N, S1, W1
<1>8. CASE Tick
  <2>1. /\ sent'[p] = Recent([i \in DOMAIN sent[p] |-> sent[p][i] + 1]) /\ aborts' = aborts
        /\ Asleep(p)' = Asleep(p)
        /\ \A c \in Caller : wait'[c] = IF wait[c] > 0 THEN wait[c] - 1 ELSE 0
    BY <1>8 DEF Tick, Asleep
  <2>2. CASE n = 0
    <3>1. S1 = 0
      BY <1>2, <2>2, LatelyNone DEF S1
    <3>2. \A w, k, a \in Nat : w <= k => 0 + w <= k + a
      OBVIOUS
    <3>. QED
      BY <1>1, <1>2, <1>4, <3>1, <3>2
  <2>3. CASE n # 0
    <3>. DEFINE m == n - 1
    <3>1. m \in Nat /\ m + 1 = n /\ x + 1 \in 0 .. MinInterval /\ MinInterval - (x + 1) = m
      BY <1>0, <2>3
    <3>. HIDE DEF m
    <3>2. Lately(sent[p], m) + Cardinality(Waking(p, x + 1)) <= N + aborts
      <4>1. Spread(p)
        BY DEF Paced
      <4>2. Lately(sent[p], MinInterval - (x + 1)) + Cardinality(Waking(p, x + 1)) <= N + aborts
        BY <3>1, <4>1 DEF Spread, N
      <4>. QED
        BY <3>1, <4>2
    <3>3. S1 <= Lately(sent[p], m) /\ Lately(sent[p], m) \in Nat
      <4>1. Chronological(sent[p])
        BY DEF IInv, Lists
      <4>. QED
        BY <1>1, <2>1, <3>1, <4>1, Faded, Counts DEF S1
    <3>4. W1 = Cardinality(Waking(p, x + 1)) /\ Cardinality(Waking(p, x + 1)) \in Nat
      <4>1. \A c \in Caller : wait[c] \in Nat
        BY Settings DEF IInv, Types
      <4>2. \A c \in Caller : wait'[c] <= x <=> wait[c] <= x + 1
        BY <1>0, <2>1, <4>1
      <4>3. Waking(p, x)' = Waking(p, x + 1)
        BY <1>3, <2>1, <4>2 DEF Waking
      <4>. QED
        BY <1>4, <4>3 DEF W1
    <3>5. \A a, b, w, k, l \in Nat : a <= b /\ b + w <= k + l => a + w <= k + l
      OBVIOUS
    <3>. QED
      BY <1>1, <1>2, <1>4, <2>1, <3>2, <3>3, <3>4, <3>5
  <2>. QED
    BY <2>2, <2>3
<1>9. CASE Calm(p)
  <2>1. S1 = S /\ W1 <= W /\ aborts <= aborts'
    BY <1>1, <1>2, <1>4, <1>6, <1>9 DEF Calm, S, S1
  <2>2. \A s, w, w1, k, a, b \in Nat : s + w <= k + a /\ w1 <= w /\ a <= b => s + w1 <= k + b
    OBVIOUS
  <2>. QED
    BY <1>1, <1>2, <1>4, <1>5, <2>1, <2>2
<1>10. ASSUME Available(p), n <= sinceCall[p] PROVE S <= Cardinality(OnCall(p)) + aborts
  <2>1. n <= sinceFailure[p]
    <3>. SUFFICES ASSUME ~(n <= sinceFailure[p]) PROVE FALSE
      OBVIOUS
    <3>1. sinceFailure[p] < n /\ sinceFailure[p] < MinInterval /\ sinceFailure[p] < Cooldown
      BY <1>0, <1>1, Settings DEF SpacingSettings
    <3>2. healthy[p]
      BY <1>0, <1>1, <1>10, <3>1, Settings DEF Available
    <3>3. sinceCall[p] <= sinceFailure[p]
      BY <3>1, <3>2 DEF Paced, Healed
    <3>. QED
      BY <1>0, <1>1, <1>10, <3>1, <3>3, Settings
  <2>. QED
    BY <1>0, <1>10, <2>1 DEF Paced, Unsettled, S
<1>11. ASSUME NEW c \in Caller, Chosen(p, c) PROVE S1 + W1 <= N + aborts'
  <2>1. /\ Available(p) /\ c \notin Asleep(p) \cup OnCall(p) /\ sent'[p] = sent[p]
        /\ aborts' = aborts /\ SleepOn(p, {c}) /\ wait'[c] = Spacing(p)
    BY <1>11 DEF Chosen
  <2>2. S1 = S
    BY <2>1 DEF S, S1
  <2>3. CASE c \notin Waking(p, x)'
    <3>1. Waking(p, x)' \subseteq Waking(p, x)
      BY <2>1, <2>3 DEF SleepOn, Waking
    <3>2. W1 <= W
      BY <1>4, <3>1
    <3>3. \A s, w, w1, k, a \in Nat : s + w <= k + a /\ w1 <= w => s + w1 <= k + a
      OBVIOUS
    <3>. QED
      BY <1>1, <1>4, <1>5, <2>1, <2>2, <3>2, <3>3
  <2>4. CASE c \in Waking(p, x)'
    <3>1. Spacing(p) <= x
      BY <2>1, <2>4 DEF Waking
    <3>2. n <= sinceCall[p]
      <4>1. Spacing(p) \in Nat /\ sinceCall[p] \in Nat /\ sinceCall[p] + Spacing(p) >= MinInterval
        BY <1>0, SpacingShape DEF IInv, Types
      <4>. QED
        BY <1>0, <3>1, <4>1
    <3>3. S <= Cardinality(OnCall(p)) + aborts
      BY <1>10, <2>1, <3>2
    <3>4. W1 <= W + 1
      <4>1. Waking(p, x) \cup {c} \in SUBSET Caller /\ Waking(p, x) \in SUBSET Caller
            /\ c \notin Waking(p, x)
        BY <1>3, <2>1 DEF Waking
      <4>2. Waking(p, x)' \subseteq Waking(p, x) \cup {c}
        BY <2>1 DEF SleepOn, Waking
      <4>3. Cardinality(Waking(p, x) \cup {c}) = W + 1
        BY <4>1, OneCallerMore DEF W
      <4>. QED
        BY <4>1, <4>2, <4>3, Callers DEF W1
    <3>5. Cardinality(OnCall(p)) + Cardinality(Asleep(p)) < N
      BY <2>1, Roles DEF N
    <3>6. \A s, w, w1, k, a, h, l \in Nat :
            s <= h + a /\ w1 <= w + 1 /\ w <= l /\ h + l < k => s + w1 <= k + a
      OBVIOUS
    <3>. QED
      BY <1>1, <1>4, <2>1, <2>2, <3>3, <3>4, <3>5, <3>6
  <2>. QED
    BY <2>3, <2>4
<1>12. ASSUME NEW c \in Caller, Called(p, c) PROVE S1 + W1 <= N + aborts'
  <2>1. /\ Available(p) /\ Spacing(p) = 0 /\ c \notin Asleep(p) \cup OnCall(p)
        /\ sent'[p] = Append(sent[p], 0)
        /\ aborts' = aborts /\ SleepOn(p, {c}) /\ Asleep(p)' = Asleep(p)
    BY <1>12 DEF Called
  <2>2. S1 <= S + 1
    <3>1. S1 = IF n = 0 THEN 0 ELSE S + 1
      BY <1>0, <1>1, <2>1, LatelyAppend DEF S, S1
    <3>. QED
      BY <1>1, <3>1
  <2>3. n <= sinceCall[p]
    BY <1>0, <1>1, <2>1 DEF Spacing
  <2>4. S <= Cardinality(OnCall(p)) + aborts
    BY <1>10, <2>1, <2>3
  <2>5. W1 <= W
    <3>1. Waking(p, x)' \subseteq Waking(p, x)
      BY <2>1 DEF SleepOn, Waking
    <3>. QED
      BY <1>4, <3>1
  <2>6. Cardinality(OnCall(p)) + Cardinality(Asleep(p)) < N
    BY <2>1, Roles DEF N
  <2>7. \A s, s1, w, w1, k, a, h, l \in Nat :
          s1 <= s + 1 /\ s <= h + a /\ w1 <= w /\ w <= l /\ h + l < k => s1 + w1 <= k + a
    OBVIOUS
  <2>. QED
    BY <1>1, <1>2, <1>4, <2>1, <2>2, <2>4, <2>5, <2>6, <2>7
<1>13. ASSUME NEW c \in Caller, Awoken(p, c) PROVE S1 + W1 <= N + aborts'
  <2>1. /\ c \in Asleep(p) /\ wait[c] = 0 /\ sent'[p] = Append(sent[p], 0) /\ aborts' = aborts
        /\ SleepOn(p, {c}) /\ Asleep(p)' = Asleep(p) \ {c}
    BY <1>13 DEF Awoken
  <2>2. S1 <= S + 1
    <3>1. S1 = IF n = 0 THEN 0 ELSE S + 1
      BY <1>0, <1>1, <2>1, LatelyAppend DEF S, S1
    <3>. QED
      BY <1>1, <3>1
  <2>3. W1 + 1 <= W
    <3>1. c \in Waking(p, x) /\ c \notin Waking(p, x)' /\ Waking(p, x)' \subseteq Waking(p, x)
      BY <1>0, <2>1 DEF SleepOn, Waking
    <3>2. /\ Waking(p, x)' \cup {c} \subseteq Waking(p, x) /\ Waking(p, x) \in SUBSET Caller
          /\ Waking(p, x)' \cup {c} \in SUBSET Caller
      BY <1>3, <3>1
    <3>3. Cardinality(Waking(p, x)' \cup {c}) = W1 + 1
      BY <1>3, <3>1, <3>2, OneCallerMore DEF W1
    <3>. QED
      BY <3>2, <3>3, Callers DEF W
  <2>4. \A s, s1, w, w1, k \in Nat : s1 <= s + 1 /\ w1 + 1 <= w /\ s + w <= k => s1 + w1 <= k
    OBVIOUS
  <2>5. N + aborts \in Nat
    BY <1>1
  <2>. QED
    BY <1>1, <1>2, <1>4, <1>5, <2>1, <2>2, <2>3, <2>4, <2>5
<1>14. ASSUME NEW c \in Caller, Answered(p, c) \/ Failed(p, c) \/ Cut(p, c)
       PROVE  S1 + W1 <= N + aborts'
  <2>1. /\ c \notin Asleep(p) /\ sent'[p] = sent[p] /\ SleepOn(p, {c})
        /\ Asleep(p)' = Asleep(p) /\ aborts' \in {aborts, aborts + 1}
    BY <1>14 DEF Answered, Failed, Cut, Ends
  <2>2. S1 = S
    BY <2>1 DEF S, S1
  <2>3. W1 <= W
    <3>1. Waking(p, x)' \subseteq Waking(p, x)
      BY <2>1 DEF SleepOn, Waking
    <3>. QED
      BY <1>4, <3>1
  <2>4. \A s, w, w1, k, a, b \in Nat :
          s + w <= k + a /\ w1 <= w /\ b \in {a, a + 1} => s + w1 <= k + b
    OBVIOUS
  <2>. QED
    BY <1>1, <1>2, <1>4, <1>5, <2>1, <2>2, <2>3, <2>4
<1>15. Tick \/ Seen(p)
  BY Views
<1>. QED
  BY <1>8, <1>9, <1>11, <1>12, <1>13, <1>14, <1>15 DEF Seen, View

-----------------------------------------------------------------------------
(* The promises to a gateway that concurrent callers keep *)

Shared == Losses /\ \A p \in Proxy : Accounted(p) /\ Leaks(p)

LEMMA InitShared == Init => Shared
<1>. SUFFICES ASSUME Init PROVE Shared
  OBVIOUS
<1>1. <<>> \in Seq(0 .. Window) /\ Len(<<>>) = 0 /\ Chronological(<<>>)
  BY EmptySeq DEF Chronological
<1>2. Losses
  BY <1>1 DEF Init, Losses
<1>3. ASSUME NEW p \in Proxy PROVE Accounted(p) /\ Leaks(p)
  <2>1. sent[p] = <<>> /\ history[p] = <<>> /\ lost[p] = <<>> /\ healthy[p] = TRUE
    BY DEF Init
  <2>2. \A n \in Nat : Lately(<<>>, n) = 0
    <3>1. <<>> \in Seq(Nat) /\ Len(<<>>) = 0
      BY EmptySeq
    <3>2. \A n \in Nat : Lately(<<>>, n) \in Nat /\ Lately(<<>>, n) <= 0
      BY <3>1, LatelySet
    <3>. QED
      BY <3>2
  <2>3. Cardinality(OnCall(p)) \in Nat
    <3>1. OnCall(p) \in SUBSET Caller
      BY DEF OnCall
    <3>. QED
      BY <3>1, Callers
  <2>4. \A n \in 0 .. Window : n \in Nat
    BY Settings
  <2>5. Accounted(p)
    BY <2>1, <2>2, <2>3, <2>4 DEF Accounted
  <2>. QED
    BY <2>1, <2>5 DEF Leaks, Available
<1>. QED
  BY <1>2, <1>3 DEF Shared

LEMMA SharedStep == IInv /\ Shared /\ [Next]_vars => Shared'
<1>. SUFFICES ASSUME IInv, Shared, [Next]_vars PROVE Shared'
  OBVIOUS
<1>1. IInv'
  BY Step
<1>2. Losses'
  BY LossesStep DEF Shared
<1>3. ASSUME NEW p \in Proxy PROVE Accounted(p)' /\ Leaks(p)'
  BY <1>1, <1>2, AccountedStep, LeaksStep DEF Shared
<1>. QED
  BY <1>2, <1>3 DEF Shared

LEMMA SharedAlways == Spec => []Shared
BY InitShared, SharedStep, Inductive, PTL DEF Spec

\* Every variable of the router stays in its domain.
THEOREM TypeCorrect == Spec => []TypeOK
<1>1. IInv /\ Shared => TypeOK
  <2>. SUFFICES ASSUME IInv, Shared PROVE TypeOK
    OBVIOUS
  <2>1. ToSet(order) = Proxy
    BY DEF IInv, Ordered, ToSet, Range
  <2>2. {sent, lost} \subseteq [Proxy -> Seq(0 .. Window)]
    BY DEF IInv, Types, Shared, Losses
  <2>. QED
    BY <2>1, <2>2 DEF IInv, Types, TypeOK
<1>. QED
  BY <1>1, Inductive, SharedAlways, PTL

\* The sliding-window quota of a gateway (soap_router.py:12) under concurrent callers: of the
\* requests it is sent within a window, those that were not lost - failed or cancelled, which
\* record_call never sees (253-254) - exceed MaxPerWindow by less than the number of callers.
THEOREM QuotaOverrunBounded == Spec => []OverrunBounded
<1>1. IInv /\ Shared => OverrunBounded
  <2>. SUFFICES ASSUME IInv, Shared, NEW p \in Proxy
                PROVE  Len(sent[p]) < MaxPerWindow + Cardinality(Caller) + Len(lost[p])
    BY DEF OverrunBounded
  <2>. DEFINE S == Lately(sent[p], Window)
              H == Lately(history[p], Window)
              L == Lately(lost[p], Window)
              C == Cardinality(OnCall(p))
              D == Cardinality(Holding(p))
  <2>1. /\ sent[p] \in Seq(0 .. Window) /\ history[p] \in Seq(0 .. Window)
        /\ lost[p] \in Seq(0 .. Window)
        /\ S \in Nat /\ H \in Nat /\ L \in Nat /\ C \in Nat /\ Cardinality(Caller) \in Nat
    BY Counts, Settings DEF Shared
  <2>2. S <= H + C + L
    <3>1. Window \in 0 .. Window /\ Accounted(p)
      BY Settings DEF Shared
    <3>. QED
      BY <3>1 DEF Accounted
  <2>3. Len(sent[p]) = S /\ Len(lost[p]) = L
    BY <2>1, LatelyAll DEF IInv, Lists, Shared, Losses
  <2>4. H <= Len(history[p]) /\ Len(history[p]) \in Nat
    BY <2>1, AgesAreNat, LatelySet, LenProperties, Settings
  <2>5. C <= D /\ D \in Nat
    <3>1. Holding(p) \in SUBSET Caller /\ OnCall(p) \in SUBSET Holding(p)
      BY DEF Holding, OnCall
    <3>. QED
      BY <3>1, Callers
  <2>6. Len(history[p]) + D < MaxPerWindow + Cardinality(Caller)
    BY DEF IInv, Booked
  <2>. HIDE DEF S, H, L, C, D
  <2>7. \A s, h, l, c, d, k, m, b \in Nat :
          s <= h + c + l /\ h <= k /\ c <= d /\ k + d < m + b => s < m + b + l
    OBVIOUS
  <2>. QED
    BY <2>1, <2>2, <2>3, <2>4, <2>5, <2>6, <2>7, Settings
<1>. QED
  BY <1>1, Inductive, SharedAlways, PTL

\* The isolation of a failing gateway (soap_router.py:15) under concurrent callers: while it
\* lasts, fewer requests reach the gateway than there are callers: those of others that had
\* selected it and were asleep when it failed (238).
THEOREM LeaksAreBounded == Spec => []LeakBounded
<1>1. IInv /\ Shared => LeakBounded
  <2>. SUFFICES ASSUME IInv, Shared, NEW p \in Proxy, ~Available(p)
                PROVE  Lately(sent[p], sinceFailure[p]) < Cardinality(Caller)
    BY DEF LeakBounded
  <2>1. sinceFailure[p] \in Nat
    BY Settings DEF IInv, Types
  <2>2. /\ Lately(sent[p], sinceFailure[p]) \in Nat /\ Cardinality(Asleep(p)) \in Nat
        /\ Cardinality(Caller) \in Nat
    BY <2>1, Counts DEF Shared
  <2>3. Lately(sent[p], sinceFailure[p]) + Cardinality(Asleep(p)) < Cardinality(Caller)
    BY DEF Shared, Leaks
  <2>. QED
    BY <2>2, <2>3
<1>. QED
  BY <1>1, Inductive, SharedAlways, PTL

\* The spacing of a gateway (soap_router.py:12) under concurrent callers: within an interval
\* it gets no more requests than there are callers, cancelled ones aside.  What a caller sends
\* within the interval of its own last request is kept away by the stamp of its answer (254)
\* or by the cooldown of its failure (255-256), which the settings make the longer of the two.
THEOREM BurstsAreBounded == SpacingSettings => (Spec => []BurstBounded)
<1>. SUFFICES ASSUME SpacingSettings PROVE Spec => []BurstBounded
  OBVIOUS
<1>. DEFINE Pace == \A p \in Proxy : Paced(p)
<1>1. Init => Pace
  <2>. SUFFICES ASSUME Init, NEW p \in Proxy PROVE Paced(p)
    OBVIOUS
  <2>1. sent[p] = <<>> /\ sinceFailure[p] = Cooldown /\ Asleep(p) = {} /\ aborts = 0
    BY DEF Init, Asleep
  <2>2. \A n \in Nat : Lately(<<>>, n) = 0
    <3>1. <<>> \in Seq(Nat) /\ Len(<<>>) = 0
      BY EmptySeq
    <3>2. \A n \in Nat : Lately(<<>>, n) \in Nat /\ Lately(<<>>, n) <= 0
      BY <3>1, LatelySet
    <3>. QED
      BY <3>2
  <2>3. Cardinality(OnCall(p)) \in Nat /\ Cardinality(Caller) \in Nat
    <3>1. OnCall(p) \in SUBSET Caller
      BY DEF OnCall
    <3>. QED
      BY <3>1, Callers
  <2>4. Healed(p)
    BY <2>1, Settings DEF Healed, SpacingSettings
  <2>5. Unsettled(p)
    BY <2>1, <2>2, <2>3, Settings DEF Unsettled
  <2>6. Spread(p)
    <3>1. \A x \in 0 .. MinInterval : MinInterval - x \in Nat /\ Waking(p, x) = {}
      BY <2>1, Settings DEF Waking
    <3>2. Cardinality({}) = 0
      BY FS_EmptySet
    <3>. SUFFICES ASSUME NEW x \in 0 .. MinInterval
                  PROVE  Lately(sent[p], MinInterval - x) + Cardinality(Waking(p, x))
                           <= Cardinality(Caller) + aborts
      BY DEF Spread
    <3>3. Lately(sent[p], MinInterval - x) = 0 /\ Cardinality(Waking(p, x)) = 0
      BY <2>1, <2>2, <3>1, <3>2
    <3>. QED
      BY <2>1, <2>3, <3>3
  <2>. QED
    BY <2>4, <2>5, <2>6 DEF Paced
<1>2. IInv /\ Shared /\ Pace /\ [Next]_vars => Pace'
  <2>. SUFFICES ASSUME IInv, Shared, Pace, [Next]_vars PROVE Pace'
    OBVIOUS
  <2>1. IInv' /\ Losses
    BY Step DEF Shared
  <2>2. ASSUME NEW p \in Proxy PROVE Paced(p)'
    <3>1. Paced(p) /\ Healed(p) /\ Unsettled(p)
      BY DEF Paced
    <3>. QED
      BY <2>1, <3>1, HealedStep, UnsettledStep, SpreadStep DEF Paced
  <2>. QED
    BY <2>2
<1>3. IInv /\ Shared /\ Pace => BurstBounded
  <2>. SUFFICES ASSUME IInv, Shared, Pace, NEW p \in Proxy
                PROVE  Lately(sent[p], MinInterval) <= Cardinality(Caller) + aborts
    BY DEF BurstBounded
  <2>1. 0 \in 0 .. MinInterval /\ MinInterval - 0 = MinInterval /\ MinInterval \in Nat
    BY Settings
  <2>2. Lately(sent[p], MinInterval) + Cardinality(Waking(p, 0)) <= Cardinality(Caller) + aborts
    <3>1. Lately(sent[p], MinInterval - 0) + Cardinality(Waking(p, 0)) <= Cardinality(Caller) + aborts
      BY <2>1 DEF Paced, Spread
    <3>. QED
      BY <2>1, <3>1
  <2>3. Cardinality(Waking(p, 0)) \in Nat
    <3>1. Waking(p, 0) \in SUBSET Caller
      BY DEF Waking, Asleep
    <3>. QED
      BY <3>1, Callers
  <2>4. /\ Lately(sent[p], MinInterval) \in Nat /\ Cardinality(Caller) \in Nat /\ aborts \in Nat
    BY <2>1, Counts DEF Shared
  <2>. QED
    BY <2>2, <2>3, <2>4
<1>. QED
  BY <1>1, <1>2, <1>3, Inductive, SharedAlways, PTL DEF Spec

(***************************************************************************)
(* What each gateway is promised, with one caller at a time.  A cancelled  *)
(* call has been sent and is not recorded, so spacing and quota also need  *)
(* MaxAborts = 0; and a failed call is not recorded either: what keeps the *)
(* promises after it is the cooldown, if the settings leave it room to.    *)
(***************************************************************************)
OneCaller       == \A c, d \in Caller : c = d
NoDisconnects   == MaxAborts = 0
QuotaSettings   == Window <= Cooldown + (MaxPerWindow - 1) * MinInterval

Calling(p) == \E c \in Caller : pc[c] = "proxy" /\ via[c] = p

\* a caller sleeps for a proxy that is available
Isolated == \A c \in Caller : pc[c] = "sleep" => Available(via[c])

\* the last request to a gateway is no younger than the stamp that delays the next
\* one, and a sleep lasts at least until the interval is over
Timely ==
  /\ \A p \in Proxy : ~Calling(p) /\ sent[p] # <<>>
       => Last(sent[p]) >= IF healthy[p] THEN sinceCall[p] ELSE sinceFailure[p]
  /\ \A c \in Caller : pc[c] = "sleep" => sinceCall[via[c]] + wait[c] >= MinInterval

Intervals(k) == k * MinInterval

\* requests are at least MinInterval apart, seen from the last one
Apart(s) == \A i \in 1 .. Len(s) : s[i] >= s[Len(s)] + Intervals(Len(s) - i)

\* the requests after the f-th and up to the m-th were recorded after they were sent
Recorded(s, h, m, f) ==
  \A k \in f + 1 .. m : Len(h) - (m - k) >= 1 /\ h[Len(h) - (m - k)] <= s[k]

\* the f-th request failed: a cooldown has passed since then, or will before the next
Overdue(s, f, since) ==
  \A i \in 1 .. f :
    s[i] >= IF f < Len(s)
            THEN s[Len(s)] + (Intervals(Len(s) - 1 - i) + Cooldown)
            ELSE Intervals(Len(s) - i) + since

\* all that was sent lately and completed was recorded, but for what came before a
\* failure
Tracked(s, h, busy, ok, since) ==
  \E f \in 0 .. Len(s) :
    /\ Recorded(s, h, IF busy THEN Len(s) - 1 ELSE Len(s), f)
    /\ Overdue(s, f, since)
    /\ f = Len(s) /\ f > 0 => ~ok /\ ~busy

Metered ==
  /\ \A p \in Proxy : /\ Apart(sent[p]) /\ Len(sent[p]) <= MaxPerWindow
                      /\ Tracked(sent[p], history[p], Calling(p), healthy[p], sinceFailure[p])
  /\ \A c \in Caller : pc[c] = "sleep"
       => \/ Len(sent[via[c]]) < MaxPerWindow
          \/ sent[via[c]][1] + wait[c] >= Window

\* Two delays in a row.
LEMMA TwoDelays == \A a, b, x, y, w \in Int : a >= b + x /\ b + w >= y => a + w >= x + y
OBVIOUS

LEMMA Multiples ==
  /\ \A a \in Int : Intervals(a) \in Int /\ Intervals(a + 1) = Intervals(a) + MinInterval
  /\ Intervals(0) = 0
BY Settings DEF Intervals

\* A list of calls as a function to the natural numbers.
LEMMA Ages ==
  ASSUME NEW s \in Seq(0 .. Window)
  PROVE  /\ Len(s) \in Nat /\ DOMAIN s = 1 .. Len(s) /\ \A i \in 1 .. Len(s) : s[i] \in Nat
         /\ s # <<>> <=> Len(s) > 0
BY LenProperties, ElementOfSeq, EmptySeq, Settings

\* A request is sent when its interval and, after a failure, its cooldown are over.
LEMMA TrackSend ==
  ASSUME NEW s \in Seq(0 .. Window), NEW h \in Seq(0 .. Window), Chronological(s),
         NEW ok \in BOOLEAN, NEW since \in Nat,
         Apart(s), Tracked(s, h, FALSE, ok, since),
         Len(s) > 0 => s[Len(s)] >= MinInterval,
         ok \/ since >= Cooldown
  PROVE  LET t == Append(s, 0) IN Apart(t) /\ Tracked(t, h, TRUE, ok, since)
<1>. DEFINE t == Append(s, 0)
            n == Len(s)
<1>1. n \in Nat /\ \A i \in 1 .. n : s[i] \in Nat
  BY Ages
<1>2. Len(t) = n + 1 /\ (\A i \in 1 .. n : t[i] = s[i]) /\ t[n + 1] = 0
  BY OneMore
<1>. HIDE DEF t, n
<1>3. ASSUME NEW i \in 1 .. n PROVE s[i] >= Intervals(n + 1 - i)
  <2>1. s[i] >= s[n] + Intervals(n - i)
    BY DEF Apart, n
  <2>2. n \in 1 .. n /\ n - i \in Int
    BY <1>1
  <2>3. s[n] >= MinInterval /\ s[n] \in Nat /\ s[i] \in Nat
    BY <1>1, <2>2 DEF n
  <2>4. Intervals(n - i + 1) = Intervals(n - i) + MinInterval /\ Intervals(n - i) \in Int
    BY <2>2, Multiples
  <2>5. n - i + 1 = n + 1 - i
    BY <1>1
  <2>. QED
    BY <2>1, <2>3, <2>4, <2>5, Settings
<1>4. Apart(t)
  <2>. SUFFICES ASSUME NEW i \in 1 .. n + 1 PROVE t[i] >= t[n + 1] + Intervals(n + 1 - i)
    BY <1>1, <1>2 DEF Apart
  <2>1. CASE i = n + 1
    <3>1. n + 1 - i = 0 /\ Intervals(0) = 0
      BY <1>1, <2>1, Multiples
    <3>. QED
      BY <1>2, <2>1, <3>1
  <2>2. CASE i # n + 1
    <3>1. i \in 1 .. n
      BY <1>1, <2>2
    <3>2. Intervals(n + 1 - i) \in Int
      BY <1>1, Multiples
    <3>. QED
      BY <1>1, <1>2, <1>3, <3>1, <3>2
  <2>. QED
    BY <2>1, <2>2
<1>5. PICK f \in 0 .. n : /\ Recorded(s, h, n, f) /\ Overdue(s, f, since)
                          /\ f = n /\ f > 0 => ~ok
  BY DEF Tracked, n
<1>6. Recorded(t, h, n, f)
  BY <1>1, <1>2, <1>5 DEF Recorded
<1>7. Overdue(t, f, since)
  <2>. SUFFICES ASSUME NEW i \in 1 .. f
                PROVE  t[i] >= t[n + 1] + (Intervals(n + 1 - 1 - i) + Cooldown)
    BY <1>1, <1>2 DEF Overdue
  <2>1. i \in 1 .. n /\ n - 1 - i \in Int /\ n + 1 - 1 - i = n - i /\ n - 1 - i + 1 = n - i
    BY <1>1
  <2>2. Intervals(n - 1 - i) \in Int /\ Intervals(n - i) = Intervals(n - 1 - i) + MinInterval
    BY <2>1, Multiples
  <2>3. s[i] >= Intervals(n - i) + Cooldown
    <3>1. CASE f < n
      <4>1. s[i] >= s[n] + (Intervals(n - 1 - i) + Cooldown)
        BY <1>5, <3>1 DEF Overdue, n
      <4>2. s[n] >= MinInterval /\ s[n] \in Nat /\ s[i] \in Nat
        BY <1>1, <2>1 DEF n
      <4>. QED
        BY <2>2, <4>1, <4>2, Settings
    <3>2. CASE f = n
      <4>1. s[i] >= Intervals(n - i) + since /\ s[i] \in Nat
        BY <1>1, <1>5, <2>1, <3>2 DEF Overdue, n
      <4>2. since >= Cooldown
        BY <1>1, <1>5, <2>1, <3>2
      <4>. QED
        BY <2>2, <4>1, <4>2, Settings
    <3>. QED
      BY <1>1, <3>1, <3>2
  <2>. QED
    BY <1>2, <2>1, <2>2, <2>3, Settings
<1>8. Tracked(t, h, TRUE, ok, since)
  <2>1. f \in 0 .. n + 1 /\ f # n + 1 /\ n + 1 - 1 = n
    BY <1>1
  <2>. QED
    BY <1>1, <1>2, <1>6, <1>7, <2>1 DEF Tracked
<1>. QED
  BY <1>4, <1>8 DEF t

\* What was recorded since the oldest request that is still young is young too: a purge
\* leaves it.
LEMMA TrackPurge ==
  ASSUME NEW s \in Seq(0 .. Window), NEW h \in Seq(0 .. Window), Chronological(h),
         \A i \in 1 .. Len(s) : Young(s[i]),
         NEW m \in Int, m <= Len(s), NEW f \in Nat, Recorded(s, h, m, f)
  PROVE  /\ Recorded(s, Recent(h), m, f)
         /\ \A k \in f + 1 .. m : Len(Recent(h)) >= m - k + 1
<1>. DEFINE r == Recent(h)
            d == Len(h) - Len(r)
<1>1. 0 .. Window \in SUBSET Nat
  BY Settings
<1>2. /\ r \in Seq(0 .. Window) /\ d \in 0 .. Len(h)
      /\ \A i \in 1 .. Len(r) : r[i] = h[i + d]
      /\ \A i \in 1 .. d : ~Young(h[i])
  BY <1>1, RecentShape
<1>3. /\ Len(h) \in Nat /\ \A i \in 1 .. Len(h) : h[i] \in Nat
      /\ Len(r) \in Nat /\ Len(s) \in Nat /\ \A i \in 1 .. Len(s) : s[i] \in Nat
  BY <1>2, Ages
<1>. HIDE DEF r
<1>4. ASSUME NEW k \in f + 1 .. m
      PROVE  /\ Len(r) - (m - k) >= 1 /\ r[Len(r) - (m - k)] <= s[k]
             /\ Len(r) >= m - k + 1
  <2>. DEFINE i == Len(h) - (m - k)
  <2>1. i \in 1 .. Len(h) /\ h[i] <= s[k] /\ k \in 1 .. Len(s)
    BY <1>3 DEF Recorded
  <2>2. Young(h[i])
    <3>1. s[k] < Window /\ h[i] \in Nat /\ s[k] \in Nat
      BY <1>3, <2>1 DEF Young
    <3>. QED
      BY <2>1, <3>1, Settings DEF Young
  <2>3. i > d
    BY <1>2, <1>3, <2>1, <2>2
  <2>4. PICK j \in 1 .. Len(r) : j = Len(r) - (m - k) /\ j + d = i
    <3>1. Len(r) - (m - k) \in 1 .. Len(r) /\ Len(r) - (m - k) + d = i
      BY <1>2, <1>3, <2>1, <2>3
    <3>. QED
      BY <3>1
  <2>5. r[j] = h[j + d]
    BY <1>2
  <2>6. r[j] <= s[k]
    BY <2>1, <2>4, <2>5
  <2>. QED
    BY <1>3, <2>4, <2>6
<1>5. Recorded(s, r, m, f)
  BY <1>4 DEF Recorded
<1>. QED
  BY <1>4, <1>5 DEF r

\* A successful call is recorded.
LEMMA TrackOk ==
  ASSUME NEW s \in Seq(0 .. Window), NEW h \in Seq(0 .. Window), Chronological(h),
         NEW ok \in BOOLEAN, NEW since \in Nat, Tracked(s, h, TRUE, ok, since)
  PROVE  Tracked(s, Append(h, 0), FALSE, TRUE, since)
<1>. DEFINE n == Len(s)
            g == Append(h, 0)
<1>1. n \in Nat /\ (\A i \in 1 .. n : s[i] \in Nat) /\ Len(h) \in Nat
  BY Ages
<1>2. Len(g) = Len(h) + 1 /\ (\A i \in 1 .. Len(h) : g[i] = h[i]) /\ g[Len(h) + 1] = 0
  BY OneMore
<1>. HIDE DEF g, n
<1>3. PICK f \in 0 .. n : /\ Recorded(s, h, n - 1, f) /\ Overdue(s, f, since)
                          /\ ~(f = n /\ f > 0)
  BY DEF Tracked, n
<1>4. Recorded(s, g, n, f)
  <2>. SUFFICES ASSUME NEW k \in f + 1 .. n
                PROVE  Len(g) - (n - k) >= 1 /\ g[Len(g) - (n - k)] <= s[k]
    BY DEF Recorded
  <2>1. CASE k = n
    <3>1. Len(g) - (n - k) = Len(h) + 1 /\ s[k] \in Nat
      BY <1>1, <1>2, <2>1
    <3>. QED
      BY <1>1, <1>2, <3>1
  <2>2. CASE k # n
    <3>1. k \in f + 1 .. n - 1 /\ Len(g) - (n - k) = Len(h) - (n - 1 - k)
      BY <1>1, <1>2, <2>2
    <3>2. Len(h) - (n - 1 - k) >= 1 /\ h[Len(h) - (n - 1 - k)] <= s[k]
      BY <1>3, <3>1 DEF Recorded
    <3>3. Len(h) - (n - 1 - k) \in 1 .. Len(h)
      BY <1>1, <3>1, <3>2
    <3>. QED
      BY <1>2, <3>1, <3>2, <3>3
  <2>. QED
    BY <2>1, <2>2
<1>5. Tracked(s, g, FALSE, TRUE, since)
  BY <1>3, <1>4 DEF Tracked, n
<1>. QED
  BY <1>5 DEF g

\* A failed call starts a cooldown.
LEMMA TrackFail ==
  ASSUME NEW s \in Seq(0 .. Window), NEW h \in Seq(0 .. Window), Apart(s)
  PROVE  Tracked(s, h, FALSE, FALSE, 0)
<1>. DEFINE n == Len(s)
<1>1. n \in Nat /\ \A i \in 1 .. n : s[i] \in Nat
  BY Ages
<1>2. Recorded(s, h, n, n)
  BY <1>1 DEF Recorded
<1>3. Overdue(s, n, 0)
  <2>. SUFFICES ASSUME NEW i \in 1 .. n PROVE s[i] >= Intervals(n - i) + 0
    BY <1>1 DEF Overdue
  <2>1. s[i] >= s[n] + Intervals(n - i) /\ s[n] \in Nat /\ s[i] \in Nat
    BY <1>1 DEF Apart
  <2>2. Intervals(n - i) \in Int
    BY <1>1, Multiples
  <2>. QED
    BY <2>1, <2>2
<1>. QED
  BY <1>1, <1>2, <1>3 DEF Tracked

\* t is what is left of s one unit of time later
Shifted(s, t) ==
  /\ Len(s) - Len(t) \in 0 .. Len(s)
  /\ \A i \in 1 .. Len(t) : t[i] = s[i + (Len(s) - Len(t))] + 1

\* g is h one unit of time later, or younger
Aged(h, g) == Len(g) = Len(h) /\ \A i \in 1 .. Len(h) : g[i] <= h[i] + 1

\* Time passes: the oldest requests are forgotten.
LEMMA TrackTick ==
  ASSUME NEW s \in Seq(0 .. Window), NEW t \in Seq(0 .. Window),
         NEW h \in Seq(0 .. Window), NEW g \in Seq(0 .. Window),
         Shifted(s, t), Aged(h, g),
         NEW busy \in BOOLEAN, NEW ok \in BOOLEAN,
         NEW since \in Nat, NEW later \in Nat, later <= since + 1,
         Apart(s), Tracked(s, h, busy, ok, since)
  PROVE  Apart(t) /\ Tracked(t, g, busy, ok, later)
<1>. DEFINE n == Len(s)
            l == Len(t)
            d == n - l
            m == IF busy THEN n - 1 ELSE n
<1>1. /\ n \in Nat /\ l \in Nat /\ (\A i \in 1 .. n : s[i] \in Nat) /\ Len(h) \in Nat
      /\ (\A i \in 1 .. Len(h) : h[i] \in Nat) /\ (\A i \in 1 .. Len(g) : g[i] \in Nat)
  BY Ages
<1>0. /\ n \in Nat /\ l \in Nat /\ d \in Nat /\ n = l + d /\ m \in Int /\ m <= n
      /\ m - d = IF busy THEN l - 1 ELSE l
      /\ Len(h) \in Nat /\ Len(g) = Len(h)
  <2>1. /\ n \in Nat /\ l \in Nat /\ n - l \in 0 .. n
        /\ Len(h) \in Nat /\ Len(g) = Len(h)
    BY <1>1 DEF Shifted, Aged
  <2>2. CASE busy
    BY <2>1, <2>2
  <2>3. CASE ~busy
    BY <2>1, <2>3
  <2>. QED
    BY <2>1, <2>2, <2>3
<1>2. ASSUME NEW i \in 1 .. l PROVE i + d \in 1 .. n /\ t[i] = s[i + d] + 1
  <2>1. t[i] = s[i + d] + 1
    BY DEF Shifted
  <2>. QED
    BY <1>0, <2>1
<1>3. PICK f \in 0 .. n : /\ Recorded(s, h, m, f) /\ Overdue(s, f, since)
                          /\ f = n /\ f > 0 => ~ok /\ ~busy
  BY DEF Tracked
<1>. HIDE DEF n, l, m, d
<1>4. l > 0 => t[l] = s[n] + 1
  <2>. SUFFICES ASSUME l > 0 PROVE t[l] = s[n] + 1
    OBVIOUS
  <2>1. l \in 1 .. l /\ l + d = n
    BY <1>0, <1>1
  <2>. QED
    BY <1>2, <2>1
<1>5. Apart(t)
  <2>. SUFFICES ASSUME NEW i \in 1 .. l PROVE t[i] >= t[l] + Intervals(l - i)
    BY DEF Apart, l
  <2>1. i + d \in 1 .. n /\ n - (i + d) = l - i /\ l - i \in Int /\ l > 0
    BY <1>0, <1>1
  <2>2. s[i + d] >= s[n] + Intervals(l - i)
    BY <2>1 DEF Apart, n
  <2>3. n \in 1 .. n /\ Intervals(l - i) \in Int
    BY <1>0, <1>1, <2>1, Multiples
  <2>4. s[i + d] \in Nat /\ s[n] \in Nat
    BY <1>0, <1>1, <2>1, <2>3
  <2>5. t[i] = s[i + d] + 1
    BY <1>2
  <2>. QED
    BY <1>0, <1>4, <2>1, <2>2, <2>3, <2>4, <2>5
<1>6. PICK e \in 0 .. l : e = IF f > d THEN f - d ELSE 0
  <2>1. (IF f > d THEN f - d ELSE 0) \in 0 .. l
    BY <1>0
  <2>. QED
    BY <2>1
<1>7. Recorded(t, g, m - d, e)
  <2>. SUFFICES ASSUME NEW k \in e + 1 .. m - d
                PROVE  Len(g) - (m - d - k) >= 1 /\ g[Len(g) - (m - d - k)] <= t[k]
    BY DEF Recorded
  <2>1. k + d \in f + 1 .. m /\ k \in 1 .. l /\ k + d \in 1 .. n
    BY <1>0, <1>6
  <2>2. PICK j \in Int : j = Len(h) - (m - (k + d)) /\ j = Len(g) - (m - d - k)
    <3>1. Len(h) - (m - (k + d)) = Len(g) - (m - d - k) /\ Len(h) - (m - (k + d)) \in Int
      BY <1>0
    <3>. QED
      BY <3>1
  <2>3. j >= 1 /\ h[j] <= s[k + d]
    BY <1>3, <2>1, <2>2 DEF Recorded
  <2>4. j \in 1 .. Len(h)
    BY <1>0, <2>1, <2>2, <2>3
  <2>5. g[j] <= h[j] + 1 /\ t[k] = s[k + d] + 1
    BY <1>2, <2>1, <2>4 DEF Aged
  <2>7. g[j] \in Nat /\ h[j] \in Nat /\ s[k + d] \in Nat
    BY <1>0, <1>1, <2>1, <2>4
  <2>6. g[j] <= t[k]
    BY <2>3, <2>5, <2>7
  <2>. QED
    BY <2>2, <2>3, <2>6
<1>8. Overdue(t, e, later)
  <2>. SUFFICES ASSUME NEW i \in 1 .. e
                PROVE  t[i] >= IF e < l THEN t[l] + (Intervals(l - 1 - i) + Cooldown)
                                        ELSE Intervals(l - i) + later
    BY DEF Overdue, l
  <2>1. /\ i + d \in 1 .. f /\ i + d \in 1 .. n /\ i \in 1 .. l /\ l > 0 /\ n \in 1 .. n
        /\ n - (i + d) = l - i /\ n - 1 - (i + d) = l - 1 - i
        /\ l - i \in Int /\ l - 1 - i \in Int
        /\ (e < l <=> f < n)
    BY <1>0, <1>6
  <2>2. Intervals(l - i) \in Int /\ Intervals(l - 1 - i) \in Int
    BY <2>1, Multiples
  <2>3. s[i + d] >= IF f < n THEN s[n] + (Intervals(l - 1 - i) + Cooldown)
                             ELSE Intervals(l - i) + since
    BY <1>3, <2>1 DEF Overdue, n
  <2>4. s[i + d] \in Nat /\ s[n] \in Nat /\ t[i] = s[i + d] + 1
    BY <1>0, <1>1, <1>2, <2>1
  <2>5. t[l] = s[n] + 1
    BY <1>4, <2>1
  <2>6. CASE e < l
    <3>1. s[i + d] >= s[n] + (Intervals(l - 1 - i) + Cooldown)
      BY <2>1, <2>3, <2>6
    <3>. DEFINE x == Intervals(l - 1 - i) + Cooldown
    <3>2. x \in Int /\ s[i + d] >= s[n] + x
      BY <2>2, <3>1, Settings
    <3>. HIDE DEF x
    <3>3. t[i] >= t[l] + x
      BY <2>4, <2>5, <3>2
    <3>. QED
      BY <2>6, <3>3 DEF x
  <2>7. CASE ~(e < l)
    <3>1. s[i + d] >= Intervals(l - i) + since
      BY <2>1, <2>3, <2>7
    <3>. QED
      BY <1>0, <2>2, <2>4, <2>7, <3>1
  <2>. QED
    BY <2>6, <2>7
<1>9. e = l /\ e > 0 => ~ok /\ ~busy
  BY <1>0, <1>3, <1>6
<1>11. Tracked(t, g, busy, ok, later)
  BY <1>0, <1>7, <1>8, <1>9 DEF Tracked, l
<1>. QED
  BY <1>5, <1>11

\* A gateway that has been sent its quota of requests is not ready before the first of
\* them has left the window.
LEMMA RoomFor ==
  ASSUME NEW s \in Seq(0 .. Window), NEW h \in Seq(0 .. Window), Chronological(h),
         \A i \in 1 .. Len(s) : Young(s[i]),
         NEW ok \in BOOLEAN, NEW since \in Nat, NEW w \in Nat, QuotaSettings,
         Tracked(s, h, FALSE, ok, since), Len(s) <= MaxPerWindow, Len(Recent(h)) < MaxPerWindow,
         Len(s) > 0 => s[Len(s)] + w >= MinInterval,
         ok \/ since >= Cooldown
  PROVE  Len(s) < MaxPerWindow \/ s[1] + w >= Window
<1>. DEFINE n == Len(s)
<1>1. n \in Nat /\ \A i \in 1 .. n : s[i] \in Nat
  BY Ages
<1>2. PICK f \in 0 .. n : /\ Recorded(s, h, n, f) /\ Overdue(s, f, since)
                          /\ f = n /\ f > 0 => ~ok
  BY DEF Tracked
<1>3. SUFFICES ASSUME n = MaxPerWindow PROVE s[1] + w >= Window
  BY <1>1, Settings
<1>4. Len(Recent(h)) \in Nat
  <2>1. 0 .. Window \in SUBSET Nat
    BY Settings
  <2>2. Len(h) - Len(Recent(h)) \in 0 .. Len(h) /\ Recent(h) \in Seq(0 .. Window)
    BY <2>1, RecentShape
  <2>. QED
    BY <2>2, LenProperties
<1>5. f # 0
  <2>. SUFFICES ASSUME f = 0 PROVE FALSE
    OBVIOUS
  <2>1. \A k \in f + 1 .. n : Len(Recent(h)) >= n - k + 1
    BY <1>1, <1>2, TrackPurge
  <2>2. 1 \in f + 1 .. n /\ n - 1 + 1 = n
    BY <1>1, <1>3, Settings
  <2>3. Len(Recent(h)) >= n
    BY <2>1, <2>2
  <2>. QED
    BY <1>3, <1>4, <2>3, Settings
<1>. HIDE DEF n
<1>6. 1 \in 1 .. f /\ n \in Nat /\ n > 0 /\ n \in 1 .. n /\ 1 \in 1 .. n /\ n - 2 \in Int /\ n - 2 + 1 = n - 1
  BY <1>1, <1>2, <1>5
<1>7. /\ Intervals(n - 1) = Intervals(n - 2) + MinInterval
      /\ Intervals(n - 2) \in Int
  BY <1>6, Multiples
<1>8. Window <= Cooldown + Intervals(n - 1)
  BY <1>3 DEF QuotaSettings, Intervals
<1>9. s[1] \in Nat /\ s[n] \in Nat
  BY <1>1, <1>6
<1>10. CASE f < n
  <2>1. s[1] >= s[n] + (Intervals(n - 1 - 1) + Cooldown)
    BY <1>2, <1>6, <1>10 DEF Overdue, n
  <2>2. n - 1 - 1 = n - 2 /\ s[n] + w >= MinInterval
    BY <1>6 DEF n
  <2>3. s[1] >= s[n] + (Intervals(n - 2) + Cooldown)
    BY <2>1, <2>2
  <2>4. s[1] + w >= Intervals(n - 1) + Cooldown
    <3>. DEFINE x == Intervals(n - 2) + Cooldown
    <3>1. x \in Int /\ Intervals(n - 1) + Cooldown = x + MinInterval /\ s[1] >= s[n] + x
      BY <1>7, <2>3, Settings
    <3>. HIDE DEF x
    <3>2. s[1] + w >= x + MinInterval
      <4>1. s[1] \in Int /\ s[n] \in Int /\ w \in Int /\ MinInterval \in Int
        BY <1>9, Settings
      <4>. QED
        BY <2>2, <3>1, <4>1, TwoDelays
    <3>. QED
      BY <3>1, <3>2
  <2>. QED
    BY <1>7, <1>8, <1>9, <2>4, Settings
<1>11. CASE f = n
  <2>1. s[1] >= Intervals(n - 1) + since
    BY <1>2, <1>6, <1>11 DEF Overdue, n
  <2>2. since >= Cooldown
    BY <1>2, <1>6, <1>11
  <2>. QED
    BY <1>6, <1>7, <1>8, <1>9, <2>1, <2>2, Settings
<1>. QED
  BY <1>1, <1>10, <1>11

-----------------------------------------------------------------------------
(* Isolation *)

\* One turn of the proxy loop, for the only caller there is.  It follows a failure of the
\* excluded proxies at most.
LEMMA PoolAlone ==
  ASSUME IInv, OneCaller, NEW c \in Caller, NEW excl \in SUBSET Proxy, Pool(c, excl)
  PROVE  /\ \A p \in Proxy : Calling(p)' => via'[c] = p /\ Sent(p)
         /\ \A p \in Proxy : sent'[p] # sent[p] => Calling(p)' /\ Sent(p) /\ p \in Ready(excl) /\ Spacing(p) = 0
         /\ pc'[c] = "sleep" =>
              /\ via'[c] \in Ready(excl) /\ wait'[c] = Spacing(via'[c])
              /\ sent' = sent
<1>1. Types /\ Ordered /\ Lists
  BY DEF IInv
<1>2. \A p \in Proxy : Calling(p)' <=> pc'[c] = "proxy" /\ via'[c] = p
  BY DEF OneCaller, Calling
<1>3. CASE Leave(c) /\ sent' = sent
  <2>1. pc'[c] = "idle"
    BY <1>1, <1>3 DEF Types, Leave
  <2>. QED
    BY <1>2, <1>3, <2>1
<1>4. ASSUME NEW p \in Ready(excl),
             via' = [via EXCEPT ![c] = p], wait' = [wait EXCEPT ![c] = Spacing(p)],
             \/ Spacing(p) > 0 /\ pc' = [pc EXCEPT ![c] = "sleep"] /\ sent' = sent
             \/ Spacing(p) = 0 /\ pc' = [pc EXCEPT ![c] = "proxy"] /\ Sent(p)
      PROVE  /\ \A q \in Proxy : Calling(q)' => via'[c] = q /\ Sent(q)
             /\ \A q \in Proxy : sent'[q] # sent[q] => Calling(q)' /\ Sent(q) /\ q \in Ready(excl) /\ Spacing(q) = 0
             /\ pc'[c] = "sleep" =>
                  /\ via'[c] \in Ready(excl) /\ wait'[c] = Spacing(via'[c])
                  /\ sent' = sent
  <2>1. via'[c] = p /\ wait'[c] = Spacing(p)
    BY <1>1, <1>4 DEF Types
  <2>2. CASE pc' = [pc EXCEPT ![c] = "sleep"] /\ sent' = sent
    <3>1. pc'[c] = "sleep"
      BY <1>1, <2>2 DEF Types
    <3>. QED
      BY <1>2, <2>1, <2>2, <3>1
  <2>3. CASE Spacing(p) = 0 /\ pc' = [pc EXCEPT ![c] = "proxy"] /\ Sent(p)
    <3>1. pc'[c] = "proxy" /\ \A q \in Proxy \ {p} : sent'[q] = sent[q]
      BY <1>1, <2>3 DEF Types, Sent
    <3>. QED
      BY <1>2, <2>1, <2>3, <3>1
  <2>. QED
    BY <1>4, <2>2, <2>3
<1>. QED
  BY <1>1, <1>3, <1>4, PoolStep

LEMMA IsolatedStep ==
  ASSUME IInv, OneCaller, Isolated, [Next]_vars
  PROVE  Isolated'
<1>1. CASE Tick
  <2>. SUFFICES ASSUME NEW c \in Caller, pc'[c] = "sleep" PROVE Available(via[c])'
    BY DEF Isolated
  <2>1. pc[c] = "sleep" /\ via' = via /\ healthy' = healthy
    BY <1>1 DEF Tick
  <2>2. via[c] \in Proxy /\ Available(via[c])
    BY <2>1 DEF IInv, Types, Selected, Isolated
  <2>3. sinceFailure'[via[c]] = Older(sinceFailure[via[c]], Cooldown)
    BY <1>1, <2>2 DEF Tick
  <2>4. sinceFailure[via[c]] >= Cooldown => sinceFailure'[via[c]] >= Cooldown
    BY <2>2, <2>3, Settings DEF IInv, Types, Older
  <2>. QED
    BY <2>1, <2>2, <2>4 DEF Available
<1>2. ASSUME NEW c \in Caller, pc'[c] # "sleep" PROVE Isolated'
  BY <1>2 DEF OneCaller, Isolated
<1>3. ASSUME NEW c \in Caller, NEW excl \in SUBSET Proxy, Pool(c, excl),
             \A p \in Proxy \ excl : healthy'[p] = healthy[p] /\ sinceFailure'[p] = sinceFailure[p]
      PROVE  Isolated'
  <2>1. CASE pc'[c] = "sleep"
    <3>1. via'[c] \in Ready(excl)
      BY <1>3, <2>1, PoolAlone
    <3>2. via'[c] \in Proxy \ excl /\ Available(via'[c])
      BY <3>1 DEF Ready, Candidates
    <3>3. Available(via[c])'
      BY <1>3, <3>2 DEF Available
    <3>. QED
      BY <3>3 DEF OneCaller, Isolated
  <2>. QED
    BY <1>2, <2>1
<1>4. ASSUME NEW c \in Caller, StartDirect(c) PROVE Isolated'
  <2>1. pc'[c] # "sleep"
    BY <1>4 DEF StartDirect, IInv, Types
  <2>. QED
    BY <1>2, <2>1
<1>5. ASSUME NEW c \in Caller, StartPool(c) \/ DirectFail(c) PROVE Isolated'
  <2>1. Pool(c, {}) /\ {} \in SUBSET Proxy /\ healthy' = healthy /\ sinceFailure' = sinceFailure
    BY <1>5 DEF StartPool, DirectFail, healthVars
  <2>. QED
    BY <1>3, <2>1
<1>6. ASSUME NEW c \in Caller, Leave(c) PROVE Isolated'
  <2>1. pc'[c] # "sleep"
    BY <1>6 DEF Leave, IInv, Types
  <2>. QED
    BY <1>2, <2>1
<1>7. ASSUME NEW c \in Caller, Awake(c) PROVE Isolated'
  <2>1. pc'[c] # "sleep"
    BY <1>7 DEF Awake, IInv, Types
  <2>. QED
    BY <1>2, <2>1
<1>8. ASSUME NEW c \in Caller, ProxyFail(c) PROVE Isolated'
  <2>. DEFINE excl == excluded[c] \cup {via[c]}
  <2>1. /\ Pool(c, excl) /\ pc[c] = "proxy"
        /\ healthy' = [healthy EXCEPT ![via[c]] = FALSE]
        /\ sinceFailure' = [sinceFailure EXCEPT ![via[c]] = 0]
    BY <1>8 DEF ProxyFail
  <2>2. excl \in SUBSET Proxy
    BY <2>1 DEF IInv, Types, Selected
  <2>3. \A p \in Proxy \ excl : healthy'[p] = healthy[p] /\ sinceFailure'[p] = sinceFailure[p]
    BY <2>1 DEF IInv, Types
  <2>. HIDE DEF excl
  <2>. QED
    BY <1>3, <2>1, <2>2, <2>3
<1>9. CASE UNCHANGED vars
  BY <1>9 DEF vars, healthVars, Isolated, Available
<1>. QED
  BY <1>1, <1>4, <1>5, <1>6, <1>7, <1>8, <1>9
     DEF Next, Start, Proceed, DirectOk, ProxyOk, Abort

-----------------------------------------------------------------------------
(* Spacing *)

\* the stamp that delays the next request to p
Stamp(p) == IF healthy[p] THEN sinceCall[p] ELSE sinceFailure[p]

\* A turn of the proxy loop, by a caller that is calling no proxy by then.
LEMMA PoolTimely ==
  ASSUME IInv, OneCaller, NEW c \in Caller, NEW excl \in SUBSET Proxy, Pool(c, excl),
         UNCHANGED callVars,
         \A p \in Proxy : sent[p] # <<>>
           => Last(sent[p]) >= IF healthy'[p] THEN sinceCall[p] ELSE sinceFailure'[p]
  PROVE  Timely'
<1>1. ASSUME NEW p \in Proxy, ~Calling(p)', sent'[p] # <<>>
      PROVE  Last(sent'[p]) >= IF healthy'[p] THEN sinceCall'[p] ELSE sinceFailure'[p]
  <2>1. sent'[p] = sent[p]
    BY <1>1, PoolAlone
  <2>. QED
    BY <1>1, <2>1 DEF callVars
<1>2. ASSUME NEW d \in Caller, pc'[d] = "sleep"
      PROVE  sinceCall'[via'[d]] + wait'[d] >= MinInterval
  <2>1. d = c
    BY DEF OneCaller
  <2>2. via'[d] \in Ready(excl) /\ wait'[d] = Spacing(via'[d])
    BY <1>2, <2>1, PoolAlone
  <2>3. via'[d] \in Proxy
    BY <2>2 DEF Ready, Candidates
  <2>. QED
    BY <2>2, <2>3, SpacingShape DEF IInv, callVars
<1>. QED
  BY <1>1, <1>2 DEF Timely

\* The last of the requests, when time passes.
LEMMA TickLast ==
  ASSUME IInv, Tick, NEW p \in Proxy, sent'[p] # <<>>
  PROVE  /\ sent[p] # <<>> /\ Last(sent'[p]) = Last(sent[p]) + 1
         /\ Last(sent[p]) \in Nat
<1>. DEFINE s == sent[p]
            t == sent'[p]
<1>1. s \in Seq(0 .. Window) /\ t \in Seq(0 .. Window)
  BY TickLists DEF IInv, Types
<1>2. /\ Len(s) - Len(t) \in 0 .. Len(s)
      /\ \A i \in 1 .. Len(t) : t[i] = s[i + (Len(s) - Len(t))] + 1
  BY TickLists
<1>3. Len(s) \in Nat /\ Len(t) \in Nat /\ (\A i \in 1 .. Len(s) : s[i] \in Nat) /\ Len(t) > 0
      /\ (s # <<>> <=> Len(s) > 0)
  BY <1>1, Ages
<1>. HIDE DEF s, t
<1>4. Len(t) \in 1 .. Len(t) /\ Len(t) + (Len(s) - Len(t)) = Len(s) /\ Len(s) > 0
      /\ Len(s) \in 1 .. Len(s)
  BY <1>2, <1>3
<1>5. t[Len(t)] = s[Len(s)] + 1 /\ s[Len(s)] \in Nat
  BY <1>2, <1>3, <1>4
<1>. QED
  BY <1>3, <1>4, <1>5 DEF Last, s, t

LEMMA TimelyStep ==
  ASSUME IInv, OneCaller, NoDisconnects, Timely, [Next]_vars
  PROVE  Timely'
<1>1. CASE Tick
  <2>0. UNCHANGED <<pc, via, healthy>>
    BY <1>1 DEF Tick
  <2>1. ASSUME NEW p \in Proxy, ~Calling(p)', sent'[p] # <<>>
        PROVE  Last(sent'[p]) >= Stamp(p)'
    <3>1. sent[p] # <<>> /\ Last(sent'[p]) = Last(sent[p]) + 1 /\ Last(sent[p]) \in Nat
      BY <1>1, <2>1, TickLast
    <3>2. ~Calling(p)
      BY <2>0, <2>1 DEF Calling
    <3>3. Last(sent[p]) >= Stamp(p)
      BY <3>1, <3>2 DEF Timely, Stamp
    <3>4. /\ sinceFailure'[p] = Older(sinceFailure[p], Cooldown)
          /\ sinceCall'[p] = Older(sinceCall[p], MinInterval)
      BY <1>1 DEF Tick
    <3>5. sinceFailure[p] \in 0 .. Cooldown /\ sinceCall[p] \in 0 .. MinInterval
      BY DEF IInv, Types
    <3>6. Stamp(p) \in Nat /\ Stamp(p)' \in Nat /\ Stamp(p)' <= Stamp(p) + 1
      BY <2>0, <3>4, <3>5, Settings DEF Stamp, Older
    <3>. QED
      BY <3>1, <3>3, <3>6
  <2>2. ASSUME NEW c \in Caller, pc'[c] = "sleep"
        PROVE  sinceCall'[via'[c]] + wait'[c] >= MinInterval
    <3>1. pc[c] = "sleep" /\ via'[c] = via[c] /\ via[c] \in Proxy
      BY <2>0, <2>2 DEF IInv, Types, Selected
    <3>2. sinceCall[via[c]] + wait[c] >= MinInterval
      BY <3>1 DEF Timely
    <3>3. /\ sinceCall'[via[c]] = Older(sinceCall[via[c]], MinInterval)
          /\ wait'[c] = IF wait[c] > 0 THEN wait[c] - 1 ELSE 0
      BY <1>1, <3>1 DEF Tick
    <3>4. sinceCall[via[c]] \in 0 .. MinInterval /\ wait[c] \in 0 .. MinInterval
      BY <3>1 DEF IInv, Types
    <3>5. sinceCall'[via[c]] + wait'[c] >= MinInterval
      BY <3>2, <3>3, <3>4, Settings DEF Older
    <3>. QED
      BY <3>1, <3>5
  <2>. QED
    BY <2>1, <2>2 DEF Timely, Stamp
<1>2. ASSUME NEW c \in Caller, pc[c] # "proxy", pc'[c] \in {"idle", "direct", "probe"},
             UNCHANGED <<sent, healthVars, callVars>>
      PROVE  Timely'
  BY <1>2 DEF OneCaller, Timely, Calling, healthVars, callVars
<1>3. ASSUME NEW c \in Caller, StartDirect(c) PROVE Timely'
  <2>1. /\ pc[c] = "idle" /\ pc'[c] \in {"direct", "probe"}
        /\ UNCHANGED <<sent, healthVars, callVars>>
    BY <1>3 DEF StartDirect, IInv, Types
  <2>. QED
    BY <1>2, <2>1
<1>4. ASSUME NEW c \in Caller, DirectOk(c) PROVE Timely'
  <2>1. /\ pc[c] # "proxy" /\ pc'[c] = "idle"
        /\ UNCHANGED <<sent, healthVars, callVars>>
    BY <1>4 DEF DirectOk, InDirect, Leave, IInv, Types
  <2>. QED
    BY <1>2, <2>1
<1>5. ASSUME NEW c \in Caller, StartPool(c) \/ DirectFail(c) PROVE Timely'
  <2>1. /\ Pool(c, {}) /\ {} \in SUBSET Proxy /\ UNCHANGED <<healthVars, callVars>>
        /\ pc[c] # "proxy"
    BY <1>5 DEF StartPool, DirectFail, InDirect
  <2>2. \A p \in Proxy : ~Calling(p)
    BY <2>1 DEF OneCaller, Calling
  <2>3. \A p \in Proxy : sent[p] # <<>>
           => Last(sent[p]) >= IF healthy'[p] THEN sinceCall[p] ELSE sinceFailure'[p]
    BY <2>1, <2>2 DEF Timely, healthVars
  <2>. QED
    BY <2>1, <2>3, PoolTimely
<1>6. ASSUME NEW c \in Caller, Awake(c) PROVE Timely'
  <2>1. /\ pc[c] = "sleep" /\ pc' = [pc EXCEPT ![c] = "proxy"] /\ Sent(via[c])
        /\ UNCHANGED <<healthVars, callVars, via>>
    BY <1>6 DEF Awake
  <2>2. pc'[c] = "proxy" /\ via'[c] = via[c]
    BY <2>1 DEF IInv, Types
  <2>3. ASSUME NEW p \in Proxy, ~Calling(p)', sent'[p] # <<>> PROVE sent'[p] = sent[p] /\ ~Calling(p)
    BY <2>1, <2>2, <2>3 DEF OneCaller, Calling, Sent, IInv, Types
  <2>4. \A d \in Caller : pc'[d] # "sleep"
    BY <2>2 DEF OneCaller
  <2>. QED
    BY <2>1, <2>3, <2>4 DEF Timely, healthVars, callVars
<1>7. ASSUME NEW c \in Caller, ProxyOk(c) PROVE Timely'
  <2>1. PICK p \in Proxy : p = via[c] /\ pc[c] = "proxy"
    BY <1>7 DEF ProxyOk, IInv, Types, Selected
  <2>2. /\ healthy' = [healthy EXCEPT ![p] = TRUE]
        /\ sinceCall' = [sinceCall EXCEPT ![p] = 0]
        /\ Leave(c) /\ UNCHANGED <<sinceFailure, sent>>
    BY <1>7, <2>1 DEF ProxyOk
  <2>3. pc'[c] = "idle"
    BY <2>2 DEF Leave, IInv, Types
  <2>4. ASSUME NEW q \in Proxy, ~Calling(q)', sent'[q] # <<>>
        PROVE  Last(sent'[q]) >= Stamp(q)'
    <3>1. CASE q = p
      <4>1. Stamp(q)' = 0
        BY <2>2, <3>1 DEF IInv, Types, Stamp
      <4>2. sent[q] \in Seq(0 .. Window) /\ sent[q] # <<>>
        BY <2>2, <2>4 DEF IInv, Types
      <4>3. Len(sent[q]) \in 1 .. Len(sent[q]) /\ \A i \in 1 .. Len(sent[q]) : sent[q][i] \in Nat
        BY <4>2, Ages
      <4>4. Last(sent'[q]) \in Nat
        BY <2>2, <4>3 DEF Last
      <4>. QED
        BY <4>1, <4>4
    <3>2. CASE q # p
      <4>1. ~Calling(q)
        BY <2>1, <3>2 DEF OneCaller, Calling
      <4>2. Stamp(q)' = Stamp(q)
        BY <2>2, <3>2 DEF IInv, Types, Stamp
      <4>. QED
        BY <2>2, <2>4, <4>1, <4>2 DEF Timely, Stamp
    <3>. QED
      BY <3>1, <3>2
  <2>5. \A d \in Caller : pc'[d] # "sleep"
    BY <2>3 DEF OneCaller
  <2>. QED
    BY <2>4, <2>5 DEF Timely, Stamp
<1>8. ASSUME NEW c \in Caller, ProxyFail(c) PROVE Timely'
  <2>1. PICK p \in Proxy : p = via[c] /\ pc[c] = "proxy"
    BY <1>8 DEF ProxyFail, IInv, Types, Selected
  <2>2. /\ healthy' = [healthy EXCEPT ![p] = FALSE]
        /\ sinceFailure' = [sinceFailure EXCEPT ![p] = 0]
        /\ Pool(c, excluded[c] \cup {via[c]}) /\ UNCHANGED callVars
    BY <1>8, <2>1 DEF ProxyFail
  <2>3. excluded[c] \cup {via[c]} \in SUBSET Proxy
    BY <2>1 DEF IInv, Types
  <2>4. ASSUME NEW q \in Proxy, sent[q] # <<>>
        PROVE  Last(sent[q]) >= IF healthy'[q] THEN sinceCall[q] ELSE sinceFailure'[q]
    <3>1. CASE q = p
      <4>1. ~healthy'[q] /\ sinceFailure'[q] = 0
        BY <2>2, <3>1 DEF IInv, Types
      <4>2. sent[q] \in Seq(0 .. Window)
        BY DEF IInv, Types
      <4>3. Len(sent[q]) \in 1 .. Len(sent[q]) /\ \A i \in 1 .. Len(sent[q]) : sent[q][i] \in Nat
        BY <2>4, <4>2, Ages
      <4>4. Last(sent[q]) \in Nat
        BY <4>3 DEF Last
      <4>. QED
        BY <4>1, <4>4
    <3>2. CASE q # p
      <4>1. ~Calling(q)
        BY <2>1, <3>2 DEF OneCaller, Calling
      <4>2. healthy'[q] = healthy[q] /\ sinceFailure'[q] = sinceFailure[q]
        BY <2>2, <3>2 DEF IInv, Types
      <4>. QED
        BY <2>4, <4>1, <4>2 DEF Timely
    <3>. QED
      BY <3>1, <3>2
  <2>. QED
    BY <2>2, <2>3, <2>4, PoolTimely
<1>9. ASSUME NEW c \in Caller, Abort(c) PROVE Timely'
  <2>1. aborts < 0 /\ aborts \in 0 .. 0
    BY <1>9 DEF Abort, NoDisconnects, IInv, Types
  <2>. QED
    BY <2>1
<1>10. CASE UNCHANGED vars
  BY <1>10 DEF vars, healthVars, callVars, Timely, Calling
<1>. QED
  BY <1>1, <1>3, <1>4, <1>5, <1>6, <1>7, <1>8, <1>9, <1>10 DEF Next, Start, Proceed

-----------------------------------------------------------------------------
(* Quota *)

\* The part of Metered that is about one proxy.
WithinQuota(p) ==
  /\ Apart(sent[p]) /\ Len(sent[p]) <= MaxPerWindow
  /\ Tracked(sent[p], history[p], Calling(p), healthy[p], sinceFailure[p])

\* What is sent to an idle proxy now.
LEMMA SentWithinQuota ==
  ASSUME IInv, NEW p \in Proxy, Sent(p), Apart(sent[p]), Len(sent[p]) < MaxPerWindow,
         NEW h \in Seq(0 .. Window), NEW ok \in BOOLEAN, NEW since \in Nat,
         Tracked(sent[p], h, FALSE, ok, since),
         Len(sent[p]) > 0 => sent[p][Len(sent[p])] >= MinInterval,
         ok \/ since >= Cooldown
  PROVE  /\ Apart(sent'[p]) /\ Len(sent'[p]) <= MaxPerWindow
         /\ Tracked(sent'[p], h, TRUE, ok, since)
<1>1. sent'[p] = Append(sent[p], 0)
  BY DEF Sent, IInv, Types
<1>2. sent[p] \in Seq(0 .. Window) /\ Chronological(sent[p])
  BY DEF IInv, Types, Lists
<1>3. Apart(Append(sent[p], 0)) /\ Tracked(Append(sent[p], 0), h, TRUE, ok, since)
  BY <1>2, TrackSend
<1>4. Len(Append(sent[p], 0)) = Len(sent[p]) + 1 /\ Len(sent[p]) \in Nat
  BY <1>2, OneMore, LenProperties
<1>5. Len(Append(sent[p], 0)) <= MaxPerWindow
  BY <1>4, Settings
<1>. QED
  BY <1>1, <1>3, <1>5

\* A turn of the proxy loop, by a caller that is calling no proxy by then.
LEMMA PoolMetered ==
  ASSUME IInv, OneCaller, QuotaSettings, SpacingSettings,
         NEW c \in Caller, NEW excl \in SUBSET Proxy, Pool(c, excl),
         UNCHANGED callVars,
         healthy' \in [Proxy -> BOOLEAN], sinceFailure' \in [Proxy -> 0 .. Cooldown],
         \A p \in Proxy \ excl : healthy'[p] = healthy[p] /\ sinceFailure'[p] = sinceFailure[p],
         \A p \in Proxy : sent[p] # <<>>
           => Last(sent[p]) >= IF healthy'[p] THEN sinceCall[p] ELSE sinceFailure'[p],
         \A p \in Proxy : /\ Apart(sent[p]) /\ Len(sent[p]) <= MaxPerWindow
                          /\ Tracked(sent[p], history[p], FALSE, healthy'[p], sinceFailure'[p])
  PROVE  Metered'
<1>0. Types /\ Ordered /\ Lists
  BY DEF IInv
<1>1. \A p \in Proxy : history'[p] = IF p \in Candidates(excl) THEN Purged(p) ELSE history[p]
  BY <1>0, PoolStep
<1>2. ASSUME NEW p \in Proxy
      PROVE  /\ sent[p] \in Seq(0 .. Window) /\ history[p] \in Seq(0 .. Window)
             /\ Chronological(sent[p]) /\ Chronological(history[p])
             /\ \A i \in 1 .. Len(sent[p]) : Young(sent[p][i])
             /\ Len(sent[p]) \in Nat
             /\ \A i \in 1 .. Len(sent[p]) : sent[p][i] \in Nat
             /\ healthy'[p] \in BOOLEAN /\ sinceFailure'[p] \in Nat
  <2>1. sent[p] \in Seq(0 .. Window) /\ history[p] \in Seq(0 .. Window)
    BY DEF IInv, Types
  <2>2. Len(sent[p]) \in Nat /\ \A i \in 1 .. Len(sent[p]) : sent[p][i] \in Nat
    BY <2>1, Ages
  <2>3. healthy'[p] \in BOOLEAN /\ sinceFailure'[p] \in Nat
    BY Settings
  <2>4. /\ Chronological(sent[p]) /\ Chronological(history[p])
        /\ \A i \in 1 .. Len(sent[p]) : Young(sent[p][i])
    BY DEF IInv, Lists
  <2>. QED
    BY <2>1, <2>2, <2>3, <2>4
<1>3. ASSUME NEW p \in Proxy
      PROVE  /\ history'[p] \in Seq(0 .. Window)
             /\ Tracked(sent[p], history'[p], FALSE, healthy'[p], sinceFailure'[p])
  <2>1. CASE p \notin Candidates(excl)
    BY <1>1, <1>2, <2>1
  <2>2. CASE p \in Candidates(excl)
    <3>. DEFINE s == sent[p]
                h == history[p]
    <3>1. s \in Seq(0 .. Window) /\ h \in Seq(0 .. Window) /\ Chronological(h)
          /\ (\A i \in 1 .. Len(s) : Young(s[i])) /\ Len(s) \in Nat
      BY <1>2
    <3>2. history'[p] = Recent(h) /\ history'[p] \in Seq(0 .. Window)
      BY <1>0, <1>1, <2>2, PoolStep DEF Purged
    <3>3. PICK f \in 0 .. Len(s) : /\ Recorded(s, h, Len(s), f)
                                   /\ Overdue(s, f, sinceFailure'[p])
                                   /\ f = Len(s) /\ f > 0 => ~healthy'[p]
      BY DEF Tracked
    <3>. HIDE DEF s, h
    <3>4. Len(s) \in Int /\ Len(s) <= Len(s) /\ f \in Nat
      BY <3>1
    <3>5. Recorded(s, Recent(h), Len(s), f)
      BY <3>1, <3>3, <3>4, TrackPurge
    <3>6. Tracked(s, Recent(h), FALSE, healthy'[p], sinceFailure'[p])
      BY <3>3, <3>5 DEF Tracked
    <3>. QED
      BY <3>2, <3>6 DEF s
  <2>. QED
    BY <2>1, <2>2
<1>4. ASSUME NEW p \in Ready(excl)
      PROVE  /\ p \in Proxy /\ (healthy'[p] \/ sinceFailure'[p] >= Cooldown)
             /\ Len(Recent(history[p])) < MaxPerWindow
             /\ Spacing(p) \in Nat
             /\ Len(sent[p]) > 0 => sent[p][Len(sent[p])] + Spacing(p) >= MinInterval
  <2>1. p \in Proxy \ excl /\ Available(p) /\ Len(Purged(p)) < MaxPerWindow
    BY DEF Ready, Candidates
  <2>2. healthy'[p] \/ sinceFailure'[p] >= Cooldown
    BY <2>1 DEF Available
  <2>3. Spacing(p) \in 0 .. MinInterval /\ sinceCall[p] + Spacing(p) >= MinInterval
    BY <1>0, <2>1, SpacingShape
  <2>4. ASSUME Len(sent[p]) > 0 PROVE sent[p][Len(sent[p])] + Spacing(p) >= MinInterval
    <3>1. sent[p] # <<>> /\ Len(sent[p]) \in 1 .. Len(sent[p])
      BY <1>2, <2>1, <2>4, Ages
    <3>2. sent[p][Len(sent[p])] >= IF healthy'[p] THEN sinceCall[p] ELSE sinceFailure'[p]
      BY <2>1, <3>1 DEF Last
    <3>3. sent[p][Len(sent[p])] \in Nat /\ sinceFailure'[p] \in Nat
      BY <1>2, <2>1, <3>1
    <3>4. sinceCall[p] \in Nat
      BY <2>1, Settings DEF IInv, Types
    <3>. QED
      BY <2>2, <2>3, <3>2, <3>3, <3>4, Settings DEF SpacingSettings
  <2>. QED
    BY <2>1, <2>2, <2>3, <2>4, Settings DEF Purged
<1>5. ASSUME NEW p \in Ready(excl)
      PROVE  Len(sent[p]) < MaxPerWindow \/ sent[p][1] + Spacing(p) >= Window
  <2>1. p \in Proxy
    BY <1>4
  <2>. QED
    BY <1>2, <1>4, <2>1, RoomFor
<1>6. ASSUME NEW p \in Proxy PROVE WithinQuota(p)'
  <2>1. CASE sent'[p] = sent[p]
    <3>1. CASE Calling(p)'
      <4>1. Sent(p)
        BY <1>0, <3>1, PoolAlone
      <4>2. sent'[p] = Append(sent[p], 0)
        BY <4>1 DEF Sent, IInv, Types
      <4>3. Len(Append(sent[p], 0)) = Len(sent[p]) + 1 /\ Len(sent[p]) \in Nat
        BY <1>2, OneMore
      <4>. QED
        BY <2>1, <4>2, <4>3
    <3>2. CASE ~Calling(p)'
      <4>1. Calling(p)' = FALSE
        BY <3>2 DEF Calling
      <4>. QED
        BY <1>3, <2>1, <4>1 DEF WithinQuota
    <3>. QED
      BY <3>1, <3>2
  <2>2. CASE sent'[p] # sent[p]
    <3>1. Calling(p)' /\ Sent(p) /\ p \in Ready(excl) /\ Spacing(p) = 0
      BY <2>2, PoolAlone
    <3>2. Calling(p)' = TRUE
      BY <3>1 DEF Calling
    <3>3. Len(sent[p]) < MaxPerWindow
      <4>1. CASE Len(sent[p]) = 0
        BY <4>1, Settings
      <4>2. CASE Len(sent[p]) # 0
        <5>1. 1 \in 1 .. Len(sent[p])
          BY <1>2, <4>2
        <5>2. sent[p][1] < Window /\ sent[p][1] \in Nat
          BY <1>2, <5>1 DEF Young
        <5>3. sent[p][1] + Spacing(p) = sent[p][1]
          BY <3>1, <5>2
        <5>. QED
          BY <1>5, <3>1, <5>2, <5>3, Settings
      <4>. QED
        BY <4>1, <4>2
    <3>4. Len(sent[p]) > 0 => sent[p][Len(sent[p])] >= MinInterval
      <4>. SUFFICES ASSUME Len(sent[p]) > 0 PROVE sent[p][Len(sent[p])] >= MinInterval
        OBVIOUS
      <4>1. Len(sent[p]) \in 1 .. Len(sent[p])
        BY <1>2
      <4>2. sent[p][Len(sent[p])] \in Nat
        BY <1>2, <4>1
      <4>3. sent[p][Len(sent[p])] + Spacing(p) >= MinInterval
        BY <1>4, <3>1
      <4>. QED
        BY <3>1, <4>2, <4>3
    <3>5. /\ Apart(sent'[p]) /\ Len(sent'[p]) <= MaxPerWindow
          /\ Tracked(sent'[p], history'[p], TRUE, healthy'[p], sinceFailure'[p])
      BY <1>2, <1>3, <1>4, <3>1, <3>3, <3>4, SentWithinQuota
    <3>. QED
      BY <3>2, <3>5 DEF WithinQuota
  <2>. QED
    BY <2>1, <2>2
<1>7. ASSUME NEW d \in Caller, pc'[d] = "sleep"
      PROVE  \/ Len(sent'[via'[d]]) < MaxPerWindow
             \/ sent'[via'[d]][1] + wait'[d] >= Window
  <2>1. d = c
    BY DEF OneCaller
  <2>2. via'[d] \in Ready(excl) /\ wait'[d] = Spacing(via'[d]) /\ sent' = sent
    BY <1>7, <2>1, PoolAlone
  <2>. QED
    BY <1>5, <2>2
<1>. QED
  BY <1>6, <1>7 DEF Metered, WithinQuota

\* Time passes.
LEMMA TickMetered ==
  ASSUME IInv, Metered, Tick
  PROVE  Metered'
<1>0. UNCHANGED <<pc, via, healthy>> /\ \A p \in Proxy : Calling(p)' = Calling(p)
  BY DEF Tick, Calling
<1>1. ASSUME NEW p \in Proxy
      PROVE  WithinQuota(p)' /\ Shifted(sent[p], sent'[p])
  <2>1. /\ sent[p] \in Seq(0 .. Window) /\ sent'[p] \in Seq(0 .. Window)
        /\ history[p] \in Seq(0 .. Window) /\ history'[p] \in Seq(0 .. Window)
    BY TickLists DEF IInv, Types
  <2>2. Shifted(sent[p], sent'[p]) /\ Aged(history[p], history'[p])
    BY TickLists DEF Shifted, Aged
  <2>3. Calling(p) \in BOOLEAN /\ healthy[p] \in BOOLEAN
    BY DEF Calling, IInv, Types
  <2>4. /\ sinceFailure[p] \in Nat /\ sinceFailure'[p] \in Nat
        /\ sinceFailure'[p] <= sinceFailure[p] + 1
    <3>1. sinceFailure[p] \in 0 .. Cooldown /\ sinceFailure'[p] = Older(sinceFailure[p], Cooldown)
      BY DEF IInv, Types, Tick
    <3>. QED
      BY <3>1, Settings DEF Older
  <2>5. /\ Apart(sent[p]) /\ Len(sent[p]) <= MaxPerWindow
        /\ Tracked(sent[p], history[p], Calling(p), healthy[p], sinceFailure[p])
    BY DEF Metered
  <2>6. /\ Apart(sent'[p])
        /\ Tracked(sent'[p], history'[p], Calling(p), healthy[p], sinceFailure'[p])
    BY <2>1, <2>2, <2>3, <2>4, <2>5, TrackTick
  <2>7. Len(sent'[p]) <= MaxPerWindow
    <3>1. Len(sent[p]) \in Nat /\ Len(sent'[p]) \in Nat /\ Len(sent[p]) - Len(sent'[p]) \in 0 .. Len(sent[p])
      BY <2>1, <2>2, LenProperties DEF Shifted
    <3>. QED
      BY <2>5, <3>1, Settings
  <2>. QED
    BY <1>0, <2>2, <2>6, <2>7 DEF WithinQuota
<1>2. ASSUME NEW c \in Caller, pc'[c] = "sleep"
      PROVE  \/ Len(sent'[via'[c]]) < MaxPerWindow
             \/ sent'[via'[c]][1] + wait'[c] >= Window
  <2>1. PICK p \in Proxy : p = via[c] /\ via'[c] = p /\ pc[c] = "sleep"
    BY <1>0, <1>2 DEF IInv, Types, Selected
  <2>2. Len(sent[p]) < MaxPerWindow \/ sent[p][1] + wait[c] >= Window
    BY <2>1 DEF Metered
  <2>3. /\ Len(sent[p]) \in Nat /\ Len(sent'[p]) \in Nat
        /\ (\A i \in 1 .. Len(sent[p]) : sent[p][i] \in Nat)
    <3>1. sent[p] \in Seq(0 .. Window) /\ sent'[p] \in Seq(0 .. Window)
      BY TickLists DEF IInv, Types
    <3>. QED
      BY <3>1, Ages
  <2>4. /\ Len(sent[p]) - Len(sent'[p]) \in 0 .. Len(sent[p])
        /\ \A i \in 1 .. Len(sent'[p]) : sent'[p][i] = sent[p][i + (Len(sent[p]) - Len(sent'[p]))] + 1
        /\ Len(sent[p]) <= MaxPerWindow
    BY <1>1 DEF Shifted, Metered
  <2>5. CASE Len(sent'[p]) < MaxPerWindow
    BY <2>1, <2>5
  <2>6. CASE ~(Len(sent'[p]) < MaxPerWindow)
    <3>1. Len(sent'[p]) = Len(sent[p]) /\ Len(sent[p]) = MaxPerWindow
      BY <2>3, <2>4, <2>6, Settings
    <3>2. 1 \in 1 .. Len(sent'[p]) /\ 1 \in 1 .. Len(sent[p]) /\ 1 + (Len(sent[p]) - Len(sent'[p])) = 1
      BY <2>3, <3>1, Settings
    <3>3. sent'[p][1] = sent[p][1] + 1 /\ sent[p][1] \in Nat
      BY <2>3, <2>4, <3>2
    <3>4. sent[p][1] + wait[c] >= Window
      BY <2>2, <3>1, Settings
    <3>5. wait[c] \in Nat /\ wait'[c] = IF wait[c] > 0 THEN wait[c] - 1 ELSE 0
      BY Settings DEF Tick, IInv, Types
    <3>6. sent'[p][1] + wait'[c] >= Window
      BY <3>3, <3>4, <3>5, Settings
    <3>. QED
      BY <2>1, <3>6
  <2>. QED
    BY <2>5, <2>6
<1>. QED
  BY <1>1, <1>2 DEF Metered, WithinQuota

LEMMA MeteredStep ==
  ASSUME IInv, OneCaller, NoDisconnects, SpacingSettings, QuotaSettings,
         Isolated, Timely, Metered, [Next]_vars
  PROVE  Metered'
<1>0. \A p \in Proxy : /\ sent[p] \in Seq(0 .. Window) /\ history[p] \in Seq(0 .. Window)
                       /\ Chronological(history[p])
                       /\ healthy[p] \in BOOLEAN /\ sinceFailure[p] \in Nat
  BY Settings DEF IInv, Types, Lists
<1>1. CASE Tick
  BY <1>1, TickMetered
<1>2. ASSUME NEW c \in Caller, pc[c] # "proxy", pc'[c] \in {"idle", "direct", "probe"},
             UNCHANGED <<sent, history, healthVars>>
      PROVE  Metered'
  <2>1. \A p \in Proxy : Calling(p)' = Calling(p)
    BY <1>2 DEF OneCaller, Calling
  <2>2. \A d \in Caller : pc'[d] # "sleep"
    BY <1>2 DEF OneCaller
  <2>. QED
    BY <1>2, <2>1, <2>2 DEF Metered, healthVars
<1>3. ASSUME NEW c \in Caller, StartDirect(c) PROVE Metered'
  <2>1. /\ pc[c] = "idle" /\ pc'[c] \in {"direct", "probe"}
        /\ UNCHANGED <<sent, history, healthVars>>
    BY <1>3 DEF StartDirect, IInv, Types
  <2>. QED
    BY <1>2, <2>1
<1>4. ASSUME NEW c \in Caller, DirectOk(c) PROVE Metered'
  <2>1. /\ pc[c] # "proxy" /\ pc'[c] = "idle"
        /\ UNCHANGED <<sent, history, healthVars>>
    BY <1>4 DEF DirectOk, InDirect, Leave, IInv, Types
  <2>. QED
    BY <1>2, <2>1
<1>5. ASSUME NEW c \in Caller, StartPool(c) \/ DirectFail(c) PROVE Metered'
  <2>1. /\ Pool(c, {}) /\ {} \in SUBSET Proxy /\ UNCHANGED <<healthVars, callVars>>
        /\ pc[c] # "proxy"
    BY <1>5 DEF StartPool, DirectFail, InDirect
  <2>2. \A p \in Proxy : Calling(p) = FALSE
    BY <2>1 DEF OneCaller, Calling
  <2>3. \A p \in Proxy : sent[p] # <<>>
           => Last(sent[p]) >= IF healthy'[p] THEN sinceCall[p] ELSE sinceFailure'[p]
    BY <2>1, <2>2 DEF Timely, healthVars
  <2>4. \A p \in Proxy : /\ Apart(sent[p]) /\ Len(sent[p]) <= MaxPerWindow
                          /\ Tracked(sent[p], history[p], FALSE, healthy'[p], sinceFailure'[p])
    BY <2>1, <2>2 DEF Metered, healthVars
  <2>5. /\ healthy' \in [Proxy -> BOOLEAN] /\ sinceFailure' \in [Proxy -> 0 .. Cooldown]
        /\ \A p \in Proxy \ {} : healthy'[p] = healthy[p] /\ sinceFailure'[p] = sinceFailure[p]
    BY <2>1 DEF IInv, Types, healthVars
  <2>. QED
    BY <2>1, <2>3, <2>4, <2>5, PoolMetered
<1>6. ASSUME NEW c \in Caller, Awake(c) PROVE Metered'
  <2>1. PICK p \in Proxy : p = via[c] /\ pc[c] = "sleep" /\ wait[c] = 0
    BY <1>6 DEF Awake, IInv, Types, Selected
  <2>2. /\ pc' = [pc EXCEPT ![c] = "proxy"] /\ Sent(p)
        /\ UNCHANGED <<healthVars, callVars, via, history>>
    BY <1>6, <2>1 DEF Awake
  <2>3. pc'[c] = "proxy" /\ via'[c] = p
    BY <2>1, <2>2 DEF IInv, Types
  <2>4. Calling(p) = FALSE /\ Calling(p)' = TRUE /\ \A q \in Proxy \ {p} : Calling(q)' = Calling(q)
    BY <2>1, <2>2, <2>3 DEF OneCaller, Calling
  <2>5. /\ Apart(sent[p]) /\ Len(sent[p]) <= MaxPerWindow
        /\ Tracked(sent[p], history[p], FALSE, healthy[p], sinceFailure[p])
    BY <2>4 DEF Metered
  <2>6. /\ Len(sent[p]) \in Nat /\ (\A i \in 1 .. Len(sent[p]) : sent[p][i] \in Nat)
        /\ (sent[p] # <<>> <=> Len(sent[p]) > 0)
    BY <1>0, Ages
  <2>7. Len(sent[p]) < MaxPerWindow
    <3>. SUFFICES ASSUME Len(sent[p]) = MaxPerWindow PROVE FALSE
      BY <2>5, <2>6, Settings
    <3>1. 1 \in 1 .. Len(sent[p])
      BY <2>6, Settings
    <3>2. sent[p][1] < Window /\ sent[p][1] \in Nat
      BY <2>6, <3>1 DEF IInv, Lists, Young
    <3>3. sent[p][1] + wait[c] >= Window
      BY <2>1, Settings DEF Metered
    <3>. QED
      BY <2>1, <3>2, <3>3, Settings
  <2>8. sinceCall[p] \in 0 .. MinInterval /\ sinceFailure[p] \in 0 .. Cooldown
    BY DEF IInv, Types
  <2>9. Available(p) /\ sinceCall[p] >= MinInterval
    BY <2>1, <2>8, Settings DEF Isolated, Timely
  <2>10. Len(sent[p]) > 0 => sent[p][Len(sent[p])] >= MinInterval
    <3>. SUFFICES ASSUME Len(sent[p]) > 0 PROVE sent[p][Len(sent[p])] >= MinInterval
      OBVIOUS
    <3>1. sent[p] # <<>> /\ ~Calling(p) /\ Len(sent[p]) \in 1 .. Len(sent[p])
      BY <2>4, <2>6
    <3>2. sent[p][Len(sent[p])] >= Stamp(p)
      BY <3>1 DEF Timely, Stamp, Last
    <3>3. Stamp(p) >= MinInterval /\ Stamp(p) \in Nat
      BY <2>8, <2>9, Settings DEF Stamp, Available, SpacingSettings
    <3>4. sent[p][Len(sent[p])] \in Nat
      BY <2>6, <3>1
    <3>. QED
      BY <3>2, <3>3, <3>4, Settings
  <2>11. healthy[p] \/ sinceFailure[p] >= Cooldown
    BY <2>9 DEF Available
  <2>12. /\ Apart(sent'[p]) /\ Len(sent'[p]) <= MaxPerWindow
         /\ Tracked(sent'[p], history[p], TRUE, healthy[p], sinceFailure[p])
    BY <1>0, <2>2, <2>5, <2>7, <2>10, <2>11, SentWithinQuota
  <2>13. \A q \in Proxy \ {p} : sent'[q] = sent[q]
    BY <2>2 DEF Sent, IInv, Types
  <2>14. ASSUME NEW q \in Proxy PROVE WithinQuota(q)'
    <3>1. CASE q = p
      BY <2>2, <2>4, <2>12, <3>1 DEF WithinQuota, healthVars
    <3>2. CASE q # p
      BY <2>2, <2>4, <2>13, <3>2 DEF WithinQuota, Metered, healthVars
    <3>. QED
      BY <3>1, <3>2
  <2>15. \A d \in Caller : pc'[d] # "sleep"
    BY <2>3 DEF OneCaller
  <2>. QED
    BY <2>14, <2>15 DEF Metered, WithinQuota
<1>7. ASSUME NEW c \in Caller, ProxyOk(c) PROVE Metered'
  <2>1. PICK p \in Proxy : p = via[c] /\ pc[c] = "proxy"
    BY <1>7 DEF ProxyOk, IInv, Types, Selected
  <2>2. /\ healthy' = [healthy EXCEPT ![p] = TRUE]
        /\ history' = [history EXCEPT ![p] = Append(history[p], 0)]
        /\ Leave(c) /\ UNCHANGED <<sinceFailure, sent>>
    BY <1>7, <2>1 DEF ProxyOk, IInv, Types
  <2>3. pc'[c] = "idle"
    BY <2>2 DEF Leave, IInv, Types
  <2>4. \A q \in Proxy : Calling(q)' = FALSE
    BY <2>3 DEF OneCaller, Calling
  <2>5. Calling(p) = TRUE /\ \A q \in Proxy \ {p} : Calling(q) = FALSE
    BY <2>1 DEF OneCaller, Calling
  <2>6. ASSUME NEW q \in Proxy PROVE WithinQuota(q)'
    <3>1. /\ Apart(sent[q]) /\ Len(sent[q]) <= MaxPerWindow
          /\ Tracked(sent[q], history[q], Calling(q), healthy[q], sinceFailure[q])
      BY DEF Metered
    <3>2. CASE q = p
      <4>1. healthy'[q] = TRUE /\ history'[q] = Append(history[q], 0)
        BY <2>2, <3>2 DEF IInv, Types
      <4>2. Tracked(sent[q], Append(history[q], 0), FALSE, TRUE, sinceFailure[q])
        BY <1>0, <2>5, <3>1, <3>2, TrackOk
      <4>. QED
        BY <2>2, <2>4, <3>1, <4>1, <4>2 DEF WithinQuota
    <3>3. CASE q # p
      <4>1. healthy'[q] = healthy[q] /\ history'[q] = history[q]
        BY <2>2, <3>3 DEF IInv, Types
      <4>. QED
        BY <2>2, <2>4, <2>5, <3>1, <3>3, <4>1 DEF WithinQuota
    <3>. QED
      BY <3>2, <3>3
  <2>7. \A d \in Caller : pc'[d] # "sleep"
    BY <2>3 DEF OneCaller
  <2>. QED
    BY <2>6, <2>7 DEF Metered, WithinQuota
<1>8. ASSUME NEW c \in Caller, ProxyFail(c) PROVE Metered'
  <2>1. PICK p \in Proxy : p = via[c] /\ pc[c] = "proxy"
    BY <1>8 DEF ProxyFail, IInv, Types, Selected
  <2>. DEFINE excl == excluded[c] \cup {via[c]}
  <2>2. /\ healthy' = [healthy EXCEPT ![p] = FALSE]
        /\ sinceFailure' = [sinceFailure EXCEPT ![p] = 0]
        /\ Pool(c, excl) /\ UNCHANGED callVars
    BY <1>8, <2>1 DEF ProxyFail
  <2>3. excl \in SUBSET Proxy /\ p \in excl
    BY <2>1 DEF IInv, Types
  <2>. HIDE DEF excl
  <2>4. \A q \in Proxy \ {p} : Calling(q) = FALSE
    BY <2>1 DEF OneCaller, Calling
  <2>5. /\ healthy'[p] = FALSE /\ sinceFailure'[p] = 0
        /\ \A q \in Proxy \ {p} : healthy'[q] = healthy[q] /\ sinceFailure'[q] = sinceFailure[q]
    BY <2>2 DEF IInv, Types
  <2>6. healthy' \in [Proxy -> BOOLEAN] /\ sinceFailure' \in [Proxy -> 0 .. Cooldown]
    <3>1. 0 \in 0 .. Cooldown
      BY Settings
    <3>. QED
      BY <2>2, <3>1 DEF IInv, Types
  <2>7. ASSUME NEW q \in Proxy, sent[q] # <<>>
        PROVE  Last(sent[q]) >= IF healthy'[q] THEN sinceCall[q] ELSE sinceFailure'[q]
    <3>1. CASE q = p
      <4>1. Len(sent[q]) \in 1 .. Len(sent[q]) /\ \A i \in 1 .. Len(sent[q]) : sent[q][i] \in Nat
        BY <1>0, <2>7, Ages
      <4>2. Last(sent[q]) \in Nat
        BY <4>1 DEF Last
      <4>. QED
        BY <2>5, <3>1, <4>2
    <3>2. CASE q # p
      <4>1. ~Calling(q)
        BY <2>4, <3>2
      <4>. QED
        BY <2>5, <2>7, <3>2, <4>1 DEF Timely
    <3>. QED
      BY <3>1, <3>2
  <2>8. ASSUME NEW q \in Proxy
        PROVE  /\ Apart(sent[q]) /\ Len(sent[q]) <= MaxPerWindow
               /\ Tracked(sent[q], history[q], FALSE, healthy'[q], sinceFailure'[q])
    <3>1. /\ Apart(sent[q]) /\ Len(sent[q]) <= MaxPerWindow
          /\ Tracked(sent[q], history[q], Calling(q), healthy[q], sinceFailure[q])
      BY DEF Metered
    <3>2. CASE q = p
      <4>1. Tracked(sent[q], history[q], FALSE, FALSE, 0)
        BY <1>0, <3>1, TrackFail
      <4>. QED
        BY <2>5, <3>1, <3>2, <4>1
    <3>3. CASE q # p
      BY <2>4, <2>5, <3>1, <3>3
    <3>. QED
      BY <3>2, <3>3
  <2>9. \A q \in Proxy \ excl : healthy'[q] = healthy[q] /\ sinceFailure'[q] = sinceFailure[q]
    BY <2>3, <2>5
  <2>. QED
    BY <2>2, <2>3, <2>6, <2>7, <2>8, <2>9, PoolMetered
<1>9. ASSUME NEW c \in Caller, Abort(c) PROVE Metered'
  <2>1. aborts < 0 /\ aborts \in 0 .. 0
    BY <1>9 DEF Abort, NoDisconnects, IInv, Types
  <2>. QED
    BY <2>1
<1>10. CASE UNCHANGED vars
  <2>1. UNCHANGED <<pc, via, wait, sent, history, healthy, sinceFailure>>
    BY <1>10 DEF vars, healthVars
  <2>2. \A p \in Proxy : Calling(p)' = Calling(p)
    BY <2>1 DEF Calling
  <2>. QED
    BY <2>1, <2>2 DEF Metered
<1>. QED
  BY <1>1, <1>3, <1>4, <1>5, <1>6, <1>7, <1>8, <1>9, <1>10 DEF Next, Start, Proceed

\* A sliding-window quota per proxy (soap_router.py:12): with one caller at a time, nobody
\* cancelled and settings that leave a failed proxy out long enough, a gateway is sent no
\* more than MaxPerWindow requests within a window, the failed ones, which the history
\* does not record, included.
THEOREM QuotaIsKept ==
  OneCaller /\ NoDisconnects /\ SpacingSettings /\ QuotaSettings => (Spec => []GatewayQuota)
<1>. SUFFICES ASSUME OneCaller, NoDisconnects, SpacingSettings, QuotaSettings
              PROVE  Spec => []GatewayQuota
  OBVIOUS
<1>1. Init => Isolated /\ Timely /\ Metered
  <2>. SUFFICES ASSUME Init PROVE Isolated /\ Timely /\ Metered
    OBVIOUS
  <2>1. \A c \in Caller : pc[c] = "idle"
    BY DEF Init
  <2>2. \A p \in Proxy : sent[p] = <<>> /\ history[p] = <<>> /\ Calling(p) = FALSE
    BY DEF Init, Calling
  <2>3. Len(<<>>) = 0
    BY EmptySeq
  <2>4. Apart(<<>>)
    BY <2>3 DEF Apart
  <2>5. ASSUME NEW ok, NEW since PROVE Tracked(<<>>, <<>>, FALSE, ok, since)
    <3>1. 0 \in 0 .. 0
      OBVIOUS
    <3>. QED
      BY <2>3, <3>1 DEF Tracked, Recorded, Overdue
  <2>6. 0 <= MaxPerWindow
    BY Settings
  <2>7. Isolated /\ Timely
    BY <2>1, <2>2 DEF Isolated, Timely
  <2>8. Metered
    BY <2>1, <2>2, <2>3, <2>4, <2>5, <2>6 DEF Metered
  <2>. QED
    BY <2>7, <2>8
<1>2. IInv /\ (Isolated /\ Timely /\ Metered) /\ [Next]_vars => (Isolated /\ Timely /\ Metered)'
  BY IsolatedStep, TimelyStep, MeteredStep
<1>3. Metered => \A p \in Proxy : Len(sent[p]) <= MaxPerWindow
  BY DEF Metered
<1>4. TypeOK /\ Metered => GatewayQuota
  BY <1>3 DEF GatewayQuota
<1>. QED
  BY <1>1, <1>2, <1>4, Inductive, TypeCorrect, PTL DEF Spec

=============================================================================
