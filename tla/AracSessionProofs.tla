-------------------------- MODULE AracSessionProofs --------------------------
(***************************************************************************)
(* Proofs about AracSession, for any vehicles, plates, captchas and        *)
(* requests: type correctness, that every hash is fresh and of the vehicle *)
(* that was asked for, that session keys are good, and that no captcha is  *)
(* offered twice.                                                          *)
(***************************************************************************)
EXTENDS AracSession, SequenceTheorems, TLAPS

\* what the portal may list
List == UNION {[S -> Plate] : S \in SUBSET Vehicle}

RequestType ==
  [kind : {None, "create", "detail", "auto"},
   st : {"idle", "captcha", "lookup", "query", "store", "submit", "detail"},
   asked : Asked \cup {None}, jar : Captcha \cup Request \cup {None},
   door : Vehicle \cup {None}, whole : BOOLEAN, page : List \cup {<<>>}, hash : Hash \cup {None}]

KeyType == [session : Captcha, asked : Asked, of : Vehicle, plate : Plate]

\* captcha cookies are in the dict once, and only those that were issued
Jars ==
  /\ issued \subseteq Captcha
  /\ cookies \in Seq(issued) /\ IsInjective(cookies) /\ Len(cookies) <= MaxCookies

World ==
  /\ verified \in [Captcha \cup Request -> Vehicle \cup {None}]
  /\ plateOf \in [Vehicle -> Plate]
  /\ table \in [Vehicle -> Plate \cup {None}]

\* what a request r knows in each of its states
Well(r, q) ==
  /\ q \in RequestType
  /\ q.st = "idle" => q = Idle
  /\ q.st # "idle" => q.kind \in {"create", "detail", "auto"} /\ q.asked \in Asked
  /\ q.st = "captcha" => q.kind = "auto"
  /\ q.st \notin {"idle", "captcha"} => IF q.kind = "auto" THEN q.jar = r ELSE q.jar \in Captcha
  /\ q.st \in {"query", "store"} /\ q.door # None => q.asked \in Plate
  /\ q.st = "store" => /\ q.page \in List
                       /\ q.asked \in Plate => \A v \in DOMAIN q.page : q.asked \in {v, q.page[v]}
  /\ q.st = "submit" => q.kind \in {"create", "auto"}
  /\ q.st \in {"submit", "detail"} =>
       q.hash \in Hash /\ ~q.hash.sent /\ q.asked \in {q.hash.of, q.hash.plate}

Requests == request \in [Request -> RequestType] /\ \A r \in Request : Well(r, request[r])

\* sessions handed out are captchas whose jar is never solved again
Keys == keys \subseteq KeyType /\ KeysVerified

IInv == Jars /\ World /\ Requests /\ Keys

-----------------------------------------------------------------------------
(* Lists without repetition *)

\* RemoveFirst takes an element out of an injective sequence and keeps the order.
LEMMA LeaveQueue ==
  ASSUME NEW S, NEW q \in Seq(S), IsInjective(q), NEW c
  PROVE  LET r == RemoveFirst(q, c) IN
         /\ r \in Seq(S) /\ IsInjective(r)
         /\ Len(r) = IF c \in Range(q) THEN Len(q) - 1 ELSE Len(q)
         /\ Range(r) = Range(q) \ {c}
         /\ q # <<>> /\ Head(q) # c => r # <<>> /\ Head(r) = Head(q)
<1>0. Range(q) = {q[j] : j \in 1 .. Len(q)} /\ \A m, n \in 1 .. Len(q) : q[m] = q[n] => m = n
  BY RangeEquality DEF IsInjective
<1>1. CASE \A i \in 1 .. Len(q) : q[i] # c
  BY <1>0, <1>1 DEF RemoveFirst
<1>2. CASE \E i \in 1 .. Len(q) : q[i] = c
  <2>1. PICK i \in 1 .. Len(q) : q[i] = c
    BY <1>2
  <2>2. {k \in 1 .. Len(q) : q[k] = c} = {i}
    BY <1>0, <2>1
  <2>3. RemoveFirst(q, c) = RemoveAt(q, i)
    BY <2>1, <2>2 DEF RemoveFirst, SelectInSeq, Min
  <2>. DEFINE a == SubSeq(q, 1, i - 1)
              b == SubSeq(q, i + 1, Len(q))
              r == a \o b
  <2>4. a \in Seq(S) /\ Len(a) = i - 1 /\ \A j \in 1 .. i - 1 : a[j] = q[j]
    BY SubSeqProperties
  <2>5. b \in Seq(S) /\ Len(b) = Len(q) - i /\ \A j \in 1 .. Len(q) - i : b[j] = q[i + j]
    BY SubSeqProperties
  <2>6. RemoveFirst(q, c) = r
    BY <2>3 DEF RemoveAt
  <2>. HIDE DEF a, b
  <2>7. /\ r \in Seq(S) /\ Len(r) = Len(a) + Len(b)
        /\ \A j \in 1 .. Len(a) + Len(b) : r[j] = IF j <= Len(a) THEN a[j] ELSE b[j - Len(a)]
    BY <2>4, <2>5, ConcatProperties
  <2>. HIDE DEF r
  <2>8. Len(r) = Len(q) - 1 /\ \A j \in 1 .. Len(r) : r[j] = IF j < i THEN q[j] ELSE q[j + 1]
    <3>1. Len(r) = Len(q) - 1
      BY <2>4, <2>5, <2>7
    <3>2. ASSUME NEW j \in 1 .. Len(r), j < i PROVE r[j] = q[j]
      <4>1. j \in 1 .. Len(a) + Len(b) /\ j <= Len(a) /\ j \in 1 .. i - 1
        BY <3>1, <3>2, <2>4, <2>5
      <4>. QED
        BY <4>1, <2>4, <2>7
    <3>3. ASSUME NEW j \in 1 .. Len(r), j >= i PROVE r[j] = q[j + 1]
      <4>1. j \in 1 .. Len(a) + Len(b) /\ ~(j <= Len(a)) /\ j - Len(a) \in 1 .. Len(q) - i
        BY <3>1, <3>3, <2>4, <2>5
      <4>2. i + (j - Len(a)) = j + 1
        BY <2>4
      <4>. QED
        BY <4>1, <4>2, <2>5, <2>7
    <3>. QED
      BY <3>1, <3>2, <3>3
  <2>9. IsInjective(r)
    <3>. SUFFICES ASSUME NEW j \in 1 .. Len(r), NEW k \in 1 .. Len(r), r[j] = r[k] PROVE j = k
      BY <2>7 DEF IsInjective
    <3>. QED
      BY <1>0, <2>8
  <2>10. Range(r) = Range(q) \ {c}
    <3>1. \A j \in 1 .. Len(r) : r[j] \in Range(q) \ {c}
      <4>. TAKE j \in 1 .. Len(r)
      <4>1. PICK k \in 1 .. Len(q) : k # i /\ r[j] = q[k]
        BY <2>8
      <4>. QED
        BY <1>0, <2>1, <4>1
    <3>2. \A j \in 1 .. Len(q) : q[j] = c \/ \E k \in 1 .. Len(r) : r[k] = q[j]
      <4>. TAKE j \in 1 .. Len(q)
      <4>1. CASE j < i
        BY <4>1, <2>8
      <4>2. CASE j > i
        <5>1. j - 1 \in 1 .. Len(r) /\ r[j - 1] = q[j]
          BY <4>2, <2>8
        <5>. QED
          BY <5>1
      <4>. QED
        BY <4>1, <4>2, <2>1
    <3>3. Range(r) = {r[j] : j \in 1 .. Len(r)}
      BY <2>7, RangeEquality
    <3>. QED
      BY <1>0, <3>1, <3>2, <3>3
  <2>11. q # <<>> /\ Head(q) # c => r # <<>> /\ Head(r) = Head(q)
    BY <2>1, <2>7, <2>8
  <2>. QED
    BY <1>0, <2>1, <2>6, <2>7, <2>8, <2>9, <2>10, <2>11
<1>. QED
  BY <1>1, <1>2

\* An injective sequence without its head.
LEMMA TailQueue ==
  ASSUME NEW S, NEW q \in Seq(S), IsInjective(q), q # <<>>
  PROVE  Tail(q) \in Seq(S) /\ IsInjective(Tail(q)) /\ Range(Tail(q)) = Range(q) \ {Head(q)}
<1>. DEFINE r == Tail(q)
<1>1. r \in Seq(S) /\ Len(r) = Len(q) - 1 /\ \A i \in 1 .. Len(r) : r[i] = q[i + 1]
  BY HeadTailProperties
<1>2. /\ \A m, n \in 1 .. Len(q) : q[m] = q[n] => m = n
      /\ Len(q) >= 1 /\ Head(q) = q[1] /\ Range(q) = {q[i] : i \in 1 .. Len(q)}
  BY RangeEquality DEF IsInjective
<1>. HIDE DEF r
<1>3. IsInjective(r)
  BY <1>1, <1>2 DEF IsInjective
<1>4. Range(r) = {q[i] : i \in 2 .. Len(q)}
  <2>1. \A i \in 2 .. Len(q) : i - 1 \in 1 .. Len(r) /\ r[i - 1] = q[i]
    BY <1>1
  <2>2. \A i \in 1 .. Len(r) : i + 1 \in 2 .. Len(q)
    BY <1>1
  <2>3. Range(r) = {r[i] : i \in 1 .. Len(r)}
    BY <1>1, RangeEquality
  <2>. QED
    BY <1>1, <2>1, <2>2, <2>3
<1>. QED
  BY <1>1, <1>2, <1>3, <1>4 DEF r

\* An injective sequence with one more element.
LEMMA AppendQueue ==
  ASSUME NEW S, NEW q \in Seq(S), IsInjective(q), NEW c \in S, c \notin Range(q)
  PROVE  LET r == Append(q, c) IN
         /\ r \in Seq(S) /\ IsInjective(r) /\ Range(r) = Range(q) \cup {c}
         /\ Head(r) = IF q = <<>> THEN c ELSE Head(q)
<1>. DEFINE r == Append(q, c)
<1>1. /\ r \in Seq(S) /\ Len(r) = Len(q) + 1 /\ r[Len(q) + 1] = c
      /\ \A i \in 1 .. Len(q) : r[i] = q[i]
  BY AppendProperties
<1>2. Head(r) = IF q = <<>> THEN c ELSE Head(q)
  BY HeadTailAppend
<1>. HIDE DEF r
<1>3. Range(q) = {q[i] : i \in 1 .. Len(q)} /\ Range(r) = {r[i] : i \in 1 .. Len(r)}
  BY <1>1, RangeEquality
<1>4. \A m, n \in 1 .. Len(q) : q[m] = q[n] => m = n
  BY DEF IsInjective
<1>5. IsInjective(r)
  BY <1>1, <1>3, <1>4 DEF IsInjective
<1>. QED
  BY <1>1, <1>2, <1>3, <1>5 DEF r

-----------------------------------------------------------------------------
(* What the helpers of the model do *)

\* The null value is no name, no captcha and no record.
LEMMA NamesApart ==
  /\ Vehicle \cap Plate = {} /\ Captcha \cap Request = {} /\ Asked \subseteq Vehicle \cup Plate
  /\ None \notin Vehicle /\ None \notin Plate /\ None \notin Captcha /\ None \notin Request
BY NamesAssumption, AskedAssumption

LEMMA IdleWell == \A r : Idle \in RequestType /\ Idle.st = "idle" /\ Well(r, Idle)
BY DEF Idle, RequestType, Well

\* What the portal lists has the type of a list.
LEMMA PageShape ==
  ASSUME plateOf \in [Vehicle -> Plate], NEW page \in Page
  PROVE  page \in List /\ DOMAIN page \subseteq Vehicle /\ \A v \in DOMAIN page : page[v] \in Plate
BY DEF Page, List

LEMMA ListShape ==
  ASSUME NEW page \in List
  PROVE  DOMAIN page \subseteq Vehicle /\ \A v \in DOMAIN page : page[v] \in Plate
BY DEF List

\* upsert_vehicles_batch keeps the table typed.
LEMMA RecordedType ==
  ASSUME table \in [Vehicle -> Plate \cup {None}], NEW page \in List
  PROVE  Recorded(page) \in [Vehicle -> Plate \cup {None}]
<1>1. \A v \in Vehicle : (IF v \in DOMAIN page THEN page[v] ELSE table[v]) \in Plate \cup {None}
  BY ListShape
<1>. QED
  BY <1>1 DEF Recorded

\* Changing one request well keeps them all well.
LEMMA OneRequest ==
  ASSUME Requests, NEW r \in Request, NEW q, Well(r, q), request' = [request EXCEPT ![r] = q]
  PROVE  Requests'
<1>1. q \in RequestType
  BY DEF Well
<1>2. request' \in [Request -> RequestType]
  BY <1>1 DEF Requests
<1>3. \A s \in Request : request'[s] = IF s = r THEN q ELSE request[s]
  BY DEF Requests
<1>. QED
  BY <1>2, <1>3 DEF Requests

\* The handler ends: its captcha, if it has taken one, is gone.
LEMMA EndStep ==
  ASSUME Jars, Requests, NEW r \in Request, request[r].st # "idle", End(r), UNCHANGED issued
  PROVE  /\ Jars' /\ Requests' /\ request'[r] = Idle /\ Range(cookies') \subseteq Range(cookies)
         /\ \A s \in Request \ {r} : request'[s] = request[s]
         /\ request[r].kind = "create" => request[r].jar \notin Range(cookies')
<1>1. request' = [request EXCEPT ![r] = Idle] /\ request'[r] = Idle
      /\ \A s \in Request \ {r} : request'[s] = request[s]
  BY DEF End, Requests
<1>2. Requests'
  BY <1>1, IdleWell, OneRequest
<1>3. /\ cookies' \in Seq(issued) /\ IsInjective(cookies') /\ Len(cookies') <= MaxCookies
      /\ Range(cookies') \subseteq Range(cookies)
      /\ request[r].kind = "create" => request[r].jar \notin Range(cookies')
  <2>1. CASE request[r].kind = "create"
    <3>1. cookies' = RemoveFirst(cookies, request[r].jar)
      BY <2>1 DEF End
    <3>2. /\ cookies' \in Seq(issued) /\ IsInjective(cookies')
          /\ Len(cookies') \in {Len(cookies), Len(cookies) - 1}
          /\ Range(cookies') = Range(cookies) \ {request[r].jar}
      BY <3>1, LeaveQueue DEF Jars
    <3>3. Len(cookies) \in Nat /\ Len(cookies') \in Nat /\ Len(cookies) <= MaxCookies
      BY <3>2, LenProperties DEF Jars
    <3>. QED
      BY <3>2, <3>3, BoundsAssumption
  <2>2. CASE request[r].kind # "create"
    BY <2>2 DEF End, Jars
  <2>. QED
    BY <2>1, <2>2
<1>. QED
  BY <1>1, <1>2, <1>3 DEF Jars

-----------------------------------------------------------------------------
(* The steps *)

Consumed ==
  \A r \in Request : request[r].kind = "create" /\ request'[r].st = "idle"
    => request[r].jar \notin Range(cookies')

\* Only the end of a request has to be looked at.
LEMMA ConsumedIntro ==
  ASSUME Requests, Jars',
         \A r \in Request : request[r].st # "idle" /\ request'[r].st = "idle" =>
           (request[r].kind = "create" => request[r].jar \notin Range(cookies'))
  PROVE  Consumed
<1>. SUFFICES ASSUME NEW r \in Request, request[r].kind = "create", request'[r].st = "idle"
              PROVE  request[r].jar \notin Range(cookies')
  BY DEF Consumed
<1>1. CASE request[r].st = "idle"
  <2>1. request[r].jar = None
    BY <1>1 DEF Requests, Well, Idle
  <2>2. Range(cookies') \subseteq Captcha
    BY ElementOfSeq, LenProperties DEF Jars, Range
  <2>. QED
    BY <2>1, <2>2, NamesApart
<1>. QED
  BY <1>1

\* A handler that ends keeps the invariant if the portal and the keys stay.
LEMMA EndKeeps ==
  ASSUME IInv, NEW r \in Request, request[r].st # "idle", End(r), UNCHANGED issued, World', Keys'
  PROVE  IInv' /\ Consumed
<1>1. /\ Jars' /\ Requests' /\ request'[r] = Idle
      /\ \A s \in Request \ {r} : request'[s] = request[s]
      /\ request[r].kind = "create" => request[r].jar \notin Range(cookies')
  BY EndStep DEF IInv
<1>2. Consumed
  BY <1>1, ConsumedIntro DEF IInv
<1>. QED
  BY <1>1, <1>2 DEF IInv

\* So does one that goes on.
LEMMA GoKeeps ==
  ASSUME IInv, NEW r \in Request, NEW q, Well(r, q), q.st # "idle",
         request' = [request EXCEPT ![r] = q], UNCHANGED <<cookies, issued>>, World', Keys'
  PROVE  IInv' /\ Consumed
<1>1. Jars' /\ Requests'
  BY OneRequest DEF IInv, Jars
<1>2. \A s \in Request : request'[s] = IF s = r THEN q ELSE request[s]
  BY DEF IInv, Requests
<1>3. Consumed
  BY <1>1, <1>2, ConsumedIntro DEF IInv
<1>. QED
  BY <1>1, <1>3 DEF IInv

\* The keys stay good while their captchas stay solved.
LEMMA KeysStay ==
  ASSUME IInv, keys' = keys, \A k \in Captcha : verified[k] # None => verified'[k] = verified[k]
  PROVE  Keys'
<1>1. \A key \in keys : /\ key.session \in Captcha /\ key.of \in Vehicle
                        /\ verified[key.session] = key.of /\ key.asked \in {key.of, key.plate}
  BY DEF IInv, Keys, KeyType, KeysVerified
<1>. QED
  BY <1>1, NamesApart DEF IInv, Keys, KeysVerified

\* The portal, as far as the router can change it.
LEMMA WorldStays ==
  ASSUME IInv, UNCHANGED <<portal, table>>
  PROVE  World'
BY DEF IInv, World, portal

\* A request that is opened.
LEMMA OpenKeeps ==
  ASSUME IInv, NEW r \in Request, NEW name \in Asked,
         NEW kind \in {"create", "detail", "auto"}, NEW st \in {"captcha", "lookup"}, NEW jar,
         IF kind = "auto" THEN st = "captcha" /\ jar = None ELSE st = "lookup" /\ jar \in Captcha,
         Open(r, kind, st, name, jar)
  PROVE  IInv' /\ Consumed
<1>. DEFINE q == [Idle EXCEPT !.kind = kind, !.st = st, !.asked = name, !.jar = jar]
<1>1. /\ request' = [request EXCEPT ![r] = q] /\ UNCHANGED <<cookies, issued, keys, portal, table>>
  BY DEF Open
<1>2. /\ q \in RequestType
      /\ q.kind = kind /\ q.st = st /\ q.asked = name /\ q.jar = jar /\ q.door = None
  <2>1. Idle \in RequestType /\ jar \in Captcha \cup Request \cup {None} /\ Idle.door = None
    BY IdleWell DEF Idle
  <2>. QED
    BY <2>1 DEF RequestType
<1>. HIDE DEF q
<1>3. Well(r, q) /\ q.st # "idle"
  BY <1>2 DEF Well
<1>. QED
  BY <1>1, <1>3, GoKeeps, WorldStays, KeysStay DEF portal

\* What a request that is under way knows.
LEMMA UnderWay ==
  ASSUME IInv, NEW r \in Request, request[r].st # "idle"
  PROVE  /\ request \in [Request -> RequestType] /\ request[r] \in RequestType
         /\ Well(r, request[r])
         /\ request[r].kind \in {"create", "detail", "auto"} /\ request[r].asked \in Asked
BY DEF IInv, Requests, Well

\* The captcha of auto-detail is solved in a jar of its own.
LEMMA SolveKeeps ==
  ASSUME IInv, NEW r \in Request, Solve(r)
  PROVE  IInv' /\ Consumed
<1>. DEFINE q == [request[r] EXCEPT !.st = "lookup", !.jar = r]
<1>1. /\ request[r].st = "captcha" /\ verified' = [verified EXCEPT ![r] = None]
      /\ UNCHANGED <<cookies, issued, keys, plateOf, moved, table>>
  BY DEF Solve
<1>2. request' = [request EXCEPT ![r] = q]
  BY UnderWay DEF Solve
<1>3. Well(r, q) /\ q.st # "idle"
  <2>1. /\ q \in RequestType /\ q.kind = "auto" /\ q.st = "lookup" /\ q.jar = r
        /\ q.asked = request[r].asked
    <3>1. request[r] \in RequestType /\ request[r].kind = "auto"
      BY <1>1, UnderWay DEF Well
    <3>. QED
      BY <3>1 DEF RequestType
  <2>. HIDE DEF q
  <2>. QED
    BY <1>1, <2>1, UnderWay DEF Well
<1>4. World'
  BY <1>1 DEF IInv, World
<1>5. Keys'
  BY <1>1, KeysStay, NamesApart DEF IInv, World
<1>. QED
  BY <1>1, <1>2, <1>3, <1>4, <1>5, GoKeeps

\* The table can name a door for a plate only.
LEMMA LookupKeeps ==
  ASSUME IInv, NEW r \in Request, Lookup(r)
  PROVE  IInv' /\ Consumed
<1>. DEFINE rows == {v \in Vehicle : table[v] = request[r].asked}
<1>1. request[r].st = "lookup" /\ UNCHANGED <<cookies, issued, keys, portal, table>>
  BY DEF Lookup
<1>2. PICK d \in (IF rows = {} THEN {None} ELSE rows) :
        request' = [request EXCEPT ![r].st = "query", ![r].door = d,
                                   ![r].whole = request[r].asked \in Plate]
  BY DEF Lookup
<1>3. d \in Vehicle \cup {None} /\ (d # None => request[r].asked \in Plate)
  <2>1. ASSUME d \in rows PROVE request[r].asked \in Plate
    <3>1. request[r].asked \in Asked
      BY <1>1, UnderWay
    <3>2. request[r].asked # None
      BY <3>1, NamesApart
    <3>. QED
      BY <2>1, <3>2 DEF IInv, World
  <2>. QED
    BY <1>2, <2>1
<1>. DEFINE q == [request[r] EXCEPT !.st = "query", !.door = d, !.whole = request[r].asked \in Plate]
<1>4. request' = [request EXCEPT ![r] = q]
  BY <1>1, <1>2, UnderWay
<1>5. Well(r, q) /\ q.st # "idle"
  <2>0. (request[r].asked \in Plate) \in BOOLEAN
    OBVIOUS
  <2>1. /\ q \in RequestType /\ q.st = "query" /\ q.door = d
        /\ q.kind = request[r].kind /\ q.asked = request[r].asked /\ q.jar = request[r].jar
    BY <1>1, <1>3, <2>0, UnderWay DEF RequestType
  <2>. HIDE DEF q
  <2>. QED
    BY <1>1, <1>3, <2>1, UnderWay DEF Well
<1>. QED
  BY <1>1, <1>4, <1>5, GoKeeps, WorldStays, KeysStay DEF portal

\* A plate brings no other vehicles.
LEMMA QueryKeeps ==
  ASSUME IInv, NEW r \in Request, NEW page \in Page, Query(r, page)
  PROVE  IInv' /\ Consumed
<1>. DEFINE q == [request[r] EXCEPT !.st = "store", !.page = page]
<1>1. /\ request[r].st = "query" /\ UNCHANGED <<cookies, issued, keys, portal, table>>
      /\ request[r].asked \in Plate => \A v \in DOMAIN page : request[r].asked \in {v, page[v]}
  BY DEF Query
<1>2. request' = [request EXCEPT ![r] = q]
  BY <1>1, UnderWay DEF Query
<1>3. page \in List
  BY PageShape DEF IInv, World
<1>4. Well(r, q) /\ q.st # "idle"
  <2>1. /\ q \in RequestType /\ q.st = "store" /\ q.page = page /\ q.door = request[r].door
        /\ q.kind = request[r].kind /\ q.asked = request[r].asked /\ q.jar = request[r].jar
    BY <1>1, <1>3, UnderWay DEF RequestType
  <2>. HIDE DEF q
  <2>. QED
    BY <1>1, <1>3, <2>1, UnderWay DEF Well
<1>. QED
  BY <1>1, <1>2, <1>4, GoKeeps, WorldStays, KeysStay DEF portal

\* What is matched is the vehicle that was asked for.
LEMMA MatchingAsked ==
  ASSUME IInv, NEW r \in Request, request[r].st = "store", NEW v \in Matching(request[r])
  PROVE  v \in DOMAIN request[r].page /\ request[r].asked \in {v, request[r].page[v]}
<1>. DEFINE q == request[r]
<1>1. Well(r, q) /\ q.st = "store"
  BY UnderWay
<1>2. v \in DOMAIN q.page /\ (v \in {q.asked, q.door} \/ q.page[v] = q.asked)
  BY DEF Matching
<1>3. CASE v = q.door
  <2>1. v \in Vehicle
    BY <1>1, <1>2, ListShape DEF Well
  <2>2. q.asked \in Plate
    BY <1>1, <1>3, <2>1, NamesApart DEF Well
  <2>. QED
    BY <1>1, <1>2, <2>2 DEF Well
<1>. QED
  BY <1>2, <1>3

\* The list is stored, the vehicle matched or asked for again.
LEMMA StoreKeeps ==
  ASSUME IInv, NEW r \in Request, Store(r)
  PROVE  IInv' /\ Consumed
<1>. DEFINE p == request[r]
<1>1. p.st = "store" /\ table' = Recorded(p.page) /\ UNCHANGED <<issued, keys, portal>>
  BY DEF Store
<1>2. p \in RequestType /\ Well(r, p) /\ p.page \in List
  BY <1>1, UnderWay DEF Well
<1>3. World'
  BY <1>1, <1>2, RecordedType DEF IInv, World, portal
<1>4. Keys'
  BY <1>1, KeysStay DEF portal
<1>5. CASE Matching(p) # {}
  <2>1. PICK v \in Matching(p) :
          /\ request' = [request EXCEPT ![r].st = Needs(p), ![r].page = <<>>, ![r].whole = FALSE,
                           ![r].door = None, ![r].hash = [of |-> v, plate |-> p.page[v], sent |-> FALSE]]
          /\ UNCHANGED cookies
    BY <1>5 DEF Store
  <2>. DEFINE h == [of |-> v, plate |-> p.page[v], sent |-> FALSE]
              q == [p EXCEPT !.st = Needs(p), !.page = <<>>, !.whole = FALSE, !.door = None, !.hash = h]
  <2>2. v \in DOMAIN p.page /\ p.asked \in {v, p.page[v]}
    BY <1>1, MatchingAsked
  <2>3. h \in Hash /\ ~h.sent /\ h.of = v /\ h.plate = p.page[v]
    BY <1>2, <2>2, ListShape DEF Hash
  <2>4. request' = [request EXCEPT ![r] = q]
    BY <1>1, <2>1, UnderWay
  <2>5. Needs(p) \in {"submit", "detail"} /\ (Needs(p) = "submit" => p.kind \in {"create", "auto"})
    BY DEF Needs
  <2>. HIDE DEF h
  <2>6. /\ q \in RequestType /\ q.st = Needs(p) /\ q.kind = p.kind /\ q.asked = p.asked
        /\ q.jar = p.jar /\ q.hash = h
    BY <1>2, <2>3, <2>5 DEF RequestType
  <2>. HIDE DEF q
  <2>7. Well(r, q) /\ q.st # "idle"
    BY <1>1, <1>2, <2>2, <2>3, <2>5, <2>6 DEF Well
  <2>. QED
    BY <1>1, <1>3, <1>4, <2>1, <2>4, <2>7, GoKeeps
<1>6. CASE Matching(p) = {} /\ AskAgain(p)
  <2>. DEFINE q == [p EXCEPT !.st = "query", !.whole = TRUE, !.page = <<>>]
  <2>1. /\ request' = [request EXCEPT ![r].st = "query", ![r].whole = TRUE, ![r].page = <<>>]
        /\ UNCHANGED cookies
    BY <1>6 DEF Store
  <2>2. request' = [request EXCEPT ![r] = q]
    BY <1>1, <2>1, UnderWay
  <2>3. /\ q \in RequestType /\ q.st = "query" /\ q.kind = p.kind /\ q.asked = p.asked
        /\ q.jar = p.jar /\ q.door = p.door
    BY <1>2 DEF RequestType
  <2>. HIDE DEF q
  <2>4. Well(r, q) /\ q.st # "idle"
    BY <1>1, <1>2, <2>3 DEF Well
  <2>. QED
    BY <1>1, <1>3, <1>4, <2>1, <2>2, <2>4, GoKeeps
<1>7. CASE Matching(p) = {} /\ ~AskAgain(p)
  <2>1. End(r)
    BY <1>7 DEF Store
  <2>. QED
    BY <1>1, <1>3, <1>4, <2>1, EndKeeps
<1>. QED
  BY <1>5, <1>6, <1>7

\* A jar is solved once, and then for the vehicle that was asked for.
LEMMA SubmitKeeps ==
  ASSUME IInv, NEW r \in Request, NEW ok \in BOOLEAN, Submit(r, ok)
  PROVE  IInv' /\ Consumed
<1>. DEFINE p == request[r]
            key == [session |-> p.jar, asked |-> p.asked, of |-> p.hash.of, plate |-> p.hash.plate]
<1>1. /\ p.st = "submit" /\ UNCHANGED <<issued, plateOf, moved, table>>
      /\ ok => verified[p.jar] = None
      /\ verified' = IF ok THEN [verified EXCEPT ![p.jar] = p.hash.of] ELSE verified
  BY DEF Submit
<1>2. /\ p \in RequestType /\ Well(r, p) /\ p.hash \in Hash /\ p.asked \in Asked
      /\ p.asked \in {p.hash.of, p.hash.plate} /\ p.jar \in Captcha \cup Request
      /\ p.kind \in {"create", "auto"} /\ (p.kind = "auto" => p.jar = r)
      /\ (p.kind = "create" => p.jar \in Captcha)
  BY <1>1, UnderWay DEF Well
<1>3. p.hash.of \in Vehicle /\ p.hash.plate \in Plate
  BY <1>2 DEF Hash
<1>4. World'
  BY <1>1, <1>2, <1>3 DEF IInv, World
<1>5. \A k \in Captcha : verified[k] # None => verified'[k] = verified[k]
  BY <1>1, <1>2 DEF IInv, World
<1>6. CASE ~ok
  <2>1. End(r) /\ UNCHANGED keys
    BY <1>6 DEF Submit, Accepted
  <2>2. Keys'
    BY <1>5, <2>1, KeysStay
  <2>. QED
    BY <1>1, <1>4, <2>1, <2>2, EndKeeps
<1>7. CASE ok /\ p.kind = "auto"
  <2>1. request' = [request EXCEPT ![r] = Afterwards(Sent(p))] /\ UNCHANGED <<cookies, keys>>
    BY <1>7 DEF Submit, Accepted
  <2>2. Keys'
    BY <1>5, <2>1, KeysStay
  <2>. DEFINE q == Afterwards(Sent(p))
  <2>0. Sent(p) \in RequestType /\ \A f \in {"st", "kind", "asked", "jar"} : Sent(p)[f] = p[f]
    BY <1>2 DEF RequestType, Hash, Sent
  <2>3. /\ q \in RequestType /\ q.st = "lookup" /\ q.kind = p.kind /\ q.asked = p.asked /\ q.jar = p.jar
    BY <1>2, <2>0 DEF RequestType, Afterwards
  <2>. HIDE DEF q
  <2>4. Well(r, q) /\ q.st # "idle"
    BY <1>2, <1>7, <2>3 DEF Well
  <2>. QED
    BY <1>1, <1>4, <2>1, <2>2, <2>4, GoKeeps DEF q
<1>8. CASE ok /\ p.kind # "auto"
  <2>1. End(r) /\ keys' = keys \cup {key}
    BY <1>8 DEF Submit, Accepted
  <2>2. key \in KeyType /\ key.session = p.jar /\ key.of = p.hash.of /\ key.asked \in {key.of, key.plate}
    BY <1>2, <1>3, <1>8 DEF KeyType
  <2>3. verified'[key.session] = key.of
    BY <1>1, <1>2, <1>8, <2>2 DEF IInv, World
  <2>. HIDE DEF key
  <2>4. \A k \in keys : /\ k.session \in Captcha /\ k.of \in Vehicle
                        /\ verified[k.session] = k.of /\ k.asked \in {k.of, k.plate}
    BY DEF IInv, Keys, KeyType, KeysVerified
  <2>5. \A k \in keys : verified'[k.session] = k.of
    BY <1>5, <2>4, NamesApart
  <2>6. Keys'
    BY <2>1, <2>2, <2>3, <2>4, <2>5 DEF IInv, Keys, KeysVerified
  <2>. QED
    BY <1>1, <1>4, <2>1, <2>6, EndKeeps
<1>. QED
  BY <1>6, <1>7, <1>8

\* A step that touches no request keeps the invariant if captchas and table stay well.
LEMMA OthersKeep ==
  ASSUME IInv, UNCHANGED <<request, verified, keys>>, Jars', World'
  PROVE  IInv' /\ Consumed
<1>1. Requests' /\ Keys'
  BY DEF IInv, Requests, Keys, KeysVerified
<1>2. \A r \in Request : request[r].st # "idle" => request'[r].st # "idle"
  OBVIOUS
<1>3. Consumed
  BY <1>2, ConsumedIntro DEF IInv
<1>. QED
  BY <1>1, <1>3 DEF IInv

\* The captchas that are left when the oldest goes.
LEMMA OldestGoes ==
  ASSUME Jars, cookies # <<>>
  PROVE  /\ Tail(cookies) \in Seq(issued) /\ IsInjective(Tail(cookies))
         /\ Len(Tail(cookies)) = Len(cookies) - 1
         /\ Range(Tail(cookies)) \subseteq Range(cookies)
BY TailQueue, HeadTailProperties DEF Jars

\* A new captcha finds room.
LEMMA FetchKeeps ==
  ASSUME IInv, NEW k \in Captcha, CaptchaFetched(k)
  PROVE  IInv' /\ Consumed
<1>. DEFINE kept == IF Len(cookies) = MaxCookies THEN Tail(cookies) ELSE cookies
<1>1. /\ k \notin issued /\ issued' = issued \cup {k} /\ cookies' = Append(kept, k)
      /\ UNCHANGED <<request, keys, portal, table>>
  BY DEF CaptchaFetched
<1>2. Jars /\ Len(cookies) \in Nat /\ Len(cookies) <= MaxCookies
  BY LenProperties DEF IInv, Jars
<1>3. /\ kept \in Seq(issued) /\ IsInjective(kept) /\ Len(kept) < MaxCookies
      /\ Range(kept) \subseteq issued
  <2>1. Range(cookies) \subseteq issued
    BY <1>2, ElementOfSeq, LenProperties DEF Jars, Range
  <2>2. CASE Len(cookies) = MaxCookies
    <3>1. cookies # <<>> /\ kept = Tail(cookies)
      BY <2>2, BoundsAssumption
    <3>2. Len(Tail(cookies)) = Len(cookies) - 1
      BY <1>2, <3>1, OldestGoes
    <3>3. Len(Tail(cookies)) < MaxCookies
      BY <1>2, <2>2, <3>2
    <3>. QED
      BY <1>2, <2>1, <3>1, <3>3, OldestGoes
  <2>3. CASE Len(cookies) # MaxCookies
    BY <1>2, <2>1, <2>3, BoundsAssumption DEF Jars
  <2>. QED
    BY <2>2, <2>3
<1>. HIDE DEF kept
<1>4. kept \in Seq(issued') /\ k \in issued' /\ k \notin Range(kept)
  BY <1>1, <1>3, SeqMonotonic
<1>5. cookies' \in Seq(issued') /\ IsInjective(cookies')
  BY <1>1, <1>3, <1>4, AppendQueue
<1>6. Len(cookies') <= MaxCookies
  <2>1. Len(cookies') = Len(kept) + 1
    BY <1>1, <1>3, AppendProperties
  <2>2. Len(kept) \in Nat
    BY <1>3, LenProperties
  <2>. QED
    BY <1>3, <2>1, <2>2, BoundsAssumption
<1>7. Jars'
  BY <1>1, <1>2, <1>5, <1>6 DEF Jars
<1>. QED
  BY <1>1, <1>7, OthersKeep, WorldStays DEF portal

\* Every step keeps the invariant, and takes the captcha of a request that ends.
LEMMA Step == IInv /\ [Next]_vars => IInv' /\ [Consumed]_vars
<1>. SUFFICES ASSUME IInv, [Next]_vars PROVE IInv' /\ [Consumed]_vars
  OBVIOUS
<1>1. CASE CookiesExpire
  <2>1. cookies # <<>> /\ cookies' = Tail(cookies) /\ UNCHANGED <<issued, request, keys, portal, table>>
    BY <1>1 DEF CookiesExpire
  <2>2. /\ cookies' \in Seq(issued) /\ IsInjective(cookies') /\ Len(cookies') = Len(cookies) - 1
        /\ Len(cookies) \in Nat /\ Len(cookies) <= MaxCookies
    BY <2>1, OldestGoes, LenProperties DEF IInv, Jars
  <2>3. Len(cookies') <= MaxCookies
    BY <2>2, BoundsAssumption
  <2>4. Jars'
    BY <2>1, <2>2, <2>3 DEF IInv, Jars
  <2>. QED
    BY <2>1, <2>4, OthersKeep, WorldStays DEF portal
<1>2. ASSUME NEW r \in Request, Fail(r) \/ GetDetail(r) PROVE IInv' /\ Consumed
  <2>1. request[r].st # "idle" /\ End(r) /\ UNCHANGED <<issued, keys, portal, table>>
    BY <1>2 DEF Fail, GetDetail
  <2>. QED
    BY <2>1, EndKeeps, WorldStays, KeysStay DEF portal
<1>3. ASSUME NEW r \in Request, Advance(r) PROVE IInv' /\ Consumed
  BY <1>2, <1>3, SolveKeeps, LookupKeeps, QueryKeeps, StoreKeeps, SubmitKeeps DEF Advance
<1>4. ASSUME NEW r \in Request, NEW n \in Asked, AutoDetail(r, n) PROVE IInv' /\ Consumed
  BY <1>4, OpenKeeps DEF AutoDetail
<1>5. ASSUME NEW r \in Request, NEW n \in Asked, NEW k \in Captcha, Create(r, k, n)
      PROVE  IInv' /\ Consumed
  BY <1>5, OpenKeeps DEF Create
<1>6. ASSUME NEW r \in Request, NEW n \in Asked, NEW key \in keys, Detail(r, key, n)
      PROVE  IInv' /\ Consumed
  <2>1. key.session \in Captcha
    BY DEF IInv, Keys, KeyType
  <2>. QED
    BY <1>6, <2>1, OpenKeeps DEF Detail
<1>7. ASSUME NEW page \in Page, Suggest(page) PROVE IInv' /\ Consumed
  <2>1. table' = Recorded(page) /\ UNCHANGED <<cookies, issued, request, keys, portal>>
    BY <1>7 DEF Suggest
  <2>2. World'
    BY <2>1, PageShape, RecordedType DEF IInv, World, portal
  <2>3. Jars'
    BY <2>1 DEF IInv, Jars
  <2>. QED
    BY <2>1, <2>2, <2>3, OthersKeep DEF portal
<1>8. ASSUME NEW v \in Vehicle, NEW w \in Vehicle, Move(v, w) PROVE IInv' /\ Consumed
  <2>1. /\ plateOf' = [plateOf EXCEPT ![v] = plateOf[w], ![w] = plateOf[v]]
        /\ UNCHANGED <<cookies, issued, request, keys, verified, table>>
    BY <1>8 DEF Move
  <2>2. World' /\ Jars'
    BY <2>1 DEF IInv, World, Jars
  <2>. QED
    BY <2>1, <2>2, OthersKeep
<1>9. CASE UNCHANGED vars
  <2>1. World' /\ Jars'
    BY <1>9 DEF IInv, World, Jars, vars, portal
  <2>. QED
    BY <1>9, <2>1, OthersKeep DEF vars, portal
<1>. QED
  BY <1>1, <1>3, <1>4, <1>5, <1>6, <1>7, <1>8, <1>9, FetchKeeps DEF Next

-----------------------------------------------------------------------------
(* The theorems *)

LEMMA InitIInv == Init => IInv
<1>. SUFFICES ASSUME Init PROVE IInv
  OBVIOUS
<1>1. Jars
  <2>1. <<>> \in Seq({}) /\ Len(<<>>) = 0 /\ IsInjective(<<>>)
    BY EmptySeq DEF IsInjective
  <2>. QED
    BY <2>1, BoundsAssumption DEF Init, Jars
<1>2. World
  <2>1. plateOf \in [Vehicle -> Plate]
    BY PlatesAssumption DEF Init
  <2>. QED
    BY <2>1 DEF Init, World
<1>3. Requests
  BY IdleWell DEF Init, Requests
<1>4. Keys
  BY DEF Init, Keys, KeysVerified
<1>. QED
  BY <1>1, <1>2, <1>3, <1>4 DEF IInv

\* The invariant that the properties below follow from is inductive.
THEOREM Inductive == Spec => []IInv
BY InitIInv, Step, PTL DEF Spec

LEMMA Typed == IInv => TypeOK
<1>. SUFFICES ASSUME IInv PROVE TypeOK
  OBVIOUS
<1>1. \A r \in Request : request[r] \in RequestType
  BY DEF IInv, Requests
<1>. QED
  BY <1>1 DEF IInv, Jars, World, RequestType, TypeOK

\* Every variable of the ARAC sessions stays in its domain.
THEOREM TypeCorrect == Spec => []TypeOK
BY Typed, Inductive, PTL

\* Hashes are single-use (arac_client.py:354): whatever a handler submits or asks the
\* detail with has not been sent before, also after the captcha of auto-detail.
THEOREM HashesAreFresh == Spec => []HashSentOnce
<1>1. IInv => HashSentOnce
  BY Typed DEF IInv, Requests, Well, HashSentOnce
<1>. QED
  BY <1>1, Inductive, PTL

\* A handler goes on with the vehicle that was asked for, whatever else the portal
\* lists and whichever plates the table has kept (arac_client.py: get_vehicle_hash).
THEOREM RightVehicle == Spec => []AskedVehicle
<1>1. IInv => AskedVehicle
  BY DEF IInv, Requests, Well, AskedVehicle
<1>. QED
  BY <1>1, Inductive, PTL

\* A session key stays good for the vehicle its captcha was solved for.
THEOREM SessionKeysGood == Spec => []KeysVerified
<1>1. IInv => KeysVerified
  BY DEF IInv, Keys
<1>. QED
  BY <1>1, Inductive, PTL

\* A captcha whose request has ended is gone, however it ended (arac.py: the finally
\* of create_arac_session).
THEOREM CaptchasAreConsumed == Spec => CaptchaConsumed
<1>1. [Consumed]_vars =>
        [\A r \in Request : request[r].kind = "create" /\ request'[r].st = "idle"
           => request[r].jar \notin Range(cookies')]_vars
  BY DEF Consumed
<1>. QED
  BY <1>1, Inductive, Step, PTL DEF Spec, CaptchaConsumed

=============================================================================
