----------------------------- MODULE AracSession ------------------------------
(***************************************************************************)
(* Captcha sessions with the ARAC portal: app/routers/arac.py,             *)
(* app/services/arac_client.py and what they keep in the vehicle table.    *)
(*                                                                         *)
(* A request is a coroutine with a cookie jar of its own.  "create" solves *)
(* a captcha fetched earlier and hands the jar out as a session key,       *)
(* "detail" comes back with such a key, "auto" does everything alone.  All *)
(* of them look up the hash of a vehicle, by door number or by plate, and  *)
(* the portal accepts a hash once.  A door number stands for its vehicle.  *)
(***************************************************************************)
EXTENDS Integers, Sequences, SequencesExt

CONSTANTS
  Request,     \* requests at the same time
  Vehicle,     \* vehicles, and the door numbers written on them
  Plate,       \* license plates
  Asked,       \* the names that requests ask for
  Captcha,     \* captcha ids, each with the cookies of its portal session
  MaxCookies,  \* size of _captcha_cookies (1000)
  MaxMoved,    \* bound: plates that move to another vehicle
  None         \* no hash, no plate, no session

ASSUME NamesAssumption == Vehicle \cap Plate = {} /\ Captcha \cap Request = {}
                          /\ None \notin Vehicle \cup Plate \cup Captcha \cup Request
ASSUME AskedAssumption == Asked \subseteq Vehicle \cup Plate
ASSUME PlatesAssumption == \E p \in [Vehicle -> Plate] : IsInjective(p)
ASSUME BoundsAssumption == MaxCookies \in Nat \ {0} /\ MaxMoved \in Nat

VARIABLES
  cookies,   \* _captcha_cookies, oldest first
  issued,    \* captchas fetched so far
  request,   \* the requests
  verified,  \* the portal: vehicle each cookie jar has solved its captcha for
  keys,      \* session keys handed out, with the name they were asked for
  plateOf,   \* the portal: plate of each vehicle
  moved,     \* plates moved so far
  table      \* vehicle_cache: plate of each door number seen

portal == <<verified, plateOf, moved>>
vars == <<cookies, issued, request, keys, portal, table>>

\* a hash, whose it is, the plate it was listed with, whether it has been sent
Hash == [of : Vehicle, plate : Plate, sent : BOOLEAN]
Page == {[v \in S |-> plateOf[v]] : S \in SUBSET Vehicle}

Idle == [kind |-> None, st |-> "idle", asked |-> None, jar |-> None,
         door |-> None, whole |-> FALSE, page |-> <<>>, hash |-> None]

Go(r, st) == request' = [request EXCEPT ![r].st = st]

\* Faulty variant of End: the captcha is dropped only when the session was created.
EndKeeping(r) ==
  /\ request' = [request EXCEPT ![r] = Idle]
  /\ cookies' = IF request[r].st = "submit"
                THEN RemoveFirst(cookies, request[r].jar) ELSE cookies

\* the handler ends; create_arac_session pops its captcha in any case
End(r) ==
  /\ request' = [request EXCEPT ![r] = Idle]
  /\ cookies' = IF request[r].kind = "create"
                THEN RemoveFirst(cookies, request[r].jar) ELSE cookies

-----------------------------------------------------------------------------
(* Captchas *)

\* get_arac_captcha: its cookies stay for create_arac_session; the oldest make room
CaptchaFetched(k) ==
  /\ k \notin issued
  /\ issued' = issued \cup {k}
  /\ cookies' = Append(IF Len(cookies) = MaxCookies THEN Tail(cookies) ELSE cookies, k)
  /\ UNCHANGED <<request, keys, portal, table>>

\* ten minutes have passed
CookiesExpire ==
  /\ cookies # <<>>
  /\ cookies' = Tail(cookies)
  /\ UNCHANGED <<issued, request, keys, portal, table>>

-----------------------------------------------------------------------------
(* Handlers: create_arac_session, get_arac_bus_detail, get_arac_bus_auto_detail *)

Open(r, kind, st, name, jar) ==
  /\ request[r].st = "idle"
  /\ request' = [request EXCEPT ![r] =
                   [Idle EXCEPT !.kind = kind, !.st = st, !.asked = name, !.jar = jar]]
  /\ UNCHANGED <<cookies, issued, keys, portal, table>>

Create(r, k, name) == k \in Range(cookies) /\ Open(r, "create", "lookup", name, k)

Detail(r, key, name) == key \in keys /\ Open(r, "detail", "lookup", name, key.session)

\* one fetch per key: cache_get_or_fetch
AutoDetail(r, name) ==
  /\ \A q \in Request : request[q].kind = "auto" => request[q].asked # name
  /\ Open(r, "auto", "captcha", name, None)

\* auto: a captcha of its own, read by OCR in a thread
Solve(r) ==
  /\ request[r].st = "captcha"
  /\ request' = [request EXCEPT ![r].st = "lookup", ![r].jar = r]
  /\ verified' = [verified EXCEPT ![r] = None]
  /\ UNCHANGED <<cookies, issued, keys, plateOf, moved, table>>

\* any error ends the handler
Fail(r) ==
  /\ request[r].st # "idle"
  /\ End(r)
  /\ UNCHANGED <<issued, keys, portal, table>>

-----------------------------------------------------------------------------
(* get_vehicle_hash *)

\* the thread asks the table for a vehicle; for a door number it can only find the
\* same door
Lookup(r) ==
  LET rows == {v \in Vehicle : table[v] = request[r].asked}
  IN  /\ request[r].st = "lookup"
      /\ \E d \in IF rows = {} THEN {None} ELSE rows :
           request' = [request EXCEPT ![r].st = "query", ![r].door = d,
                                      ![r].whole = request[r].asked \in Plate]
      /\ UNCHANGED <<cookies, issued, keys, portal, table>>

\* the portal lists vehicles: any that share digits or letters with a door number,
\* those that bear a plate
Query(r, page) ==
  /\ request[r].st = "query"
  /\ request[r].asked \in Plate => \A v \in DOMAIN page : request[r].asked \in {v, page[v]}
  /\ request' = [request EXCEPT ![r].st = "store", ![r].page = page]
  /\ UNCHANGED <<cookies, issued, keys, portal, table>>

\* Faulty variant of Matching: the first vehicle listed will do.
MatchingAny(q) == DOMAIN q.page

\* door number first, also the one the table has for a plate; then plate
Matching(q) ==
  LET byDoor == DOMAIN q.page \cap {q.asked, q.door}
  IN  IF byDoor # {} THEN byDoor ELSE {v \in DOMAIN q.page : q.page[v] = q.asked}

\* Faulty variant of AskAgain: whatever was listed is taken as a reason to ask again.
AskAgainAlways(q) == DOMAIN q.page # {}

\* vehicles were listed for the digits, none of them the one that was asked for
AskAgain(q) == ~q.whole /\ DOMAIN q.page # {}

\* upsert_vehicles_batch
Recorded(page) == [v \in Vehicle |-> IF v \in DOMAIN page THEN page[v] ELSE table[v]]

\* what needs the hash: the captcha, until it is solved; then the detail
Needs(q) == IF q.kind = "create" \/ (q.kind = "auto" /\ verified[q.jar] = None)
            THEN "submit" ELSE "detail"

\* the thread has stored the list; match, ask with the whole name, or 404
Store(r) ==
  LET q == request[r]
      found == Matching(q)
  IN  /\ q.st = "store"
      /\ table' = Recorded(q.page)
      /\ IF found # {}
         THEN /\ \E v \in found : request' =
                   [request EXCEPT ![r].st = Needs(q), ![r].page = <<>>, ![r].whole = FALSE, ![r].door = None,
                      ![r].hash = [of |-> v, plate |-> q.page[v], sent |-> FALSE]]
              /\ UNCHANGED cookies
         ELSE IF AskAgain(q)
         THEN /\ request' = [request EXCEPT ![r].st = "query", ![r].whole = TRUE, ![r].page = <<>>]
              /\ UNCHANGED cookies
         ELSE End(r)
      /\ UNCHANGED <<issued, keys, portal>>

-----------------------------------------------------------------------------
(* What the hash is sent with *)

\* a hash that has been posted is spent, whatever the portal answers
Sent(q) == [q EXCEPT !.hash.sent = TRUE]

\* Faulty variant of Afterwards: the hash of the captcha is used for the detail.
AfterwardsSame(q) == [q EXCEPT !.st = "detail"]

\* auto-detail goes on with a fresh hash
Afterwards(q) == [q EXCEPT !.st = "lookup", !.hash = None]

\* Faulty variant of Accepted: a refusal of the portal that is no error passes.
AcceptedAlways(ok) == TRUE

\* isSuccess of /Home/Control
Accepted(ok) == ok

\* the portal rejects a wrong answer, a captcha or a hash it has seen
Submit(r, ok) ==
  LET q == request[r]
  IN  /\ q.st = "submit"
      /\ ok => ~q.hash.sent /\ verified[q.jar] = None
      /\ verified' = IF ok THEN [verified EXCEPT ![q.jar] = q.hash.of] ELSE verified
      /\ IF ~Accepted(ok) THEN End(r) /\ UNCHANGED keys
         ELSE IF q.kind = "auto"
         THEN request' = [request EXCEPT ![r] = Afterwards(Sent(q))] /\ UNCHANGED <<cookies, keys>>
         ELSE End(r) /\ keys' = keys \cup {[session |-> q.jar, asked |-> q.asked,
                                              of |-> q.hash.of, plate |-> q.hash.plate]}
      /\ UNCHANGED <<issued, plateOf, moved, table>>

\* /Home/GetDetail answers for the vehicle whose captcha the session has solved;
\* profile and missions are returned
GetDetail(r) ==
  /\ request[r].st = "detail"
  /\ ~request[r].hash.sent /\ verified[request[r].jar] = request[r].hash.of
  /\ End(r)
  /\ UNCHANGED <<issued, keys, portal, table>>

-----------------------------------------------------------------------------
(* The rest of the router, and the world *)

\* suggest_arac_bus: the list is stored by an executor job, at its own time
Suggest(page) ==
  /\ table' = Recorded(page)
  /\ UNCHANGED <<cookies, issued, request, keys, portal>>

\* two vehicles swap their plates
Move(v, w) ==
  /\ moved < MaxMoved /\ v # w
  /\ moved' = moved + 1
  /\ plateOf' = [plateOf EXCEPT ![v] = plateOf[w], ![w] = plateOf[v]]
  /\ UNCHANGED <<cookies, issued, request, keys, verified, table>>

Init ==
  /\ cookies = <<>>
  /\ issued = {}
  /\ request = [r \in Request |-> Idle]
  /\ verified = [k \in Captcha \cup Request |-> None]
  /\ keys = {}
  /\ plateOf = CHOOSE p \in [Vehicle -> Plate] : IsInjective(p)
  /\ moved = 0
  /\ table = [v \in Vehicle |-> None]

Advance(r) ==
  \/ Solve(r) \/ Lookup(r) \/ Store(r) \/ GetDetail(r) \/ Fail(r)
  \/ \E page \in Page : Query(r, page)
  \/ \E ok \in BOOLEAN : Submit(r, ok)

Next ==
  \/ \E k \in Captcha : CaptchaFetched(k)
  \/ CookiesExpire
  \/ \E r \in Request :
       \/ Advance(r)
       \/ \E n \in Asked : AutoDetail(r, n) \/ (\E k \in Captcha : Create(r, k, n))
                                     \/ (\E key \in keys : Detail(r, key, n))
  \/ \E page \in Page : Suggest(page)
  \/ \E v, w \in Vehicle : Move(v, w)

Spec == Init /\ [][Next]_vars

\* every upstream call and every thread ends
FairSpec == Spec /\ \A r \in Request : WF_vars(Advance(r))

-----------------------------------------------------------------------------
(* Properties *)

\* Every variable stays in its domain.
TypeOK ==
  /\ cookies \in Seq(issued) /\ issued \subseteq Captcha /\ Len(cookies) <= MaxCookies
  /\ \A r \in Request :
       /\ request[r].kind \in {None, "create", "detail", "auto"}
       /\ request[r].asked \in Asked \cup {None}
       /\ request[r].jar \in Captcha \cup Request \cup {None}
       /\ request[r].hash \in Hash \cup {None}
  /\ verified \in [Captcha \cup Request -> Vehicle \cup {None}]
  /\ plateOf \in [Vehicle -> Plate]
  /\ table \in [Vehicle -> Plate \cup {None}]

\* "hashes are single-use" (arac_client.py:354), "fresh hashes are generated per query"
\* (CHANGELOG.md:198): no hash is sent to the portal twice.
HashSentOnce ==
  TypeOK /\ \A r \in Request :
    request[r].st \in {"submit", "detail"} => ~request[r].hash.sent

\* A request goes on with the hash of the vehicle that was asked for, also when other
\* vehicles share its digits and the table has its plate for another vehicle.
AskedVehicle ==
  \A r \in Request : request[r].st \in {"submit", "detail"} =>
    request[r].asked \in {request[r].hash.of, request[r].hash.plate}

\* A session key is handed out only when the portal has accepted the captcha for the
\* vehicle that was asked for, and stays good for it.
KeysVerified ==
  \A k \in keys : /\ verified[k.session] = k.of
                  /\ k.asked \in {k.of, k.plate}

\* A captcha whose request has ended is not offered to another one, also when it ended
\* before the captcha was submitted.
CaptchaConsumed ==
  [][\A r \in Request : request[r].kind = "create" /\ request'[r].st = "idle"
       => request[r].jar \notin Range(cookies')]_vars

\* The second search does not lead to a third one: every request ends.
LookupsEnd == \A r \in Request : request[r].st # "idle" ~> request[r].st = "idle"

=============================================================================
