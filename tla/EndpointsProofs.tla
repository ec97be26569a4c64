--------------------------- MODULE EndpointsProofs ----------------------------
(***************************************************************************)
(* Proofs about Endpoints, for any endpoints asked for together and any    *)
(* ageing: type correctness, that an outage is not stored as an answer,    *)
(* and the safety half of FetchesEnd: who awaits a fetcher awaits one that *)
(* runs and that awaits nobody, and none runs for a parent that has gone   *)
(* on.                                                                     *)
(***************************************************************************)
EXTENDS Endpoints, TLAPS

\* the fetchers that others await
Leaf == {"routesAt", "notices", "routeStops", "meta", "name"}

\* the fetchers that await them
Parent == {"stopNotices", "routeNotices", "buses", "arrivals", "via"}

\* the steps at which a fetcher whose answer is strict may not have heard from any source
Silent == {"html", "ntc", "soap", "outward", "inwardOnly", "site", "byCode", "byName",
           "table", "common", "raise"}

\* who awaits a fetcher awaits a leaf that runs
Waiting ==
  \A p \in Key : fetch[p] # None /\ fetch[p].waits =>
    /\ p \in Parent /\ fetch[p].step \in Leaf
    /\ fetch[fetch[p].step] # None

\* a fetcher that was started by another is awaited by it
Led ==
  \A c \in Key : fetch[c] # None /\ fetch[c].leader \in Key =>
    LET p == fetch[c].leader
    IN  fetch[p] # None /\ fetch[p].waits /\ fetch[p].step = c

\* what a strict fetcher stores comes from a source that has answered
Sound(k, f) == k \in Strict => f.step # "negative" /\ (f.heard \/ f.step \in Silent)

Heard ==
  /\ \A k \in Strict : cache[k] # None => cache[k].heard
  /\ \A k \in Key : fetch[k] # None => Sound(k, fetch[k])

IInv == TypeOK /\ Waiting /\ Led /\ Heard

-----------------------------------------------------------------------------
(* The tables of moves *)

LEMMA Keys ==
  Key = {"routesAt", "notices", "stopNotices", "routeStops", "routeNotices", "meta", "schedule",
         "buses", "name", "arrivals", "via", "official", "routeSearch", "stopSearch",
         "stopDetail", "single"}
BY DEF Key, Moves

\* Who they are, and how their names differ.
LEMMA Names ==
  /\ Leaf \subseteq Key /\ Parent \subseteq Key \ Leaf /\ Strict \subseteq Key
  /\ Ends \cap Key = {} /\ Silent \cap Key = {}
  /\ {"client", "background"} \cap Key = {}
  /\ Silent \cap {"done", "empty", "skip", "negative"} = {}
BY Keys DEF Leaf, Parent, Strict, Ends, Silent

\* The table of each fetcher.
LEMMA Tables ==
  /\ Moves["routesAt"] = RoutesAt /\ Moves["notices"] = Notices
  /\ Moves["stopNotices"] = StopNotices /\ Moves["routeStops"] = RouteStops
  /\ Moves["routeNotices"] = RouteNotices /\ Moves["meta"] = Metadata
  /\ Moves["schedule"] = Schedule /\ Moves["buses"] = Buses
  /\ Moves["name"] = RouteName /\ Moves["arrivals"] = Arrivals("html", "done")
  /\ Moves["via"] = Via /\ Moves["official"] = Official
  /\ Moves["routeSearch"] = RouteSearch /\ Moves["stopSearch"] = StopSearch
  /\ Moves["stopDetail"] = StopDetail /\ Moves["single"] = Single
BY DEF Moves

\* Every move leads from its own step.
LEMMA MoveShape ==
  ASSUME NEW s, NEW O, NEW x, NEW g
  PROVE  /\ \A m \in Move(s, O, x, g) : m.step = s /\ m.out \in O /\ m.next = x /\ m.parts = g
         /\ \A o \in O : \E m \in Move(s, O, x, g) : m.step = s /\ m.out = o
<1>1. ASSUME NEW o \in O PROVE [step |-> s, out |-> o, next |-> x, parts |-> g] \in Move(s, O, x, g)
  BY DEF Move
<1>2. \A m \in Move(s, O, x, g) : m.step = s /\ m.out \in O /\ m.next = x /\ m.parts = g
  BY DEF Move
<1>3. ASSUME NEW o \in O PROVE \E m \in Move(s, O, x, g) : m.step = s /\ m.out = o
  BY <1>1
<1>. QED
  BY <1>2, <1>3

\* A fetcher starts at a step of its own table.
LEMMA FirstSteps == \A k \in Key : First[k] \in Steps[k]
<1>. DEFINE Begins(T, s) == \E m \in T : m.step = s
<1>1. Begins(RoutesAt, "html")
  BY MoveShape DEF Lost, RoutesAt
<1>2. Begins(Notices, "soap")
  BY MoveShape DEF Lost, Notices
<1>3. Begins(StopNotices, "routesAt")
  BY MoveShape DEF Lost, StopNotices
<1>4. Begins(RouteStops, "ntc")
  BY MoveShape DEF Lost, RouteStops
<1>5. Begins(RouteNotices, "notices")
  BY MoveShape DEF Lost, RouteNotices
<1>6. Begins(Metadata, "outward")
  BY MoveShape DEF Lost, Metadata, BothDirections
<1>7. Begins(Schedule, "ntc")
  BY MoveShape DEF Lost, Schedule
<1>8. Begins(Buses, "meta")
  BY MoveShape DEF Lost, Buses, MergedBuses
<1>9. Begins(RouteName, "byCode")
  BY MoveShape DEF Lost, RouteName, MobiettSearch
<1>10. Begins(Arrivals("html", "done"), "ntc")
  BY MoveShape DEF Lost, Arrivals
<1>11. Begins(Via, "ntc")
  BY MoveShape DEF Lost, Via, Arrivals, ViaPage
<1>12. Begins(Official, "site")
  BY MoveShape DEF Lost, Official
<1>13. Begins(RouteSearch, "byCode")
  BY MoveShape DEF Lost, RouteSearch, MobiettSearch
<1>14. Begins(StopSearch, "byName")
  BY MoveShape DEF Lost, StopSearch, MobiettSearch
<1>15. Begins(StopDetail, "soap")
  BY MoveShape DEF Lost, StopDetail
<1>16. Begins(Single, "html")
  BY MoveShape DEF Lost, Single
<1>. QED
  BY <1>1, <1>2, <1>3, <1>4, <1>5, <1>6, <1>7, <1>8, <1>9, <1>10, <1>11, <1>12, <1>13, <1>14, <1>15, <1>16, Keys, Tables DEF First, Steps

\* Only leaves are awaited and leaves await nobody.
LEMMA Nesting ==
  \A k \in Key : \A m \in Moves[k] : m.step \in Key => k \in Parent /\ m.step \in Leaf
<1>. DEFINE Plain(T) == \A m \in T : m.step \notin Key
            Awaits(T) == \A m \in T : m.step \in Key => m.step \in Leaf
<1>1. Plain(RoutesAt)
  BY Keys DEF Leaf, Move, RoutesAt
<1>2. Plain(Notices)
  BY Keys DEF Leaf, Move, Notices
<1>3. Awaits(StopNotices)
  BY Keys DEF Leaf, Move, StopNotices
<1>4. Plain(RouteStops)
  BY Keys DEF Leaf, Move, RouteStops
<1>5. Awaits(RouteNotices)
  BY Keys DEF Leaf, Move, RouteNotices
<1>6. Plain(Metadata)
  BY Keys DEF Leaf, Move, Metadata, BothDirections
<1>7. Plain(Schedule)
  BY Keys DEF Leaf, Move, Schedule
<1>8. Awaits(Buses)
  BY Keys DEF Leaf, Move, Buses, MergedBuses
<1>9. Plain(RouteName)
  BY Keys DEF Leaf, Move, RouteName, MobiettSearch
<1>10. Awaits(Arrivals("html", "done"))
  BY Keys DEF Leaf, Move, Arrivals
<1>11. Awaits(Via)
  BY Keys DEF Leaf, Move, Via, Arrivals, ViaPage
<1>12. Plain(Official)
  BY Keys DEF Leaf, Move, Official
<1>13. Plain(RouteSearch)
  BY Keys DEF Leaf, Move, RouteSearch, MobiettSearch
<1>14. Plain(StopSearch)
  BY Keys DEF Leaf, Move, StopSearch, MobiettSearch
<1>15. Plain(StopDetail)
  BY Keys DEF Leaf, Move, StopDetail
<1>16. Plain(Single)
  BY Keys DEF Leaf, Move, Single
<1>. QED
  BY <1>1, <1>2, <1>3, <1>4, <1>5, <1>6, <1>7, <1>8, <1>9, <1>10, <1>11, <1>12, <1>13, <1>14, <1>15, <1>16, Keys, Tables DEF Parent


\* A strict fetcher starts silent, stays so while its sources fail, and never goes on to
\* a negative answer.
LEMMA Strictness ==
  \A k \in Strict :
    /\ First[k] \in Silent
    /\ \A m \in Moves[k] :
         m.next # "negative" /\ (m.step \in Silent /\ m.out = "fail" => m.next \in Silent)
<1>. DEFINE Quiet(T) ==
              \A m \in T : m.next # "negative"
                           /\ (m.step \in Silent /\ m.out = "fail" => m.next \in Silent)
<1>1. Quiet(RoutesAt)
  BY DEF Silent, Move, Lost, RoutesAt
<1>2. Quiet(RouteStops)
  BY DEF Silent, Move, Lost, RouteStops
<1>3. Quiet(Metadata)
  BY DEF Silent, Move, Lost, Metadata, BothDirections
<1>4. Quiet(Schedule)
  BY DEF Silent, Move, Lost, Schedule
<1>5. Quiet(RouteName)
  BY DEF Silent, Move, Lost, RouteName, MobiettSearch
<1>6. Quiet(Arrivals("html", "done"))
  BY DEF Silent, Move, Lost, Arrivals
<1>7. Quiet(Via)
  BY DEF Silent, Move, Lost, Via, Arrivals, ViaPage
<1>8. Quiet(RouteSearch)
  BY DEF Silent, Move, Lost, RouteSearch, MobiettSearch
<1>9. Quiet(StopSearch)
  BY DEF Silent, Move, Lost, StopSearch, MobiettSearch
<1>10. Quiet(StopDetail)
  BY DEF Silent, Move, Lost, StopDetail
<1>11. Quiet(Single)
  BY DEF Silent, Move, Lost, Single
<1>12. \A k \in Strict : First[k] \in Silent
  BY DEF Strict, First, Silent
<1>. QED
  BY <1>1, <1>2, <1>3, <1>4, <1>5, <1>6, <1>7, <1>8, <1>9, <1>10, <1>11, <1>12, Tables DEF Strict


\* A call that may end well or not leaves no outcome open.
Answered(T, s) == \A out \in {"ok", "none", "fail"} : \E n \in T : n.step = s /\ n.out = out

LEMMA BothAnswered ==
  ASSUME NEW T, NEW s, NEW x, NEW y, NEW g, NEW h,
         Move(s, {"ok"}, x, g) \cup Move(s, Lost, y, h) \subseteq T
  PROVE  Answered(T, s)
BY MoveShape DEF Answered, Lost

\* Who awaits a fetcher can go on with an answer, an empty answer and a failure.
LEMMA Answers ==
  \A k \in Key : \A m \in Moves[k] : m.step \in Leaf =>
    \A out \in {"ok", "none", "fail"} : \E n \in Moves[k] : n.step = m.step /\ n.out = out
<1>. DEFINE Only(T, S) == \A m \in T : m.step \in Leaf => m.step \in S
<1>2. Only(StopNotices, {"routesAt", "notices"})
      /\ Answered(StopNotices, "routesAt") /\ Answered(StopNotices, "notices")
  <2>1. /\ Move("routesAt", {"ok"}, "notices", {}) \cup Move("routesAt", Lost, "mobiett", {})
             \subseteq StopNotices
        /\ Move("notices", {"ok"}, "mobiett", {"notices"}) \cup Move("notices", Lost, "mobiett", {})
             \subseteq StopNotices
    BY DEF StopNotices
  <2>2. Only(StopNotices, {"routesAt", "notices"})
    BY DEF StopNotices, Move, Leaf
  <2>. QED
    BY BothAnswered, <2>1, <2>2
<1>3. Only(RouteNotices, {"notices", "routeStops"})
      /\ Answered(RouteNotices, "notices") /\ Answered(RouteNotices, "routeStops")
  <2>1. /\ Move("notices", {"ok"}, "routeStops", {"notices"})
             \cup Move("notices", Lost, "routeStops", {}) \subseteq RouteNotices
        /\ Move("routeStops", {"ok"}, "mobiett", {}) \cup Move("routeStops", Lost, "done", {})
             \subseteq RouteNotices
    BY DEF RouteNotices
  <2>2. Only(RouteNotices, {"notices", "routeStops"})
    BY DEF RouteNotices, Move, Leaf
  <2>. QED
    BY BothAnswered, <2>1, <2>2
<1>4. Only(Buses, {"meta"}) /\ Answered(Buses, "meta")
  <2>1. Move("meta", {"ok"}, "ybs", {}) \cup Move("meta", Lost, "json", {}) \subseteq Buses
    BY DEF Buses
  <2>2. Only(Buses, {"meta"})
    BY DEF Buses, MergedBuses, Move, Leaf
  <2>. QED
    BY BothAnswered, <2>1, <2>2
<1>5. ASSUME NEW page \in {"html", "common"}, NEW after \in {"done", "routesAt"}
      PROVE  Only(Arrivals(page, after), {"name"}) /\ Answered(Arrivals(page, after), "name")
  <2>1. Move("name", {"ok"}, "plates", {"names"}) \cup Move("name", Lost, "plates", {})
          \subseteq Arrivals(page, after)
    BY DEF Arrivals
  <2>2. Only(Arrivals(page, after), {"name"})
    BY DEF Arrivals, Move, Leaf
  <2>. QED
    BY BothAnswered, <2>1, <2>2
<1>6. Only(Via, {"name", "routesAt"}) /\ Answered(Via, "name") /\ Answered(Via, "routesAt")
  <2>1. Arrivals("common", "routesAt") \subseteq Via
    BY DEF Via
  <2>2. /\ Move("routesAt", {"ok"}, "done", {"filtered"}) \subseteq Via
        /\ Move("routesAt", {"none"}, "empty", {}) \subseteq Via
        /\ Move("routesAt", {"fail"}, "done", {}) \subseteq Via
    BY DEF Via
  <2>3. Answered(Via, "routesAt")
    <3>1. \E n \in Via : n.step = "routesAt" /\ n.out = "ok"
      BY <2>2, MoveShape
    <3>2. \E n \in Via : n.step = "routesAt" /\ n.out = "none"
      BY <2>2, MoveShape
    <3>3. \E n \in Via : n.step = "routesAt" /\ n.out = "fail"
      BY <2>2, MoveShape
    <3>. QED
      BY <3>1, <3>2, <3>3 DEF Answered
  <2>4. Answered(Via, "name")
    BY <2>1, <1>5 DEF Answered
  <2>5. Only(Via, {"name", "routesAt"})
    <3>1. Only(Arrivals("common", "routesAt"), {"name"})
      BY <1>5
    <3>2. Only(ViaPage, {})
      BY DEF ViaPage, Move, Leaf
    <3>. QED
      BY <3>1, <3>2, MoveShape DEF Via
  <2>. QED
    BY <2>3, <2>4, <2>5
<1>7. \A k \in Key \ Parent : \A m \in Moves[k] : m.step \notin Leaf
  BY Nesting, Names
<1>. QED
  BY <1>2, <1>3, <1>4, <1>5, <1>6, <1>7, Tables DEF Parent, Answered

-----------------------------------------------------------------------------
(* What a step does to one fetcher *)

\* f is fetcher p after an outcome of its step
Advanced(p, f, out, heard) ==
  \E m \in Moves[p] :
    /\ m.step = fetch[p].step /\ m.out = out
    /\ f = [fetch[p] EXCEPT !.step = m.next, !.got = @ \cup m.parts, !.waits = FALSE,
                            !.heard = @ \/ heard]

\* An outcome is taken by a move.
LEMMA TakenAdvances ==
  ASSUME NEW p, NEW out, NEW heard, NEW t \in Taken(p, out, heard)
  PROVE  Advanced(p, t.f, out, heard)
<1>1. PICK m \in Moves[p] :
        /\ m.step = fetch[p].step /\ m.out = out
        /\ t = [f |-> [fetch[p] EXCEPT !.step = m.next, !.got = @ \cup m.parts,
                                       !.waits = FALSE, !.heard = @ \/ heard]]
  BY DEF Taken
<1>. QED
  BY <1>1 DEF Advanced

\* A running fetcher is at one of its steps.
LEMMA Running ==
  ASSUME TypeOK, NEW p \in Key, fetch[p] # None
  PROVE  /\ fetch[p] \in Fetcher(p)
         /\ fetch[p].step \in Key => fetch[p].step \in Leaf /\ p \in Parent
<1>1. fetch[p] \in Fetcher(p)
  BY DEF TypeOK
<1>2. fetch[p].step \in Ends \cup Steps[p]
  BY <1>1 DEF Fetcher
<1>3. fetch[p].step \in Key => \E m \in Moves[p] : m.step = fetch[p].step
  BY <1>2, Names DEF Steps
<1>. QED
  BY <1>1, <1>3, Nesting

\* After an outcome a fetcher is one still, awaits nobody, and has not stopped being
\* sound unless a source is taken to have answered when it has not.
LEMMA AdvancedShape ==
  ASSUME IInv, NEW p \in Key, fetch[p] # None, NEW f, NEW out, NEW heard \in BOOLEAN,
         Advanced(p, f, out, heard),
         out = "fail" \/ heard \/ fetch[p].step \in Key
  PROVE  f \in Fetcher(p) /\ ~f.waits /\ f.leader = fetch[p].leader /\ Sound(p, f)
<1>1. PICK m \in Moves[p] :
        /\ m.step = fetch[p].step /\ m.out = out
        /\ f = [fetch[p] EXCEPT !.step = m.next, !.got = @ \cup m.parts, !.waits = FALSE,
                                !.heard = @ \/ heard]
  BY DEF Advanced
<1>2. fetch[p] \in Fetcher(p) /\ Sound(p, fetch[p])
  BY Running DEF IInv, Heard
<1>3. m.next \in Ends \cup Steps[p] /\ m.parts \in SUBSET UNION Parts
  BY ChainAssumption DEF Steps, Parts
<1>4. f \in Fetcher(p) /\ ~f.waits /\ f.leader = fetch[p].leader /\ f.step = m.next
      /\ f.heard = (fetch[p].heard \/ heard)
  BY <1>1, <1>2, <1>3 DEF Fetcher
<1>5. Sound(p, f)
  <2>. SUFFICES ASSUME p \in Strict
                PROVE  m.next # "negative" /\ (f.heard \/ m.next \in Silent)
    BY <1>4 DEF Sound
  <2>1. m.next # "negative" /\ (m.step \in Silent /\ m.out = "fail" => m.next \in Silent)
    BY Strictness
  <2>2. fetch[p].heard \/ fetch[p].step \in Silent
    BY <1>2 DEF Sound
  <2>. QED
    BY <1>1, <1>4, <2>1, <2>2, Names
<1>. QED
  BY <1>4, <1>5

\* A fetcher that starts.
LEMMA StartShape ==
  ASSUME IInv, NEW k \in Key, NEW leader \in Key \cup {"client", "background"}
  PROVE  LET f == Start(k, leader)
         IN  f \in Fetcher(k) /\ ~f.waits /\ f.leader = leader /\ Sound(k, f)
<1>1. First[k] \in Steps[k] /\ (k \in Strict => First[k] \in Silent)
  BY FirstSteps, Strictness
<1>2. cache[k] \in Stored \cup {None}
  BY DEF IInv, TypeOK
<1>. QED
  BY <1>1, <1>2, Names DEF Start, Fetcher, Sound

\* A fetcher that begins or ceases to wait.
LEMMA WaitShape ==
  ASSUME IInv, NEW p \in Key, fetch[p] # None, NEW w \in BOOLEAN
  PROVE  LET f == [fetch[p] EXCEPT !.waits = w]
         IN  f \in Fetcher(p) /\ f.waits = w /\ f.leader = fetch[p].leader /\ Sound(p, f)
             /\ f.step = fetch[p].step
<1>1. fetch[p] \in Fetcher(p) /\ Sound(p, fetch[p])
  BY Running DEF IInv, Heard
<1>. QED
  BY <1>1 DEF Fetcher, Sound

\* Awaits(p, k): p awaits the fetcher of k
Awaits(p, k) == fetch[p] # None /\ fetch[p].waits /\ fetch[p].step = k

\* When a fetcher has ended each fetcher that awaited it goes on with the outcome, and no
\* other is touched.
LEMMA DeliveredShape ==
  ASSUME IInv, NEW k \in Key, NEW out \in {"ok", "none", "fail"}, NEW heard
  PROVE  LET D == Delivered(k, out, heard)
         IN  /\ DOMAIN D = Key /\ D[k] = None
             /\ \A p \in Key \ {k} : IF Awaits(p, k) THEN Advanced(p, D[p], out, heard)
                                     ELSE D[p] = fetch[p]
<1>1. \A p \in Key \ {k} : ~Awaits(p, k) => Delivered(k, out, heard)[p] = fetch[p]
  BY DEF Delivered, Awaits, Nested
<1>2. ASSUME NEW p \in Key \ {k}, Awaits(p, k)
      PROVE  Advanced(p, Delivered(k, out, heard)[p], out, heard)
  <2>1. Delivered(k, out, heard)[p] = (CHOOSE t \in Taken(p, out, heard) : TRUE).f
    BY <1>2 DEF Delivered, Awaits, Nested
  <2>2. k \in Leaf /\ fetch[p].step \in {m.step : m \in Moves[p]}
    BY <1>2, Running, Names DEF IInv, Awaits, Fetcher, Steps
  <2>3. \E n \in Moves[p] : n.step = fetch[p].step /\ n.out = out
    BY <1>2, <2>2, Answers DEF Awaits
  <2>4. \E t : t \in Taken(p, out, heard)
    BY <2>3 DEF Taken
  <2>5. (CHOOSE t \in Taken(p, out, heard) : TRUE) \in Taken(p, out, heard)
    BY <2>4
  <2>. QED
    BY <2>1, <2>5, TakenAdvances
<1>. QED
  BY <1>1, <1>2 DEF Delivered

-----------------------------------------------------------------------------
(* Every step keeps the invariant *)

\* f can be what runs for k
Fit(k, f) == f \in Fetcher(k) /\ Sound(k, f)

LEMMA FitIsNotNone == \A k \in Key : \A f : Fit(k, f) => f # None
BY NoneAssumption DEF Fit

\* What the invariant asks of the fetchers, together.
Fetchers ==
  /\ DOMAIN fetch = Key /\ \A k \in Key : fetch[k] # None => Fit(k, fetch[k])
  /\ Waiting /\ Led

LEMMA InvariantOfFetchers ==
  /\ IInv <=> /\ Fetchers /\ asked \in Asked /\ ages \in 0 .. MaxAges
              /\ cache \in [Key -> Stored \cup {None}]
              /\ \A k \in Strict : cache[k] # None => cache[k].heard
  /\ IInv' <=> /\ Fetchers' /\ asked' \in Asked /\ ages' \in 0 .. MaxAges
               /\ cache' \in [Key -> Stored \cup {None}]
               /\ \A k \in Strict : cache'[k] # None => cache'[k].heard
BY Names DEF IInv, TypeOK, Heard, Fetchers, Fit, Waiting

\* A client's lookup.
LEMMA AskStep ==
  ASSUME IInv, NEW k \in Key, Ask(k)
  PROVE  Fetchers'
<1>. DEFINE f == Start(k, Leader(k, "client"))
<1>1. Fit(k, f) /\ ~f.waits /\ f.leader \notin Key
  <2>1. Leader(k, "client") \in {"client", "background"}
    BY DEF Leader
  <2>. QED
    BY <2>1, StartShape, Names DEF Fit
<1>2. fetch[k] = None /\ Fetchers
  BY InvariantOfFetchers DEF Ask, Needed
<1>3. DOMAIN fetch' = Key /\ fetch'[k] = f /\ \A j \in Key \ {k} : fetch'[j] = fetch[j]
  BY <1>2 DEF Ask, Fetchers
<1>. HIDE DEF f
<1>4. \A j \in Key : fetch'[j] # None => Fit(j, fetch'[j])
  BY <1>1, <1>2, <1>3 DEF Fetchers
<1>5. Waiting'
  BY <1>1, <1>2, <1>3, Names DEF Fetchers, Waiting
<1>6. Led'
  BY <1>1, <1>2, <1>3 DEF Fetchers, Led
<1>. QED
  BY <1>3, <1>4, <1>5, <1>6 DEF Fetchers

\* A lookup by a fetcher: it goes on with what is stored, or awaits a leaf that runs.
LEMMA NestStep ==
  ASSUME IInv, NEW p \in Key, Nest(p)
  PROVE  Fetchers'
<1>. DEFINE c == fetch[p].step
            g == IF Needed(c) THEN Start(c, Leader(c, p)) ELSE fetch[c]
<1>1. Fetchers /\ fetch[p] # None /\ c \in Leaf /\ p \in Parent /\ c # p /\ c \in Key
      /\ ~fetch[p].waits
  BY InvariantOfFetchers, Running, Names DEF Nest, Nested, IInv
<1>2. /\ Needed(c) => Fit(c, g) /\ ~g.waits /\ g.leader = Leader(c, p)
      /\ ~Needed(c) => g = fetch[c]
  <2>1. Leader(c, p) \in Key \cup {"client", "background"}
    BY DEF Leader
  <2>. QED
    BY <2>1, <1>1, StartShape DEF Fit
<1>3. PICK f :
        /\ fetch' = [fetch EXCEPT ![p] = f, ![c] = g]
        /\ IF Usable(c) THEN \E t \in Taken(p, Outcome(cache[c].has), cache[c].heard) : f = t.f
           ELSE f = [fetch[p] EXCEPT !.waits = TRUE]
  BY <1>1 DEF Nest, Fetchers
<1>4. Fit(p, f) /\ f.leader = fetch[p].leader /\ (Usable(c) => ~f.waits)
      /\ (~Usable(c) => f.waits /\ f.step = c)
  <2>1. CASE Usable(c)
    <3>1. cache[c].heard \in BOOLEAN
      BY <2>1, <1>1 DEF Usable, IInv, TypeOK, Stored
    <3>2. Advanced(p, f, Outcome(cache[c].has), cache[c].heard)
      BY <2>1, <1>3, TakenAdvances
    <3>. QED
      BY <2>1, <3>1, <3>2, <1>1, AdvancedShape DEF Fit
  <2>2. CASE ~Usable(c)
    BY <2>2, <1>1, <1>3, WaitShape DEF Fit
  <2>. QED
    BY <2>1, <2>2
<1>5. DOMAIN fetch' = Key /\ fetch'[p] = f /\ fetch'[c] = g
      /\ \A j \in Key \ {p, c} : fetch'[j] = fetch[j]
  BY <1>1, <1>3 DEF Fetchers
<1>6. ~Usable(c) => g # None
  BY <1>1, <1>2, FitIsNotNone DEF Needed, Usable
<1>7. Needed(c) => fetch[c] = None
  BY DEF Needed
<1>8. g # None /\ g.leader = p /\ Needed(c) => ~Usable(c)
  BY <1>1, <1>2, Names DEF Leader
<1>9. f # None
  BY <1>4, FitIsNotNone
<1>. HIDE DEF c, g
<1>10. \A j \in Key : fetch'[j] # None => Fit(j, fetch'[j])
  BY <1>1, <1>2, <1>4, <1>5 DEF Fetchers
<1>11. Waiting'
  <2>. SUFFICES ASSUME NEW q \in Key, fetch'[q] # None, fetch'[q].waits
                PROVE  q \in Parent /\ fetch'[q].step \in Leaf /\ fetch'[fetch'[q].step] # None
    BY DEF Waiting
  <2>1. CASE q = p
    BY <2>1, <1>1, <1>4, <1>5, <1>6
  <2>2. CASE q # p
    <3>1. q # c
      <4>. SUFFICES ASSUME q = c PROVE FALSE
        OBVIOUS
      <4>1. g = fetch[c]
        BY <1>2, <1>5
      <4>. QED
        BY <4>1, <1>1, <1>5, Names DEF Fetchers, Waiting
    <3>2. /\ fetch'[q] = fetch[q] /\ q \in Parent /\ fetch[q].step \in Leaf
          /\ fetch[fetch[q].step] # None
      BY <2>2, <3>1, <1>1, <1>5 DEF Fetchers, Waiting
    <3>. QED
      BY <3>2, <1>2, <1>1, <1>5, <1>7, Names
  <2>. QED
    BY <2>1, <2>2
<1>12. Led'
  <2>. SUFFICES ASSUME NEW d \in Key, fetch'[d] # None, fetch'[d].leader \in Key
                PROVE  LET q == fetch'[d].leader
                       IN  fetch'[q] # None /\ fetch'[q].waits /\ fetch'[q].step = d
    BY DEF Led
  <2>1. CASE d = c /\ Needed(c)
    <3>1. g.leader = p /\ ~Usable(c)
      BY <2>1, <1>2, <1>5, Names DEF Leader
    <3>. QED
      BY <2>1, <3>1, <1>4, <1>5, <1>9
  <2>2. CASE ~(d = c /\ Needed(c))
    <3>1. fetch[d] # None /\ fetch'[d].leader = fetch[d].leader
      BY <2>2, <1>1, <1>2, <1>4, <1>5
    <3>2. LET q == fetch[d].leader
          IN  fetch[q] # None /\ fetch[q].waits /\ fetch[q].step = d /\ q \in Parent
      BY <3>1, <1>1 DEF Fetchers, Led, Waiting
    <3>3. LET q == fetch[d].leader IN q # p /\ q # c
      BY <3>2, <1>1, Names
    <3>. QED
      BY <3>1, <3>2, <3>3, <1>5
  <2>. QED
    BY <2>1, <2>2
<1>. QED
  BY <1>5, <1>10, <1>11, <1>12 DEF Fetchers

\* The end of a call.
LEMMA CallStep ==
  ASSUME IInv, NEW k \in Key, NEW out, Call(k, out)
  PROVE  Fetchers'
<1>1. Fetchers /\ fetch[k] # None /\ fetch[k].step \notin Key
  BY InvariantOfFetchers DEF Call
<1>2. PICK t \in Taken(k, out, out # "fail") : fetch' = [fetch EXCEPT ![k] = t.f]
  BY DEF Call
<1>. DEFINE f == t.f
<1>3. Fit(k, f) /\ ~f.waits /\ f.leader = fetch[k].leader
  <2>1. Advanced(k, f, out, out # "fail")
    BY TakenAdvances
  <2>2. out = "fail" \/ (out # "fail")
    OBVIOUS
  <2>. QED
    BY <2>1, <1>1, AdvancedShape DEF Fit
<1>4. f # None
  BY <1>3, FitIsNotNone
<1>5. DOMAIN fetch' = Key /\ fetch'[k] = f /\ \A j \in Key \ {k} : fetch'[j] = fetch[j]
  BY <1>1, <1>2 DEF Fetchers
<1>. HIDE DEF f
<1>6. \A j \in Key : fetch'[j] # None => Fit(j, fetch'[j])
  BY <1>1, <1>3, <1>5 DEF Fetchers
<1>7. Waiting'
  BY <1>1, <1>3, <1>4, <1>5, Names DEF Fetchers, Waiting
<1>8. Led'
  <2>. SUFFICES ASSUME NEW d \in Key, fetch'[d] # None, fetch'[d].leader \in Key
                PROVE  LET q == fetch'[d].leader
                       IN  fetch'[q] # None /\ fetch'[q].waits /\ fetch'[q].step = d
    BY DEF Led
  <2>1. fetch[d] # None /\ fetch'[d].leader = fetch[d].leader
    BY <1>1, <1>3, <1>5
  <2>2. LET q == fetch[d].leader IN fetch[q] # None /\ fetch[q].waits /\ fetch[q].step = d
    BY <2>1, <1>1 DEF Fetchers, Led
  <2>3. fetch[d].leader # k
    BY <2>2, <1>1
  <2>. QED
    BY <2>1, <2>2, <2>3, <1>5
<1>. QED
  BY <1>5, <1>6, <1>7, <1>8 DEF Fetchers

\* A fetcher has ended and its future is resolved.
LEMMA DeliveredStep ==
  ASSUME IInv, NEW k \in Key, fetch[k] # None, fetch[k].step \in Ends,
         NEW out \in {"ok", "none", "fail"}, NEW heard \in BOOLEAN,
         fetch' = Delivered(k, out, heard)
  PROVE  Fetchers'
<1>1. Fetchers /\ fetch[k].step \notin Key
  BY InvariantOfFetchers, Names
<1>2. /\ DOMAIN fetch' = Key /\ fetch'[k] = None
      /\ \A p \in Key \ {k} : IF Awaits(p, k) THEN Advanced(p, fetch'[p], out, heard)
                              ELSE fetch'[p] = fetch[p]
  BY DeliveredShape
<1>3. ASSUME NEW p \in Key \ {k}, Awaits(p, k)
      PROVE  Fit(p, fetch'[p]) /\ ~fetch'[p].waits /\ fetch'[p].leader = fetch[p].leader
  <2>1. fetch[p] # None /\ fetch[p].step \in Key
    BY <1>3 DEF Awaits
  <2>2. Advanced(p, fetch'[p], out, heard)
    BY <1>2, <1>3
  <2>. QED
    BY <2>1, <2>2, AdvancedShape DEF Fit
<1>4. ASSUME NEW p \in Key \ {k}, ~Awaits(p, k)
      PROVE  fetch'[p] = fetch[p]
  BY <1>2, <1>4
<1>5. \A j \in Key : fetch'[j] # None => Fit(j, fetch'[j])
  BY <1>1, <1>2, <1>3, <1>4 DEF Fetchers
<1>6. Waiting'
  <2>. SUFFICES ASSUME NEW q \in Key, fetch'[q] # None, fetch'[q].waits
                PROVE  q \in Parent /\ fetch'[q].step \in Leaf /\ fetch'[fetch'[q].step] # None
    BY DEF Waiting
  <2>1. q # k /\ ~Awaits(q, k)
    BY <1>2, <1>3
  <2>2. /\ fetch'[q] = fetch[q] /\ q \in Parent /\ fetch[q].step \in Leaf
        /\ fetch[fetch[q].step] # None /\ fetch[q].step # k
    BY <2>1, <1>1, <1>4 DEF Fetchers, Waiting, Awaits
  <2>3. fetch[q].step \in Key \ {k} /\ ~Awaits(fetch[q].step, k)
    BY <2>2, <1>1, Names DEF Fetchers, Waiting, Awaits
  <2>. QED
    BY <2>2, <2>3, <1>4
<1>7. Led'
  <2>. SUFFICES ASSUME NEW d \in Key, fetch'[d] # None, fetch'[d].leader \in Key
                PROVE  LET q == fetch'[d].leader
                       IN  fetch'[q] # None /\ fetch'[q].waits /\ fetch'[q].step = d
    BY DEF Led
  <2>1. d # k /\ fetch[d] # None /\ fetch'[d].leader = fetch[d].leader
    BY <1>2, <1>3, <1>4 DEF Awaits
  <2>2. LET q == fetch[d].leader IN fetch[q] # None /\ fetch[q].waits /\ fetch[q].step = d
    BY <2>1, <1>1 DEF Fetchers, Led
  <2>3. fetch[d].leader # k /\ ~Awaits(fetch[d].leader, k)
    BY <2>1, <2>2, <1>1 DEF Awaits
  <2>. QED
    BY <2>1, <2>2, <2>3, <1>4
<1>. QED
  BY <1>2, <1>5, <1>6, <1>7 DEF Fetchers

\* A time limit: who gave up goes on, who followed asks again, and the fetcher is
\* cancelled by the one who led it.
LEMMA GiveUpStep ==
  ASSUME IInv, NEW p \in Key, GiveUp(p)
  PROVE  Fetchers'
<1>. DEFINE c == fetch[p].step
            leads == fetch[c] # None /\ fetch[c].leader = p
<1>1. /\ Fetchers /\ fetch[p] # None /\ c \in Leaf /\ p \in Parent /\ c # p /\ c \in Key
      /\ fetch[p].waits /\ fetch[c] # None
  <2>1. fetch[p] # None /\ fetch[p].step \in Key /\ fetch[p].waits
    BY DEF GiveUp, Nested
  <2>. QED
    BY <2>1, InvariantOfFetchers, Running, Names DEF IInv, Waiting
<1>2. PICK t \in Taken(p, "fail", FALSE) :
        fetch' = IF leads THEN [Left(p, c) EXCEPT ![p] = t.f, ![c] = None]
                 ELSE [fetch EXCEPT ![p] = t.f]
  BY DEF GiveUp
<1>. DEFINE f == t.f
<1>3. Fit(p, f) /\ ~f.waits /\ f.leader = fetch[p].leader
  BY <1>1, TakenAdvances, AdvancedShape DEF Fit
<1>4. DOMAIN fetch' = Key /\ fetch'[p] = f
  BY <1>1, <1>2 DEF Fetchers, Left
<1>5. fetch'[c] = IF leads THEN None ELSE fetch[c]
  BY <1>1, <1>2 DEF Fetchers, Left
<1>6. ASSUME NEW q \in Key \ {p, c}, ~(leads /\ Awaits(q, c))
      PROVE  fetch'[q] = fetch[q]
  <2>1. CASE leads
    BY <2>1, <1>1, <1>2, <1>6 DEF Left, Awaits, Nested
  <2>2. CASE ~leads
    BY <2>2, <1>1, <1>2 DEF Fetchers
  <2>. QED
    BY <2>1, <2>2
<1>7. ASSUME NEW q \in Key \ {p, c}, leads, Awaits(q, c)
      PROVE  /\ Fit(q, fetch'[q]) /\ ~fetch'[q].waits /\ fetch'[q].leader = fetch[q].leader
             /\ fetch'[q].step = fetch[q].step
  <2>1. fetch'[q] = [fetch[q] EXCEPT !.waits = FALSE]
    BY <1>1, <1>2, <1>7 DEF Left, Awaits, Nested
  <2>2. fetch[q] # None
    BY <1>7 DEF Awaits
  <2>. QED
    BY <2>1, <2>2, WaitShape DEF Fit
<1>8. \A q \in Key \ {p, c} : fetch[q] # None =>
        fetch'[q] # None /\ fetch'[q].step = fetch[q].step
  BY <1>6, <1>7, FitIsNotNone
<1>. HIDE DEF f, c, leads
<1>9. \A j \in Key : fetch'[j] # None => Fit(j, fetch'[j])
  BY <1>1, <1>3, <1>4, <1>5, <1>6, <1>7 DEF Fetchers
<1>10. Waiting'
  <2>. SUFFICES ASSUME NEW q \in Key, fetch'[q] # None, fetch'[q].waits
                PROVE  q \in Parent /\ fetch'[q].step \in Leaf /\ fetch'[fetch'[q].step] # None
    BY DEF Waiting
  <2>1. q # p
    BY <1>3, <1>4
  <2>2. q # c
    BY <1>1, <1>5, Names DEF Fetchers, Waiting
  <2>3. ~(leads /\ Awaits(q, c)) /\ fetch'[q] = fetch[q]
    BY <2>1, <2>2, <1>6, <1>7
  <2>4. /\ q \in Parent /\ fetch[q].step \in Leaf /\ fetch[fetch[q].step] # None
        /\ (leads => fetch[q].step # c) /\ fetch[q].step # p
    BY <2>3, <1>1, Names DEF Fetchers, Waiting, Awaits
  <2>5. CASE fetch[q].step = c
    BY <2>3, <2>4, <2>5, <1>5
  <2>6. CASE fetch[q].step # c
    BY <2>3, <2>4, <2>6, <1>8, Names
  <2>. QED
    BY <2>5, <2>6
<1>11. Led'
  <2>. SUFFICES ASSUME NEW d \in Key, fetch'[d] # None, fetch'[d].leader \in Key
                PROVE  LET q == fetch'[d].leader
                       IN  fetch'[q] # None /\ fetch'[q].waits /\ fetch'[q].step = d
    BY DEF Led
  <2>1. fetch[d] # None /\ fetch'[d].leader = fetch[d].leader /\ (d = c => ~leads)
    BY <1>1, <1>3, <1>4, <1>5, <1>6, <1>7 DEF Awaits
  <2>2. LET q == fetch[d].leader
        IN  fetch[q] # None /\ fetch[q].waits /\ fetch[q].step = d /\ q \in Parent
    BY <2>1, <1>1 DEF Fetchers, Led, Waiting
  <2>3. fetch[d].leader # p
    BY <2>1, <2>2, <1>1 DEF c, leads
  <2>4. fetch[d].leader # c /\ ~(leads /\ Awaits(fetch[d].leader, c))
    BY <2>1, <2>2, <1>1, Names DEF Awaits
  <2>. QED
    BY <2>1, <2>2, <2>3, <2>4, <1>6
<1>. QED
  BY <1>4, <1>9, <1>10, <1>11 DEF Fetchers

LEMMA InitInvariant == Init => IInv
<1>. SUFFICES ASSUME Init PROVE IInv
  OBVIOUS
<1>1. asked \in Asked /\ ages \in 0 .. MaxAges
  BY MaxAgesAssumption DEF Init
<1>2. /\ cache \in [Key -> Stored \cup {None}] /\ DOMAIN fetch = Key
      /\ \A k \in Key : cache[k] = None /\ fetch[k] = None
  BY DEF Init
<1>. QED
  BY <1>1, <1>2, Names DEF IInv, TypeOK, Waiting, Led, Heard

\* A fetcher that returns stores what a source has answered, if it is strict.
LEMMA ReturnStep ==
  ASSUME IInv, NEW k \in Key, Return(k)
  PROVE  IInv'
<1>. DEFINE has == IF fetch[k].step = "empty" THEN {} ELSE fetch[k].got
<1>1. /\ fetch[k] # None /\ fetch[k].step \in {"done", "empty"}
      /\ cache' = [cache EXCEPT ![k] = Entry(has, fetch[k].heard)]
      /\ fetch' = Delivered(k, Outcome(has), fetch[k].heard)
      /\ UNCHANGED <<asked, ages>>
  BY DEF Return
<1>2. fetch[k] \in Fetcher(k) /\ Sound(k, fetch[k])
  BY <1>1, Running DEF IInv, Heard
<1>3. has \in SUBSET UNION Parts /\ fetch[k].heard \in BOOLEAN
  BY <1>2 DEF Fetcher
<1>4. Entry(has, fetch[k].heard) \in Stored
  BY <1>3 DEF Entry, Stored
<1>5. k \in Strict => Entry(has, fetch[k].heard).heard
  BY <1>1, <1>2, Names DEF Sound, Entry
<1>6. Outcome(has) \in {"ok", "none", "fail"}
  BY DEF Outcome
<1>. HIDE DEF has
<1>7. Fetchers'
  BY <1>1, <1>3, <1>6, DeliveredStep DEF Ends
<1>8. cache \in [Key -> Stored \cup {None}] /\ asked \in Asked /\ ages \in 0 .. MaxAges
      /\ \A j \in Strict : cache[j] # None => cache[j].heard
  BY InvariantOfFetchers
<1>9. cache' \in [Key -> Stored \cup {None}]
      /\ \A j \in Strict : cache'[j] # None => cache'[j].heard
  BY <1>1, <1>4, <1>5, <1>8, Names
<1>. QED
  BY <1>1, <1>7, <1>8, <1>9, InvariantOfFetchers

\* A fetcher that skips the cache stores nothing, or is not strict.
LEMMA SkipStep ==
  ASSUME IInv, NEW k \in Key, Skip(k)
  PROVE  IInv'
<1>1. /\ fetch[k] # None /\ fetch[k].step \in {"skip", "negative"}
      /\ cache' = IF fetch[k].step = "skip" THEN cache ELSE [cache EXCEPT ![k] = Entry({}, FALSE)]
      /\ fetch' = Delivered(k, "none", fetch[k].heard)
      /\ UNCHANGED <<asked, ages>>
  BY DEF Skip
<1>2. fetch[k] \in Fetcher(k) /\ Sound(k, fetch[k])
  BY <1>1, Running DEF IInv, Heard
<1>3. fetch[k].heard \in BOOLEAN
  BY <1>2 DEF Fetcher
<1>4. Fetchers'
  BY <1>1, <1>3, DeliveredStep DEF Ends
<1>5. cache \in [Key -> Stored \cup {None}] /\ asked \in Asked /\ ages \in 0 .. MaxAges
      /\ \A j \in Strict : cache[j] # None => cache[j].heard
  BY InvariantOfFetchers
<1>6. Entry({}, FALSE) \in Stored
  BY DEF Entry, Stored
<1>7. fetch[k].step # "skip" => k \notin Strict
  BY <1>1, <1>2 DEF Sound
<1>8. cache' \in [Key -> Stored \cup {None}]
      /\ \A j \in Strict : cache'[j] # None => cache'[j].heard
  BY <1>1, <1>5, <1>6, <1>7, Names
<1>. QED
  BY <1>1, <1>4, <1>5, <1>8, InvariantOfFetchers

\* A fetcher that raises stores nothing.
LEMMA RaiseStep ==
  ASSUME IInv, NEW k \in Key, Raise(k)
  PROVE  Fetchers'
<1>. DEFINE base == fetch[k].base
<1>1. /\ fetch[k] # None /\ fetch[k].step = "raise"
      /\ fetch' = IF base = None THEN Delivered(k, "fail", FALSE)
                  ELSE Delivered(k, Outcome(base.has), base.heard)
  BY DEF Raise
<1>2. base \in Stored \cup {None}
  BY <1>1, Running DEF IInv, Fetcher
<1>. HIDE DEF base
<1>3. CASE base = None
  BY <1>1, <1>3, DeliveredStep DEF Ends
<1>4. CASE base # None
  <2>1. Outcome(base.has) \in {"ok", "none", "fail"} /\ base.heard \in BOOLEAN
    BY <1>2, <1>4 DEF Outcome, Stored
  <2>. QED
    BY <1>1, <1>4, <2>1, DeliveredStep DEF Ends
<1>. QED
  BY <1>3, <1>4

\* An entry that grows older stays as sound as it was.
LEMMA AgeStep ==
  ASSUME IInv, NEW k \in Key, Age(k)
  PROVE  IInv'
<1>1. /\ cache[k] # None /\ ages < MaxAges
      /\ cache' = [cache EXCEPT ![k] = Aged(k)] /\ ages' = ages + 1
      /\ UNCHANGED <<asked, fetch>>
  BY DEF Age
<1>2. Fetchers /\ cache \in [Key -> Stored \cup {None}] /\ asked \in Asked /\ ages \in 0 .. MaxAges
      /\ \A j \in Strict : cache[j] # None => cache[j].heard
  BY InvariantOfFetchers
<1>3. Aged(k) \in Stored \cup {None} /\ (Aged(k) # None => Aged(k).heard = cache[k].heard)
  BY <1>1, <1>2 DEF Aged, Stored
<1>4. ages' \in 0 .. MaxAges
  BY <1>1, <1>2, MaxAgesAssumption
<1>5. cache' \in [Key -> Stored \cup {None}]
      /\ \A j \in Strict : cache'[j] # None => cache'[j].heard
  BY <1>1, <1>2, <1>3, Names
<1>6. Fetchers'
  BY <1>1, <1>2 DEF Fetchers, Waiting, Led
<1>. QED
  BY <1>1, <1>2, <1>4, <1>5, <1>6, InvariantOfFetchers

LEMMA StepInvariant == IInv /\ [Next]_vars => IInv'
<1>. SUFFICES ASSUME IInv, [Next]_vars PROVE IInv'
  OBVIOUS
<1>1. ASSUME Fetchers', UNCHANGED <<asked, cache, ages>> PROVE IInv'
  BY <1>1, InvariantOfFetchers
<1>2. ASSUME NEW k \in Key, Ask(k) PROVE IInv'
  <2>1. Fetchers'
    BY <1>2, AskStep
  <2>. QED
    BY <1>1, <1>2, <2>1 DEF Ask
<1>3. ASSUME NEW k \in Key, Nest(k) PROVE IInv'
  <2>1. Fetchers'
    BY <1>3, NestStep
  <2>. QED
    BY <1>1, <1>3, <2>1 DEF Nest
<1>4. ASSUME NEW k \in Key, NEW out, Call(k, out) PROVE IInv'
  <2>1. Fetchers'
    BY <1>4, CallStep
  <2>. QED
    BY <1>1, <1>4, <2>1 DEF Call
<1>5. ASSUME NEW k \in Key, Raise(k) PROVE IInv'
  <2>1. Fetchers'
    BY <1>5, RaiseStep
  <2>. QED
    BY <1>1, <1>5, <2>1 DEF Raise
<1>6. ASSUME NEW k \in Key, GiveUp(k) PROVE IInv'
  <2>1. Fetchers'
    BY <1>6, GiveUpStep
  <2>. QED
    BY <1>1, <1>6, <2>1 DEF GiveUp
<1>7. CASE UNCHANGED vars
  BY <1>7, InvariantOfFetchers DEF vars, Fetchers, Waiting, Led
<1>8. CASE Next
  <2>1. PICK k \in Key : Ask(k) \/ Run(k) \/ GiveUp(k) \/ Age(k)
    BY <1>8 DEF Next
  <2>2. CASE Run(k)
    BY <2>2, <1>3, <1>4, <1>5, ReturnStep, SkipStep DEF Run
  <2>. QED
    BY <2>1, <2>2, <1>2, <1>6, AgeStep
<1>. QED
  BY <1>7, <1>8

LEMMA Inductive == Spec => []IInv
BY InitInvariant, StepInvariant, PTL DEF Spec

-----------------------------------------------------------------------------
(* Theorems *)

\* Every variable stays in its domain: a fetcher is always at a step of its own table, and
\* an entry has the parts its fetcher can find (cache.py:31-33).
THEOREM TypeCorrect == Spec => []TypeOK
<1>1. IInv => TypeOK
  BY DEF IInv
<1>. QED
  BY <1>1, Inductive, PTL

\* An outage is not cached: what a handler that answers 502 has stored comes from a source
\* that has answered (routes.py:244-258, stops.py:355-359).
THEOREM OutagesAreNotCached == Spec => []OutageNotCached
<1>1. IInv => OutageNotCached
  BY DEF IInv, Heard, OutageNotCached
<1>. QED
  BY <1>1, Inductive, PTL

\* Nobody waits in a circle or for nothing: a fetcher that awaits another awaits one that
\* runs and that awaits nobody, so an upstream call stands between it and its answer
\* (the safety that FetchesEnd rests on; stops.py:545-580, routes.py:440-510).
THEOREM WaitsAreShort == Spec => [](Waiting /\ \A p \in Leaf : fetch[p] # None => ~fetch[p].waits)
<1>1. IInv => Waiting /\ \A p \in Leaf : fetch[p] # None => ~fetch[p].waits
  BY Names DEF IInv, Waiting
<1>. QED
  BY <1>1, Inductive, PTL

\* No fetcher that another one started outlives its need: its parent still awaits it, also
\* after time limits, failures and answers (cache.py:204-208).
THEOREM ChildrenAreAwaited == Spec => []Led
<1>1. IInv => Led
  BY DEF IInv
<1>. QED
  BY <1>1, Inductive, PTL

=============================================================================
