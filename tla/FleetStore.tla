----------------------------- MODULE FleetStore -----------------------------
(***************************************************************************)
(* The in-memory fleet of app/deps.py with its lookup indexes, trails,     *)
(* last routes and plate mappings, and the SQLite table of                 *)
(* app/services/vehicle_cache.py they are written behind to.               *)
(*                                                                         *)
(* update_fleet and record_plate_mapping await nothing, so each is one     *)
(* action.  A write to SQLite is a job of the default executor, whose      *)
(* threads take the write lock of vehicle_cache in any order.              *)
(*                                                                         *)
(* Three keys stand for a bus.  The fleet, the trails and the time stamps  *)
(* are keyed by the kapino as an upstream service spells it, the last      *)
(* routes by its upper-case form, a Name, and the indexes and the mappings *)
(* by its clean form, a Door.  An index maps a key to the kapino whose     *)
(* dict it refers to; plates are compared in their clean form.  An         *)
(* upstream response lists a bus once.                                     *)
(***************************************************************************)
EXTENDS Integers, Sequences, FiniteSets, SequencesExt

CONSTANTS
  Kapino,         \* door numbers as upstream services spell them
  Name, Upper,    \* their upper-case forms, [Kapino -> Name]
  Door, Clean,    \* their clean forms, [Kapino -> Door]
  Place, Plate, Route,
  Lookup,         \* tasks of _resolve_plate (stops.py)
  MaxTrail,       \* max_entries of a trail
  Expiry,         \* the age from which a bus counts as not seen in 24 hours
  MaxKnown,       \* _MAX_KNOWN_PLATE_MAPPINGS
  EvictKnown,     \* _MAX_KNOWN_PLATE_MAPPINGS // 10
  MaxWrites,      \* bound: jobs waiting in the executor
  MaxLost,        \* bound: jobs that fail or are lost in a crash
  NoBus, NoPlate, NoRoute

Bus    == [place : Place, plate : Plate \cup {NoPlate}, route : Route \cup {NoRoute}]
Report == {r \in [Kapino -> Bus \cup {NoBus}] :
             \A k, l \in Kapino : r[k] # NoBus /\ r[l] # NoBus /\ Clean[k] = Clean[l] => k = l}

ASSUME NamesAssumption ==
  /\ Upper \in [Kapino -> Name] /\ Clean \in [Kapino -> Door]
  /\ \A k, l \in Kapino : Upper[k] = Upper[l] => Clean[k] = Clean[l]
  /\ NoBus \notin Kapino /\ NoBus \notin Bus
  /\ NoPlate \notin Plate /\ NoRoute \notin Route
ASSUME SizesAssumption ==
  /\ {Expiry, MaxWrites, MaxLost} \subseteq Nat
  /\ {MaxTrail, MaxKnown, EvictKnown} \subseteq Nat \ {0}

VARIABLES
  fleet,      \* _fleet
  clean,      \* _clean_fleet: the kapino a clean door number leads to
  plates,     \* _plate_fleet: the kapino a plate leads to
  trail,      \* _trail
  lastRoute,  \* _kapino_last_route, by name
  tracked,    \* the keys of _kapino_updated_at
  unseen,     \* ages of its time stamps
  known,      \* _known_plate_mappings
  unstamped,  \* doors whose mapping a lookup recorded while no bus of them was tracked
  lookups,    \* the kapino each _resolve_plate task has asked NTCAPI about
  writes,     \* upsert jobs in the executor
  saved,      \* the plate column of vehicle_cache
  lost        \* jobs that did not reach the table

indexes    == <<clean, plates>>
memoryVars == <<fleet, indexes, trail, lastRoute, tracked, unseen, known, unstamped>>
vars       == <<memoryVars, lookups, writes, saved, lost>>

-----------------------------------------------------------------------------
Present   == {k \in Kapino : fleet[k] # NoBus}
KnownDoor == {d \in Door : known[d] # NoPlate}
Listed(report) == {k \in Kapino : report[k] # NoBus}

\* what a dict built in one pass may hold for a key: the last of the candidates
OneOf(S) == IF S = {} THEN {NoBus} ELSE S

\* get_plate_by_kapino: the bus, its clean namesake, the mappings, the table
PlateOf(k) ==
  LET d == Clean[k]
  IN  IF fleet[k] # NoBus /\ fleet[k].plate # NoPlate THEN fleet[k].plate
      ELSE IF clean[d] # NoBus /\ fleet[clean[d]].plate # NoPlate THEN fleet[clean[d]].plate
      ELSE IF known[d] # NoPlate THEN known[d]
      ELSE saved[d]

\* run_in_executor(vehicle_cache.upsert_vehicles_batch, job)
Submit(job) == writes' = Append(writes, job)
NoJob       == [d \in Door |-> NoPlate]

-----------------------------------------------------------------------------
(* update_fleet *)

\* tracked buses that are not listed and were last seen over 24 hours ago
Expired(report) == {k \in tracked \ Listed(report) : unseen[k] = Expiry}

\* buses the update takes out of the fleet
Dropped(report, full) ==
  Expired(report) \cup (IF full THEN Kapino \ Listed(report) ELSE {})

\* the fleet after the update: a listed bus keeps the plate it had
Updated(report, full) ==
  [k \in Kapino |->
     IF k \in Dropped(report, full) THEN NoBus
     ELSE IF report[k] = NoBus THEN fleet[k]
     ELSE IF report[k].plate = NoPlate /\ fleet[k] # NoBus
     THEN [report[k] EXCEPT !.plate = fleet[k].plate]
     ELSE report[k]]

\* a bus that moved leaves its previous place in its trail
Trailed(report) ==
  [k \in Kapino |->
     IF k \in Expired(report) THEN <<>>
     ELSE IF report[k] # NoBus /\ fleet[k] # NoBus /\ report[k].place # fleet[k].place
     THEN LET t == Append(trail[k], fleet[k].place)
          IN  SubSeq(t, IF Len(t) > MaxTrail THEN 2 ELSE 1, Len(t))
     ELSE trail[k]]

\* the routes that a response tells of a name: one at most
Told(report, n) == {report[k].route : k \in {l \in Listed(report) : Upper[l] = n}} \ {NoRoute}

\* the route of a name is told first and forgotten afterwards with any spelling of it
LastRoutes(report, gone) ==
  [n \in Name |-> IF \E k \in gone : Upper[k] = n THEN NoRoute
                  ELSE IF Told(report, n) # {} THEN CHOOSE r \in Told(report, n) : TRUE
                  ELSE lastRoute[n]]

\* Faulty variant of Forget: what is kept apart from the fleet is forgotten with
\* every dropped bus.
ForgetDropped(report, full) ==
  /\ lastRoute' = LastRoutes(report, Dropped(report, full))
  /\ tracked' = (tracked \cup Listed(report)) \ Expired(report)

\* Faulty variant of Forget: an expired bus leaves its route behind.
ForgetSeen(report, full) ==
  /\ lastRoute' = LastRoutes(report, {})
  /\ tracked' = (tracked \cup Listed(report)) \ Expired(report)

\* the last routes and the time stamps: kept until a spelling expires
Forget(report, full) ==
  /\ lastRoute' = LastRoutes(report, Expired(report))
  /\ tracked' = (tracked \cup Listed(report)) \ Expired(report)

\* Faulty variant of Reindex: only the listed buses are indexed again.
ReindexMerge(after) ==
  /\ clean' \in {f \in [Door -> Kapino \cup {NoBus}] : \A d \in Door :
       f[d] \in {clean[d]} \cup OneOf({k \in Kapino : after[k] # NoBus /\ Clean[k] = d})}
  /\ plates' \in {f \in [Plate -> Kapino \cup {NoBus}] : \A p \in Plate :
       f[p] \in {plates[p]} \cup OneOf({k \in Kapino : after[k] # NoBus /\ after[k].plate = p})}

\* both indexes are rebuilt from the fleet
Reindex(after) ==
  /\ clean' \in {f \in [Door -> Kapino \cup {NoBus}] : \A d \in Door :
       f[d] \in OneOf({k \in Kapino : after[k] # NoBus /\ Clean[k] = d})}
  /\ plates' \in {f \in [Plate -> Kapino \cup {NoBus}] : \A p \in Plate :
       f[p] \in OneOf({k \in Kapino : after[k] # NoBus /\ after[k].plate = p})}

\* the plates of the response that the mappings do not have yet are written behind
Learn(report) ==
  LET kept == [d \in Door |-> IF \E k \in Expired(report) : Clean[k] = d THEN NoPlate
                              ELSE known[d]]
      news == [d \in Door |->
                 LET told == {report[k].plate : k \in {l \in Listed(report) : Clean[l] = d}}
                 IN  IF told \subseteq {NoPlate, kept[d]} THEN NoPlate
                     ELSE CHOOSE p \in told : TRUE]
  IN  /\ known' = [d \in Door |-> IF news[d] # NoPlate THEN news[d] ELSE kept[d]]
      /\ unstamped' = unstamped \ {Clean[k] : k \in Listed(report) \cup Expired(report)}
      /\ IF news = NoJob THEN UNCHANGED writes ELSE Submit(news)

UpdateFleet(report, full) ==
  /\ Len(writes) < MaxWrites
  /\ fleet' = Updated(report, full)
  /\ trail' = Trailed(report)
  /\ unseen' = [k \in Kapino |-> IF k \in Listed(report) \cup Expired(report) THEN 0
                                 ELSE unseen[k]]
  /\ Forget(report, full)
  /\ Reindex(Updated(report, full))
  /\ Learn(report)
  /\ UNCHANGED <<lookups, saved, lost>>

\* refresh_fleet_once: the response is a full snapshot
Snapshot(report) == UpdateFleet(report, TRUE)

\* get_route_buses through NTCAPI: missing plates are looked up first
RouteBusesYbs(report) ==
  /\ Listed(report) # {}
  /\ UpdateFleet([k \in Kapino |->
                    IF report[k] # NoBus /\ report[k].plate = NoPlate
                    THEN [report[k] EXCEPT !.plate = PlateOf(k)] ELSE report[k]], FALSE)

\* get_route_buses through SOAP
RouteBusesSoap(report) == Listed(report) # {} /\ UpdateFleet(report, FALSE)

-----------------------------------------------------------------------------
(* record_plate_mapping, called once NTCAPI has located a bus *)

\* the arrivals of a stop show a bus without a plate: ask NTCAPI
Ask(l, k) ==
  /\ lookups[l] = NoBus
  /\ PlateOf(k) = NoPlate
  /\ lookups' = [lookups EXCEPT ![l] = k]
  /\ UNCHANGED <<memoryVars, writes, saved, lost>>

\* NTCAPI has no plate, fails or is too slow
NoAnswer(l) ==
  /\ lookups[l] # NoBus
  /\ lookups' = [lookups EXCEPT ![l] = NoBus]
  /\ UNCHANGED <<memoryVars, writes, saved, lost>>

\* a new mapping needs room
Crowded(d) == Cardinality(KnownDoor) >= MaxKnown /\ d \notin KnownDoor

\* the mappings evicted first: the oldest ones in the code
Evictions(d) ==
  IF Crowded(d)
  THEN {S \in SUBSET KnownDoor :
          Cardinality(S) = IF EvictKnown < Cardinality(KnownDoor) THEN EvictKnown
                           ELSE Cardinality(KnownDoor)}
  ELSE {{}}

\* Faulty variant of Point: only a bus that had no plate is found by the new one.
PointOnce(named, d, p) ==
  plates' = IF named # {} /\ \A k \in named : fleet[k].plate = NoPlate
            THEN [plates EXCEPT ![p] = clean'[d]] ELSE plates

\* the new plate leads to the bus that the door number leads to
Point(named, d, p) ==
  plates' = IF named # {} THEN [plates EXCEPT ![p] = clean'[d]] ELSE plates

Answer(l, p) ==
  LET k == lookups[l]
      d == Clean[k]
      named == {clean[d], k} \cap Present   \* the buses that get the plate
  IN  /\ k # NoBus
      /\ Len(writes) < MaxWrites
      /\ \E S \in Evictions(d) :
           /\ known' = [e \in Door |-> IF e = d THEN p ELSE IF e \in S THEN NoPlate ELSE known[e]]
           /\ unstamped' = (unstamped \ S) \cup ({d} \ {Clean[j] : j \in tracked})
      /\ fleet' = [j \in Kapino |-> IF j \in named THEN [fleet[j] EXCEPT !.plate = p]
                                    ELSE fleet[j]]
      /\ clean' = IF named # {} /\ clean[d] = NoBus THEN [clean EXCEPT ![d] = k] ELSE clean
      /\ Point(named, d, p)
      /\ Submit([NoJob EXCEPT ![d] = p])
      /\ lookups' = [lookups EXCEPT ![l] = NoBus]
      /\ UNCHANGED <<trail, lastRoute, tracked, unseen, saved, lost>>

-----------------------------------------------------------------------------
(* The table of vehicle_cache *)

\* ARAC search results are written to the table only (arac_client.py, arac.py)
AracUpsert(d, p) ==
  /\ Len(writes) < MaxWrites
  /\ Submit([NoJob EXCEPT ![d] = p])
  /\ UNCHANGED <<memoryVars, lookups, saved, lost>>

\* Faulty variant of Persist: a missing plate overwrites the stored one.
PersistAll(i) ==
  /\ saved' = writes[i]
  /\ writes' = RemoveAt(writes, i)
  /\ UNCHANGED <<memoryVars, lookups, lost>>

\* a thread of the executor commits job i
Persist(i) ==
  /\ saved' = [d \in Door |-> IF writes[i][d] # NoPlate THEN writes[i][d] ELSE saved[d]]
  /\ writes' = RemoveAt(writes, i)
  /\ UNCHANGED <<memoryVars, lookups, lost>>

\* job i raises: nobody looks at its future
PersistFails(i) ==
  /\ lost < MaxLost
  /\ lost' = lost + 1
  /\ writes' = RemoveAt(writes, i)
  /\ UNCHANGED <<memoryVars, lookups, saved>>

\* the process dies and comes back: only the table survives
Restart ==
  /\ lost < MaxLost
  /\ lost' = lost + 1
  /\ fleet' = [k \in Kapino |-> NoBus]
  /\ clean' = [d \in Door |-> NoBus]
  /\ plates' = [p \in Plate |-> NoBus]
  /\ trail' = [k \in Kapino |-> <<>>]
  /\ lastRoute' = [n \in Name |-> NoRoute]
  /\ tracked' = {}
  /\ unseen' = [k \in Kapino |-> 0]
  /\ known' = NoJob
  /\ unstamped' = {}
  /\ lookups' = [l \in Lookup |-> NoBus]
  /\ writes' = <<>>
  /\ UNCHANGED saved

\* one unit of time passes
Tick ==
  /\ unseen' = [k \in Kapino |-> IF k \in tracked /\ unseen[k] < Expiry THEN unseen[k] + 1
                                 ELSE unseen[k]]
  /\ UNCHANGED <<fleet, indexes, trail, lastRoute, tracked, known, unstamped, lookups, writes,
                 saved, lost>>

-----------------------------------------------------------------------------
Init ==
  /\ fleet = [k \in Kapino |-> NoBus]
  /\ clean = [d \in Door |-> NoBus]
  /\ plates = [p \in Plate |-> NoBus]
  /\ trail = [k \in Kapino |-> <<>>]
  /\ lastRoute = [n \in Name |-> NoRoute]
  /\ tracked = {}
  /\ unseen = [k \in Kapino |-> 0]
  /\ known = NoJob
  /\ unstamped = {}
  /\ lookups = [l \in Lookup |-> NoBus]
  /\ writes = <<>>
  /\ saved = NoJob
  /\ lost = 0

Updates == \E report \in Report :
  Snapshot(report) \/ RouteBusesYbs(report) \/ RouteBusesSoap(report)

PlateLookups == \E l \in Lookup :
  (\E k \in Kapino : Ask(l, k)) \/ NoAnswer(l) \/ (\E p \in Plate : Answer(l, p))

Table ==
  \/ \E d \in Door, p \in Plate : AracUpsert(d, p)
  \/ \E i \in DOMAIN writes : Persist(i) \/ PersistFails(i)

Next == Updates \/ PlateLookups \/ Table \/ Restart \/ Tick

Spec == Init /\ [][Next]_vars

-----------------------------------------------------------------------------
(* Properties *)

\* Every variable stays in its domain, the trails within their maximum length.
TypeOK ==
  /\ fleet \in [Kapino -> Bus \cup {NoBus}]
  /\ clean \in [Door -> Kapino \cup {NoBus}]
  /\ plates \in [Plate -> Kapino \cup {NoBus}]
  /\ trail \in [Kapino -> Seq(Place)] /\ \A k \in Kapino : Len(trail[k]) <= MaxTrail
  /\ lastRoute \in [Name -> Route \cup {NoRoute}]
  /\ tracked \in SUBSET Kapino
  /\ unseen \in [Kapino -> 0 .. Expiry]
  /\ known \in [Door -> Plate \cup {NoPlate}]
  /\ unstamped \in SUBSET Door
  /\ lookups \in [Lookup -> Kapino \cup {NoBus}]
  /\ writes \in Seq([Door -> Plate \cup {NoPlate}])
  /\ saved \in [Door -> Plate \cup {NoPlate}]
  /\ lost \in 0 .. MaxLost

\* Lookups and fleet agree: an index never leads to a bus that has left the fleet
\* (a zombie would show at a stale place for ever) and every bus of the fleet is
\* found by its door number and by the plate it shows (deps.py:76-78, 387-402).
IndexesCurrent ==
  /\ \A d \in Door : clean[d] \in OneOf({k \in Present : Clean[k] = d})
  /\ \A p \in Plate : plates[p] \in Present \cup {NoBus}
  /\ \A k \in Present : fleet[k].plate # NoPlate => plates[fleet[k].plate] # NoBus

\* No leak: the position, the trail, the last route and the plate mapping of a bus hang
\* on a time stamp of one of its spellings, with which they expire, also after full
\* snapshots, partial updates and plate lookups (deps.py:366-377).  The one exception is
\* a mapping that a lookup records of a bus nobody has a stamp of: only the eviction at
\* MaxKnown bounds those (deps.py:277-281), until the bus is listed.
EverythingExpires ==
  /\ TypeOK
  /\ \A k \in Kapino : fleet[k] # NoBus \/ trail[k] # <<>> => k \in tracked
  /\ \A n \in Name : lastRoute[n] # NoRoute => \E k \in tracked : Upper[k] = n
  /\ \A d \in KnownDoor : d \in unstamped \/ \E k \in tracked : Clean[k] = d

\* "survives when bus parks / goes offline" (deps.py:84): a last known route is forgotten
\* only when the bus was last seen in some spelling of its name 24 hours ago, or in a crash.
RouteSurvives ==
  [][\A n \in Name :
       lastRoute[n] # NoRoute /\ lastRoute'[n] = NoRoute /\ lost' = lost
         => \E k \in tracked : Upper[k] = n /\ unseen[k] = Expiry]_vars

\* a plate on its way to the table
Waiting(d) == \E i \in DOMAIN writes : writes[i][d] # NoPlate

Recorded(d) == known[d] # NoPlate \/ saved[d] # NoPlate \/ Waiting(d)

\* As long as no write fails and nothing crashes, a bus that has had a plate keeps
\* one: dropped buses, expiry and the eviction of mappings notwithstanding, it is
\* in memory, in the table or on its way there (deps.py:262-283, 404-427).
PlatesKept ==
  [][lost' = 0 => \A d \in Door : Recorded(d) => Recorded(d)']_vars

-----------------------------------------------------------------------------
(* The plates of buses are written behind *)

\* a bus or a mapping shows a plate for the door number
Plated(d) == known[d] # NoPlate \/ \E k \in Present : Clean[k] = d /\ fleet[k].plate # NoPlate

Promise == INSTANCE WriteBehind WITH
  Item <- Door,
  memory <- {d \in Door : Plated(d)},
  waiting <- {d \in Door : Waiting(d)},
  table <- {d \in Door : saved[d] # NoPlate},
  losses <- lost

\* Plates that snapshots, looked-up responses and late NTCAPI answers bring are in the
\* table or in a job for it by the time the fleet shows them (deps.py:300-313, 357, 404-423),
\* and dropped buses, expiry and evicted mappings take none out of the table.
ImplementsWriteBehind == Promise!Spec

=============================================================================
