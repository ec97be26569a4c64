-------------------------- MODULE FleetStoreProofs ---------------------------
(***************************************************************************)
(* Proofs about FleetStore, for any fleet, plates, routes and limits: type *)
(* correctness, that the indexes lead to the fleet, that what is           *)
(* remembered hangs on a time stamp, that last routes survive, that plates *)
(* are not forgotten, and that it implements WriteBehind.                  *)
(***************************************************************************)
EXTENDS FleetStore, SequenceTheorems, TLAPS

\* whatever is remembered of a bus hangs on a time stamp
Stamped(d) == \E k \in tracked : Clean[k] = d

Remembered ==
  /\ \A k \in Kapino : fleet[k] # NoBus \/ trail[k] # <<>> => k \in tracked
  /\ \A n \in Name : lastRoute[n] # NoRoute => \E k \in tracked : Upper[k] = n
  /\ \A d \in Door : known[d] # NoPlate => d \in unstamped \/ Stamped(d)

\* a plate that is in the table or in a job for it
Written(d) == saved[d] # NoPlate \/ Waiting(d)

\* a plate in memory is only a copy
Behind == lost = 0 => \A d \in Door : Plated(d) => Written(d)

IInv == TypeOK /\ IndexesCurrent /\ Remembered /\ Behind

Fleet == [Kapino -> Bus \cup {NoBus}]
Job   == [Door -> Plate \cup {NoPlate}]

\* what a step may not do to routes
RoutesKept ==
  \A n \in Name : lastRoute[n] # NoRoute /\ lastRoute'[n] = NoRoute /\ lost' = lost
    => \E k \in tracked : Upper[k] = n /\ unseen[k] = Expiry

\* how plates move: what the memory learns is handed on, a commit stores what leaves
\* the executor, and a loss is counted
Learned ==
  /\ \A d \in Door : Waiting(d) => Waiting(d)'
  /\ \A d \in Door : Plated(d)' => Plated(d) \/ Waiting(d)'
  /\ saved' = saved /\ lost' = lost

Committed ==
  /\ \A d \in Door : Waiting(d)' => Waiting(d)
  /\ \A d \in Door : Waiting(d) => Waiting(d)' \/ saved'[d] # NoPlate
  /\ \A d \in Door : saved[d] # NoPlate => saved'[d] # NoPlate
  /\ \A d \in Door : saved'[d] # NoPlate => saved[d] # NoPlate \/ Waiting(d)
  /\ \A d \in Door : Plated(d)' <=> Plated(d)
  /\ lost' = lost

Lost ==
  /\ \/ (\A d \in Door : Plated(d)' <=> Plated(d)) /\ \A d \in Door : Waiting(d)' => Waiting(d)
     \/ \A d \in Door : ~Plated(d)' /\ ~Waiting(d)'
  /\ saved' = saved /\ lost' = lost + 1

Moved == Learned \/ Committed \/ Lost

\* However plates move, the memory keeps being a copy and without a loss nothing that is
\* written is forgotten.
LEMMA MovedKeeps ==
  ASSUME lost \in Nat, Behind, Moved
  PROVE  Behind' /\ (lost' = 0 => lost = 0 /\ \A d \in Door : Written(d) => Written(d)')
<1>1. CASE Learned
  BY <1>1 DEF Learned, Behind, Written
<1>2. CASE Committed
  BY <1>2 DEF Committed, Behind, Written
<1>3. CASE Lost
  <2>1. lost' # 0
    BY <1>3 DEF Lost
  <2>. QED
    BY <2>1 DEF Behind
<1>. QED
  BY <1>1, <1>2, <1>3 DEF Moved

-----------------------------------------------------------------------------
(* The list of jobs *)

\* RemoveAt leaves the elements at the other places.
LEMMA RemoveAtRange ==
  ASSUME NEW S, NEW s \in Seq(S), NEW i \in 1 .. Len(s)
  PROVE  /\ RemoveAt(s, i) \in Seq(S)
         /\ Range(RemoveAt(s, i)) = {s[j] : j \in (1 .. Len(s)) \ {i}}
<1>. DEFINE a == SubSeq(s, 1, i - 1)
            b == SubSeq(s, i + 1, Len(s))
<1>1. a \in Seq(S) /\ Len(a) = i - 1 /\ \A j \in 1 .. i - 1 : a[j] = s[j]
  BY SubSeqProperties
<1>2. b \in Seq(S) /\ Len(b) = Len(s) - i /\ \A j \in 1 .. Len(s) - i : b[j] = s[i + j]
  BY SubSeqProperties
<1>3. RemoveAt(s, i) = a \o b
  BY DEF RemoveAt
<1>. HIDE DEF a, b
<1>4. a \o b \in Seq(S) /\ Range(a \o b) = Range(a) \cup Range(b)
  BY <1>1, <1>2, ConcatProperties, RangeConcatenation
<1>5. Range(a) = {s[j] : j \in 1 .. i - 1}
  BY <1>1, RangeEquality
<1>6. Range(b) = {s[j] : j \in i + 1 .. Len(s)}
  <2>1. Range(b) = {b[j] : j \in 1 .. Len(s) - i}
    BY <1>2, RangeEquality
  <2>2. \A j \in i + 1 .. Len(s) : j - i \in 1 .. Len(s) - i /\ s[j] = b[j - i]
    BY <1>2
  <2>3. \A j \in 1 .. Len(s) - i : i + j \in i + 1 .. Len(s) /\ b[j] = s[i + j]
    BY <1>2
  <2>. QED
    BY <2>1, <2>2, <2>3
<1>. QED
  BY <1>3, <1>4, <1>5, <1>6

-----------------------------------------------------------------------------
(* What the helpers of the model do *)

LEMMA NamesApart ==
  /\ Upper \in [Kapino -> Name] /\ Clean \in [Kapino -> Door] /\ NoBus \notin Kapino /\ NoBus \notin Bus
  /\ NoPlate \notin Plate /\ NoRoute \notin Route
BY NamesAssumption

LEMMA NoJobType == NoJob \in Job /\ \A d \in Door : NoJob[d] = NoPlate
BY DEF NoJob, Job

\* A job that is submitted waits behind the others.
LEMMA SubmitStep ==
  ASSUME writes \in Seq(Job), NEW job \in Job, Submit(job)
  PROVE  /\ writes' \in Seq(Job)
         /\ \A d \in Door : Waiting(d) \/ job[d] # NoPlate => Waiting(d)'
<1>1. /\ writes' \in Seq(Job) /\ Len(writes') = Len(writes) + 1
      /\ \A i \in 1 .. Len(writes) : writes'[i] = writes[i]
      /\ writes'[Len(writes) + 1] = job
  BY AppendProperties DEF Submit
<1>2. /\ DOMAIN writes = 1 .. Len(writes) /\ DOMAIN writes' = 1 .. (Len(writes) + 1)
      /\ Len(writes) \in Nat
  BY <1>1, LenProperties
<1>3. Len(writes) + 1 \in DOMAIN writes' /\ \A i \in DOMAIN writes : i \in DOMAIN writes'
  BY <1>2
<1>. QED
  BY <1>1, <1>2, <1>3 DEF Waiting

\* A job that leaves the executor leaves the others there.
LEMMA LeaveStep ==
  ASSUME writes \in Seq(Job), NEW i \in DOMAIN writes, writes' = RemoveAt(writes, i)
  PROVE  /\ writes' \in Seq(Job)
         /\ \A d \in Door : Waiting(d) => writes[i][d] # NoPlate \/ Waiting(d)'
         /\ \A d \in Door : Waiting(d)' => Waiting(d)
<1>1. DOMAIN writes = 1 .. Len(writes) /\ i \in 1 .. Len(writes)
  BY LenProperties
<1>2. writes' \in Seq(Job) /\ Range(writes') = {writes[j] : j \in (1 .. Len(writes)) \ {i}}
  BY <1>1, RemoveAtRange
<1>3. ASSUME NEW d \in Door, NEW j \in DOMAIN writes, writes[j][d] # NoPlate, writes[i][d] = NoPlate
      PROVE  Waiting(d)'
  <2>1. j # i /\ writes[j] \in Range(writes')
    BY <1>1, <1>2, <1>3
  <2>2. PICK k \in DOMAIN writes' : writes'[k] = writes[j]
    BY <2>1 DEF Range
  <2>. QED
    BY <1>3, <2>2 DEF Waiting
<1>4. ASSUME NEW d \in Door, NEW k \in DOMAIN writes', writes'[k][d] # NoPlate PROVE Waiting(d)
  <2>1. writes'[k] \in {writes[j] : j \in (1 .. Len(writes)) \ {i}}
    BY <1>2 DEF Range
  <2>. QED
    BY <1>1, <1>4, <2>1 DEF Waiting
<1>. QED
  BY <1>2, <1>3, <1>4 DEF Waiting

\* The plate that get_plate_by_kapino finds is a plate or none.
LEMMA PlateOfType ==
  ASSUME TypeOK, IndexesCurrent, NEW k \in Kapino
  PROVE  PlateOf(k) \in Plate \cup {NoPlate}
<1>. USE NamesApart
<1>1. Clean[k] \in Door
  OBVIOUS
<1>2. clean[Clean[k]] # NoBus => clean[Clean[k]] \in Kapino /\ fleet[clean[Clean[k]]] \in Bus
  BY <1>1 DEF TypeOK, IndexesCurrent, OneOf, Present
<1>3. \A b \in Bus : b.plate \in Plate \cup {NoPlate}
  BY DEF Bus
<1>. QED
  BY <1>1, <1>2, <1>3 DEF PlateOf, TypeOK

-----------------------------------------------------------------------------
(* update_fleet *)

\* The fleet after an update is a fleet; buses that stay were there or are listed.
LEMMA UpdatedFleet ==
  ASSUME TypeOK, NEW report \in Fleet, NEW full \in BOOLEAN
  PROVE  /\ Updated(report, full) \in Fleet
         /\ \A k \in Kapino : Updated(report, full)[k] # NoBus =>
              /\ k \notin Expired(report) /\ (fleet[k] # NoBus \/ report[k] # NoBus)
              /\ Updated(report, full)[k].plate # NoPlate =>
                   \/ fleet[k] # NoBus /\ fleet[k].plate # NoPlate
                   \/ report[k] # NoBus /\ report[k].plate # NoPlate
<1>. USE NamesApart
<1>. DEFINE u(k) == IF k \in Dropped(report, full) THEN NoBus
                    ELSE IF report[k] = NoBus THEN fleet[k]
                    ELSE IF report[k].plate = NoPlate /\ fleet[k] # NoBus
                    THEN [report[k] EXCEPT !.plate = fleet[k].plate]
                    ELSE report[k]
<1>1. ASSUME NEW k \in Kapino
      PROVE  /\ u(k) \in Bus \cup {NoBus}
             /\ u(k) # NoBus =>
                  /\ k \notin Expired(report) /\ (fleet[k] # NoBus \/ report[k] # NoBus)
                  /\ u(k).plate # NoPlate =>
                       \/ fleet[k] # NoBus /\ fleet[k].plate # NoPlate
                       \/ report[k] # NoBus /\ report[k].plate # NoPlate
  <2>1. fleet[k] \in Bus \cup {NoBus} /\ report[k] \in Bus \cup {NoBus}
    BY DEF TypeOK, Fleet
  <2>2. ASSUME report[k] # NoBus, fleet[k] # NoBus
        PROVE  /\ [report[k] EXCEPT !.plate = fleet[k].plate] \in Bus
               /\ [report[k] EXCEPT !.plate = fleet[k].plate].plate = fleet[k].plate
    BY <2>1, <2>2 DEF Bus
  <2>. QED
    BY <2>1, <2>2 DEF Dropped
<1>2. Updated(report, full) = [k \in Kapino |-> u(k)]
  BY DEF Updated
<1>. HIDE DEF u
<1>. QED
  BY <1>1, <1>2 DEF Fleet

\* Trails stay within their length, and only tracked buses have one.
LEMMA TrailedShape ==
  ASSUME TypeOK, NEW report \in Fleet
  PROVE  /\ Trailed(report) \in [Kapino -> Seq(Place)]
         /\ \A k \in Kapino : Len(Trailed(report)[k]) <= MaxTrail
         /\ \A k \in Kapino : Trailed(report)[k] # <<>> =>
              k \notin Expired(report) /\ (trail[k] # <<>> \/ report[k] # NoBus)
<1>. DEFINE t(k) == Append(trail[k], fleet[k].place)
            new(k) == IF k \in Expired(report) THEN <<>>
                      ELSE IF report[k] # NoBus /\ fleet[k] # NoBus /\ report[k].place # fleet[k].place
                      THEN SubSeq(t(k), IF Len(t(k)) > MaxTrail THEN 2 ELSE 1, Len(t(k)))
                      ELSE trail[k]
<1>1. ASSUME NEW k \in Kapino
      PROVE  /\ new(k) \in Seq(Place) /\ Len(new(k)) <= MaxTrail
             /\ new(k) # <<>> => k \notin Expired(report) /\ (trail[k] # <<>> \/ report[k] # NoBus)
  <2>1. trail[k] \in Seq(Place) /\ Len(trail[k]) <= MaxTrail /\ Len(trail[k]) \in Nat
    BY LenProperties DEF TypeOK
  <2>2. CASE k \in Expired(report)
    BY <2>2, EmptySeq, SizesAssumption
  <2>3. CASE k \notin Expired(report) /\ report[k] # NoBus /\ fleet[k] # NoBus /\ report[k].place # fleet[k].place
    <3>. DEFINE s == t(k)
                m == IF Len(s) > MaxTrail THEN 2 ELSE 1
    <3>1. fleet[k].place \in Place
      BY <2>3 DEF TypeOK, Bus
    <3>2. s \in Seq(Place) /\ Len(s) = Len(trail[k]) + 1
      BY <2>1, <3>1, AppendProperties
    <3>3. new(k) = SubSeq(s, m, Len(s))
      BY <2>3
    <3>4. m \in {1, 2} /\ (Len(s) > MaxTrail => m = 2)
      OBVIOUS
    <3>. HIDE DEF new, t, s, m
    <3>5. m \in 1 .. Len(s) + 1 /\ Len(s) \in m - 1 .. Len(s) /\ Len(s) \in Nat
      BY <2>1, <3>2, <3>4
    <3>6. SubSeq(s, m, Len(s)) \in Seq(Place) /\ Len(SubSeq(s, m, Len(s))) = Len(s) - m + 1
      BY <3>2, <3>5, SubSeqProperties
    <3>7. Len(s) - m + 1 <= MaxTrail
      BY <2>1, <3>2, <3>4, SizesAssumption
    <3>. QED
      BY <2>3, <3>3, <3>6, <3>7
  <2>4. CASE k \notin Expired(report) /\ ~(report[k] # NoBus /\ fleet[k] # NoBus /\ report[k].place # fleet[k].place)
    BY <2>1, <2>4
  <2>. QED
    BY <2>2, <2>3, <2>4
<1>2. Trailed(report) = [k \in Kapino |-> new(k)]
  BY DEF Trailed
<1>. HIDE DEF new
<1>. QED
  BY <1>1, <1>2

\* A route is told by a listed spelling and forgotten with an expired one.
LEMMA LastRoutesShape ==
  ASSUME TypeOK, NEW report \in Fleet, NEW gone
  PROVE  /\ LastRoutes(report, gone) \in [Name -> Route \cup {NoRoute}]
         /\ \A n \in Name : (\E k \in gone : Upper[k] = n) => LastRoutes(report, gone)[n] = NoRoute
         /\ \A n \in Name : LastRoutes(report, gone)[n] # NoRoute =>
              lastRoute[n] # NoRoute \/ \E k \in Listed(report) : Upper[k] = n
         /\ \A n \in Name : lastRoute[n] # NoRoute /\ LastRoutes(report, gone)[n] = NoRoute =>
              \E k \in gone : Upper[k] = n
<1>1. ASSUME NEW n \in Name
      PROVE  /\ Told(report, n) \subseteq Route
             /\ Told(report, n) # {} => \E k \in Listed(report) : Upper[k] = n
  <2>1. \A k \in Listed(report) : report[k].route \in Route \cup {NoRoute}
    BY DEF Listed, Fleet, Bus
  <2>. QED
    BY <2>1 DEF Told
<1>2. ASSUME NEW n \in Name, Told(report, n) # {}
      PROVE  /\ (CHOOSE r \in Told(report, n) : TRUE) \in Route
             /\ (CHOOSE r \in Told(report, n) : TRUE) # NoRoute
  <2>1. (CHOOSE r \in Told(report, n) : TRUE) \in Told(report, n)
    BY <1>2
  <2>. QED
    BY <1>1, <2>1, NamesApart
<1>3. \A n \in Name : lastRoute[n] \in Route \cup {NoRoute}
  BY DEF TypeOK
<1>. QED
  BY <1>1, <1>2, <1>3 DEF LastRoutes

\* The rebuilt indexes lead to the fleet they are built from.
LEMMA ReindexCurrent ==
  ASSUME NEW after \in Fleet, Reindex(after), fleet' = after
  PROVE  /\ clean' \in [Door -> Kapino \cup {NoBus}] /\ plates' \in [Plate -> Kapino \cup {NoBus}]
         /\ IndexesCurrent'
<1>. USE NamesApart
<1>. DEFINE D(d) == {k \in Kapino : after[k] # NoBus /\ Clean[k] = d}
            P(p) == {k \in Kapino : after[k] # NoBus /\ after[k].plate = p}
<1>1. /\ clean' \in [Door -> Kapino \cup {NoBus}] /\ plates' \in [Plate -> Kapino \cup {NoBus}]
      /\ \A d \in Door : clean'[d] \in OneOf(D(d))
      /\ \A p \in Plate : plates'[p] \in OneOf(P(p))
  BY DEF Reindex
<1>2. \A d \in Door : D(d) = {k \in Kapino : fleet'[k] # NoBus /\ Clean[k] = d}
  OBVIOUS
<1>3. \A p \in Plate : plates'[p] \in {k \in Kapino : fleet'[k] # NoBus} \cup {NoBus}
  BY <1>1 DEF OneOf
<1>4. ASSUME NEW k \in Kapino, fleet'[k] # NoBus, fleet'[k].plate # NoPlate
      PROVE  plates'[fleet'[k].plate] # NoBus
  <2>1. fleet'[k].plate \in Plate
    BY <1>4 DEF Fleet, Bus
  <2>2. k \in P(fleet'[k].plate)
    BY <1>4
  <2>3. plates'[fleet'[k].plate] \in P(fleet'[k].plate)
    BY <1>1, <2>1, <2>2 DEF OneOf
  <2>. QED
    BY <2>3
<1>5. \A d \in Door : clean'[d] \in OneOf({k \in {j \in Kapino : fleet'[j] # NoBus} : Clean[k] = d})
  BY <1>1, <1>2 DEF OneOf
<1>. QED
  BY <1>1, <1>3, <1>4, <1>5 DEF IndexesCurrent, Present

\* New plates of a response are in memory only together with a job that writes them.
LEMMA LearnStep ==
  ASSUME TypeOK, NEW report \in Report, Learn(report)
  PROVE  /\ known' \in Job /\ writes' \in Seq(Job)
         /\ unstamped' = unstamped \ {Clean[k] : k \in Listed(report) \cup Expired(report)}
         /\ \A d \in Door : known'[d] # NoPlate =>
              \/ \E k \in Listed(report) : Clean[k] = d
              \/ known[d] # NoPlate /\ ~\E k \in Expired(report) : Clean[k] = d
         /\ \A d \in Door : Waiting(d) => Waiting(d)'
         /\ \A d \in Door : known'[d] # NoPlate => known[d] # NoPlate \/ Waiting(d)'
         /\ \A k \in Listed(report) : report[k].plate # NoPlate =>
              known[Clean[k]] # NoPlate \/ Waiting(Clean[k])'
<1>. USE NamesApart
<1>0. report \in Fleet
  BY DEF Report, Fleet
<1>. DEFINE gone(d) == \E k \in Expired(report) : Clean[k] = d
            kept == [d \in Door |-> IF gone(d) THEN NoPlate ELSE known[d]]
            told(d) == {report[k].plate : k \in {l \in Listed(report) : Clean[l] = d}}
            news == [d \in Door |-> IF told(d) \subseteq {NoPlate, kept[d]} THEN NoPlate
                                    ELSE CHOOSE p \in told(d) : TRUE]
<1>1. /\ known' = [d \in Door |-> IF news[d] # NoPlate THEN news[d] ELSE kept[d]]
      /\ IF news = NoJob THEN UNCHANGED writes ELSE Submit(news)
      /\ unstamped' = unstamped \ {Clean[k] : k \in Listed(report) \cup Expired(report)}
  BY DEF Learn
<1>2. kept \in Job /\ \A d \in Door : kept[d] # NoPlate => known[d] # NoPlate /\ ~gone(d)
  BY DEF TypeOK, Job
<1>11. ASSUME NEW d \in Door, news[d] # NoPlate PROVE \E k \in Listed(report) : Clean[k] = d
  <2>1. told(d) # {}
    BY <1>11
  <2>. QED
    BY <2>1
<1>3. \A d \in Door : told(d) \subseteq Plate \cup {NoPlate}
  BY <1>0 DEF Listed, Fleet, Bus
<1>4. news \in Job
  <2>. SUFFICES ASSUME NEW d \in Door, ~(told(d) \subseteq {NoPlate, kept[d]})
                PROVE  (CHOOSE p \in told(d) : TRUE) \in Plate \cup {NoPlate}
    BY DEF Job
  <2>1. \E p \in told(d) : TRUE
    OBVIOUS
  <2>. HIDE DEF told
  <2>2. (CHOOSE p \in told(d) : TRUE) \in told(d)
    BY <2>1
  <2>. QED
    BY <1>3, <2>2
<1>9. ASSUME NEW k \in Listed(report), report[k].plate # NoPlate
      PROVE  known[Clean[k]] # NoPlate \/ news[Clean[k]] # NoPlate
  <2>. DEFINE d == Clean[k]
              p == report[k].plate
  <2>1. k \in Kapino /\ d \in Door
    BY DEF Listed
  <2>2. told(d) = {p}
    <3>1. \A l \in Listed(report) : Clean[l] = d => l = k
      BY DEF Report, Listed
    <3>. QED
      BY <3>1
  <2>3. CASE p = kept[d]
    BY <1>2, <1>9, <2>1, <2>3
  <2>4. CASE p # kept[d]
    <3>1. (CHOOSE q \in told(d) : TRUE) = p
      BY <2>2
    <3>2. ~(told(d) \subseteq {NoPlate, kept[d]})
      BY <1>9, <2>2, <2>4
    <3>3. news[d] = p
      BY <2>1, <3>1, <3>2
    <3>. QED
      BY <1>9, <3>3
  <2>. QED
    BY <2>3, <2>4
<1>. HIDE DEF news, kept
<1>5. known' \in Job
  BY <1>1, <1>2, <1>4 DEF Job
<1>6. writes \in Seq(Job)
  BY DEF TypeOK, Job
<1>7. /\ writes' \in Seq(Job)
      /\ \A d \in Door : Waiting(d) \/ news[d] # NoPlate => Waiting(d)'
  <2>1. CASE news = NoJob
    BY <1>1, <1>6, <2>1, NoJobType DEF Waiting
  <2>2. CASE news # NoJob
    <3>1. Submit(news)
      BY <1>1, <2>2
    <3>. QED
      BY <1>4, <1>6, <3>1, SubmitStep
  <2>. QED
    BY <2>1, <2>2
<1>8. \A d \in Door : known'[d] # NoPlate => known[d] # NoPlate \/ Waiting(d)'
  BY <1>1, <1>2, <1>7
<1>10. \A k \in Listed(report) : Clean[k] \in Door
  BY DEF Listed
<1>12. ASSUME NEW d \in Door, known'[d] # NoPlate
      PROVE  \/ \E k \in Listed(report) : Clean[k] = d
             \/ known[d] # NoPlate /\ ~\E k \in Expired(report) : Clean[k] = d
  <2>1. news[d] # NoPlate \/ kept[d] # NoPlate
    BY <1>1, <1>12
  <2>. QED
    BY <1>2, <1>11, <2>1
<1>13. unstamped' = unstamped \ {Clean[k] : k \in Listed(report) \cup Expired(report)}
  BY <1>1
<1>. QED
  BY <1>5, <1>7, <1>8, <1>9, <1>10, <1>12, <1>13

\* An update keeps the invariant; routes and plates survive it.
LEMMA UpdateKeeps ==
  ASSUME IInv, NEW report \in Report, NEW full \in BOOLEAN, UpdateFleet(report, full)
  PROVE  IInv' /\ RoutesKept /\ Moved
<1>. USE NamesApart
<1>0. report \in Fleet
  BY DEF Report, Fleet
<1>. DEFINE after == Updated(report, full)
            out == Expired(report)
<1>1. /\ fleet' = after /\ trail' = Trailed(report) /\ Reindex(after) /\ Learn(report)
      /\ unseen' = [k \in Kapino |-> IF k \in Listed(report) \cup out THEN 0 ELSE unseen[k]]
      /\ UNCHANGED <<lookups, saved, lost>>
  BY DEF UpdateFleet
<1>2. lastRoute' = LastRoutes(report, out) /\ tracked' = (tracked \cup Listed(report)) \ out
  BY DEF UpdateFleet, Forget
<1>3. /\ after \in Fleet
      /\ \A k \in Kapino : after[k] # NoBus =>
           /\ k \notin out /\ (fleet[k] # NoBus \/ report[k] # NoBus)
           /\ after[k].plate # NoPlate =>
                \/ fleet[k] # NoBus /\ fleet[k].plate # NoPlate
                \/ report[k] # NoBus /\ report[k].plate # NoPlate
  BY <1>0, UpdatedFleet DEF IInv
<1>4. /\ trail' \in [Kapino -> Seq(Place)]
      /\ \A k \in Kapino : Len(trail'[k]) <= MaxTrail
      /\ \A k \in Kapino : trail'[k] # <<>> =>
           k \notin out /\ (trail[k] # <<>> \/ report[k] # NoBus)
  BY <1>0, <1>1, TrailedShape DEF IInv
<1>. HIDE DEF after
<1>5. /\ clean' \in [Door -> Kapino \cup {NoBus}] /\ plates' \in [Plate -> Kapino \cup {NoBus}]
      /\ IndexesCurrent'
  BY <1>1, <1>3, ReindexCurrent
<1>6. /\ known' \in Job /\ writes' \in Seq(Job)
      /\ unstamped' = unstamped \ {Clean[k] : k \in Listed(report) \cup out}
      /\ \A d \in Door : known'[d] # NoPlate =>
           \/ \E k \in Listed(report) : Clean[k] = d
           \/ known[d] # NoPlate /\ ~\E k \in out : Clean[k] = d
      /\ \A d \in Door : Waiting(d) => Waiting(d)'
      /\ \A d \in Door : known'[d] # NoPlate => known[d] # NoPlate \/ Waiting(d)'
      /\ \A k \in Listed(report) : report[k].plate # NoPlate =>
           known[Clean[k]] # NoPlate \/ Waiting(Clean[k])'
  BY <1>1, LearnStep DEF IInv
<1>13. Learned
  <2>1. ASSUME NEW k \in Kapino, after[k] # NoBus, after[k].plate # NoPlate
        PROVE  Plated(Clean[k]) \/ Waiting(Clean[k])'
    BY <1>3, <1>6, <2>1 DEF Plated, Present, Listed
  <2>2. ASSUME NEW d \in Door, Plated(d)' PROVE Plated(d) \/ Waiting(d)'
    <3>1. CASE known'[d] # NoPlate
      BY <1>6, <3>1 DEF Plated
    <3>2. CASE \E k \in Kapino : after[k] # NoBus /\ Clean[k] = d /\ after[k].plate # NoPlate
      BY <2>1, <3>2
    <3>. QED
      BY <1>1, <2>2, <3>1, <3>2 DEF Plated, Present
  <2>. QED
    BY <1>1, <1>6, <2>2 DEF Learned
<1>14. Behind'
  BY <1>13, MovedKeeps DEF IInv, TypeOK, Moved
<1>15. out \subseteq tracked /\ out \cap Listed(report) = {}
  BY DEF Expired
<1>16. \A k \in out : unseen[k] = Expiry
  BY DEF Expired
<1>. HIDE DEF out
<1>7. /\ lastRoute' \in [Name -> Route \cup {NoRoute}]
      /\ \A n \in Name : (\E k \in out : Upper[k] = n) => lastRoute'[n] = NoRoute
      /\ \A n \in Name : lastRoute'[n] # NoRoute =>
           lastRoute[n] # NoRoute \/ \E k \in Listed(report) : Upper[k] = n
      /\ \A n \in Name : lastRoute[n] # NoRoute /\ lastRoute'[n] = NoRoute =>
           \E k \in out : Upper[k] = n
  BY <1>0, <1>2, LastRoutesShape DEF IInv, TypeOK
<1>8. unseen' \in [Kapino -> 0 .. Expiry]
  <2>1. 0 \in 0 .. Expiry
    BY SizesAssumption
  <2>. QED
    BY <1>1, <2>1 DEF IInv, TypeOK
<1>9. tracked' \in SUBSET Kapino
  BY <1>2 DEF IInv, TypeOK, Listed
<1>17. unstamped' \in SUBSET Door
  BY <1>6 DEF IInv, TypeOK
<1>10. TypeOK'
  BY <1>17, <1>1, <1>3, <1>4, <1>5, <1>6, <1>7, <1>8, <1>9 DEF IInv, TypeOK, Fleet, Job
<1>11. Remembered'
  <2>1. ASSUME NEW k \in Kapino, after[k] # NoBus \/ trail'[k] # <<>> PROVE k \in tracked'
    <3>1. k \notin out /\ (fleet[k] # NoBus \/ trail[k] # <<>> \/ report[k] # NoBus)
      BY <1>3, <1>4, <2>1
    <3>. QED
      BY <1>2, <3>1 DEF IInv, Remembered, Listed
  <2>2. ASSUME NEW n \in Name, lastRoute'[n] # NoRoute PROVE \E k \in tracked' : Upper[k] = n
    <3>1. PICK k \in tracked \cup Listed(report) : Upper[k] = n
      BY <1>7, <2>2 DEF IInv, Remembered
    <3>2. k \notin out
      BY <1>7, <2>2, <3>1
    <3>. QED
      BY <1>2, <3>1, <3>2
  <2>3. ASSUME NEW d \in Door, known'[d] # NoPlate PROVE d \in unstamped' \/ Stamped(d)'
    <3>1. CASE \E k \in Listed(report) : Clean[k] = d
      BY <1>2, <1>15, <3>1 DEF Stamped
    <3>2. CASE ~(\E k \in Listed(report) : Clean[k] = d)
      <4>1. known[d] # NoPlate /\ ~\E k \in out : Clean[k] = d
        BY <1>6, <2>3, <3>2
      <4>2. d \in unstamped => d \in unstamped'
        BY <1>6, <3>2, <4>1
      <4>3. Stamped(d) => Stamped(d)'
        BY <1>2, <4>1 DEF Stamped
      <4>. QED
        BY <4>1, <4>2, <4>3 DEF IInv, Remembered
    <3>. QED
      BY <3>1, <3>2
  <2>. QED
    BY <1>1, <2>1, <2>2, <2>3 DEF Remembered
<1>12. RoutesKept
  BY <1>7, <1>15, <1>16 DEF RoutesKept
<1>. QED
  BY <1>5, <1>10, <1>11, <1>12, <1>13, <1>14 DEF IInv, Moved

\* The plates that get_route_buses looks up first leave it a response that lists a bus once.
LEMMA UpdatesKeep == IInv /\ Updates => IInv' /\ RoutesKept /\ Moved
<1>. SUFFICES ASSUME IInv, NEW report \in Report,
                     Snapshot(report) \/ RouteBusesYbs(report) \/ RouteBusesSoap(report)
              PROVE  IInv' /\ RoutesKept /\ Moved
  BY DEF Updates
<1>0. report \in Fleet
  BY DEF Report, Fleet
<1>1. CASE Snapshot(report) \/ RouteBusesSoap(report)
  BY <1>1, UpdateKeeps DEF Snapshot, RouteBusesSoap
<1>2. CASE RouteBusesYbs(report)
  <2>. DEFINE r(k) == IF report[k] # NoBus /\ report[k].plate = NoPlate
                      THEN [report[k] EXCEPT !.plate = PlateOf(k)] ELSE report[k]
              told == [k \in Kapino |-> r(k)]
  <2>1. ASSUME NEW k \in Kapino PROVE r(k) \in Bus \cup {NoBus}
    <3>1. PlateOf(k) \in Plate \cup {NoPlate}
      BY PlateOfType DEF IInv
    <3>2. report[k] \in Bus \cup {NoBus}
      BY <1>0 DEF Fleet
    <3>. QED
      BY <3>1, <3>2 DEF Bus
  <2>2. told \in Report
    <3>1. \A k \in Kapino : told[k] # NoBus => report[k] # NoBus
      OBVIOUS
    <3>2. told \in [Kapino -> Bus \cup {NoBus}]
      BY <2>1
    <3>. HIDE DEF told
    <3>. QED
      BY <3>1, <3>2 DEF Report
  <2>3. UpdateFleet(told, FALSE)
    BY <1>2 DEF RouteBusesYbs
  <2>. QED
    BY <2>2, <2>3, UpdateKeeps
<1>. QED
  BY <1>1, <1>2

-----------------------------------------------------------------------------
(* record_plate_mapping and the table *)

\* A step that leaves the memory alone, and no job to itself.
LEMMA MemoryStays ==
  ASSUME IInv, UNCHANGED <<memoryVars, lost>>, lookups' \in [Lookup -> Kapino \cup {NoBus}],
         writes' \in Seq(Job), saved' \in Job, Moved
  PROVE  IInv' /\ RoutesKept /\ Moved
<1>1. TypeOK'
  BY DEF IInv, TypeOK, memoryVars, indexes, Job
<1>2. IndexesCurrent' /\ Remembered'
  BY DEF IInv, IndexesCurrent, Present, Remembered, Stamped, memoryVars, indexes
<1>3. Behind'
  BY MovedKeeps DEF IInv, TypeOK
<1>. QED
  BY <1>1, <1>2, <1>3 DEF IInv, RoutesKept, memoryVars

\* Then it moves plates as its job does.
LEMMA PlatedStays == UNCHANGED <<fleet, known>> => \A d \in Door : Plated(d)' <=> Plated(d)
BY DEF Plated, Present

\* A plate that NTCAPI has told finds its bus through an index that leads there.
LEMMA AnswerKeeps ==
  ASSUME IInv, NEW l \in Lookup, NEW p \in Plate, Answer(l, p)
  PROVE  IInv' /\ RoutesKept /\ Moved
<1>. USE NamesApart
<1>. DEFINE k == lookups[l]
            d == Clean[k]
            named == {clean[d], k} \cap Present
            job == [NoJob EXCEPT ![d] = p]
<1>1. k \in Kapino /\ d \in Door /\ named \subseteq Kapino
  <2>1. k # NoBus
    BY DEF Answer
  <2>. QED
    BY <2>1 DEF IInv, TypeOK, Present
<1>2. /\ fleet' = [j \in Kapino |-> IF j \in named THEN [fleet[j] EXCEPT !.plate = p] ELSE fleet[j]]
      /\ clean' = IF named # {} /\ clean[d] = NoBus THEN [clean EXCEPT ![d] = k] ELSE clean
      /\ plates' = IF named # {} THEN [plates EXCEPT ![p] = clean'[d]] ELSE plates
      /\ Submit(job)
      /\ lookups' = [lookups EXCEPT ![l] = NoBus]
      /\ UNCHANGED <<trail, lastRoute, tracked, unseen, saved, lost>>
  BY DEF Answer, Point
<1>3. PICK S \in Evictions(d) :
        /\ known' = [e \in Door |-> IF e = d THEN p ELSE IF e \in S THEN NoPlate ELSE known[e]]
        /\ unstamped' = (unstamped \ S) \cup ({d} \ {Clean[j] : j \in tracked})
  BY DEF Answer
<1>4. job \in Job /\ job[d] = p
  BY <1>1, NoJobType DEF Job
<1>. HIDE DEF job
<1>5. /\ writes' \in Seq(Job)
      /\ \A e \in Door : Waiting(e) \/ job[e] # NoPlate => Waiting(e)'
  <2>1. writes \in Seq(Job)
    BY DEF IInv, TypeOK, Job
  <2>. QED
    BY <1>2, <1>4, <2>1, SubmitStep
<1>17. \A j \in named : Clean[j] = d
  BY <1>1 DEF IInv, IndexesCurrent, OneOf, Present
<1>6. named # {} => clean[d] \in Present /\ clean' = clean
  <2>1. clean[d] \in OneOf({j \in Present : Clean[j] = d})
    BY <1>1 DEF IInv, IndexesCurrent
  <2>2. k \in Present => clean[d] \in Present
    BY <1>1, <2>1 DEF OneOf
  <2>3. clean[d] \in Present => clean[d] # NoBus
    BY DEF Present
  <2>. QED
    BY <1>2, <2>2, <2>3
<1>7. clean' = clean
  BY <1>2, <1>6
<1>. HIDE DEF k, d
<1>8. fleet' \in Fleet /\ \A j \in Kapino : fleet'[j] # NoBus <=> fleet[j] # NoBus
  <2>. DEFINE f(j) == IF j \in named THEN [fleet[j] EXCEPT !.plate = p] ELSE fleet[j]
  <2>1. ASSUME NEW j \in Kapino PROVE f(j) \in Bus \cup {NoBus} /\ (f(j) # NoBus <=> fleet[j] # NoBus)
    <3>1. fleet[j] \in Bus \cup {NoBus}
      BY DEF IInv, TypeOK
    <3>2. CASE j \in named
      <4>1. fleet[j] \in Bus
        BY <3>1, <3>2 DEF Present
      <4>2. [fleet[j] EXCEPT !.plate = p] \in Bus
        BY <4>1 DEF Bus
      <4>. QED
        BY <3>2, <4>1, <4>2
    <3>3. CASE j \notin named
      BY <3>1, <3>3
    <3>. QED
      BY <3>2, <3>3
  <2>2. fleet' = [j \in Kapino |-> f(j)]
    BY <1>2
  <2>. HIDE DEF f, named
  <2>. QED
    BY <2>1, <2>2 DEF Fleet
<1>9. Present' = Present
  BY <1>8 DEF Present
<1>10. plates' \in [Plate -> Kapino \cup {NoBus}] /\ \A q \in Plate : plates'[q] \in Present \cup {NoBus}
  BY <1>2, <1>6, <1>7 DEF IInv, TypeOK, IndexesCurrent, Present
<1>11. ASSUME NEW j \in Present, fleet'[j].plate # NoPlate PROVE plates'[fleet'[j].plate] # NoBus
  <2>1. j \in Kapino /\ fleet[j] \in Bus /\ fleet[j].plate \in Plate \cup {NoPlate}
    BY DEF Present, IInv, TypeOK, Bus
  <2>2. CASE j \in named
    <3>1. fleet'[j] = [fleet[j] EXCEPT !.plate = p]
      BY <1>2, <2>1, <2>2
    <3>2. fleet'[j].plate = p
      BY <2>1, <3>1 DEF Bus
    <3>3. plates' = [plates EXCEPT ![p] = clean[d]] /\ clean[d] # NoBus
      BY <1>2, <1>6, <1>7, <2>2 DEF Present
    <3>. QED
      BY <3>2, <3>3 DEF IInv, TypeOK
  <2>3. CASE j \notin named
    <3>1. fleet'[j] = fleet[j] /\ fleet[j].plate \in Plate
      BY <1>2, <1>11, <2>1, <2>3
    <3>2. plates[fleet[j].plate] # NoBus
      BY <1>11, <3>1 DEF IInv, IndexesCurrent
    <3>3. plates' = plates \/ (plates' = [plates EXCEPT ![p] = clean[d]] /\ clean[d] # NoBus)
      BY <1>2, <1>6, <1>7 DEF Present
    <3>. QED
      BY <3>1, <3>2, <3>3 DEF IInv, TypeOK
  <2>. QED
    BY <2>2, <2>3
<1>12. IndexesCurrent'
  <2>1. \A e \in Door : clean'[e] \in OneOf({j \in Present : Clean[j] = e})
    BY <1>7 DEF IInv, IndexesCurrent
  <2>. QED
    BY <1>9, <1>10, <1>11, <2>1 DEF IndexesCurrent, OneOf
<1>13. known' \in Job /\ unstamped' \in SUBSET Door
  BY <1>1, <1>3 DEF IInv, TypeOK, Job
<1>14. TypeOK'
  BY <1>1, <1>2, <1>5, <1>7, <1>8, <1>10, <1>13 DEF IInv, TypeOK, Fleet, Job
<1>15. Remembered'
  <2>1. ASSUME NEW e \in Door, known'[e] # NoPlate PROVE e \in unstamped' \/ Stamped(e)
    <3>1. CASE e = d
      BY <1>3, <3>1 DEF Stamped
    <3>2. CASE e # d
      <4>1. e \notin S /\ known[e] # NoPlate
        BY <1>3, <2>1, <3>2
      <4>. QED
        BY <1>3, <4>1 DEF IInv, Remembered
    <3>. QED
      BY <3>1, <3>2
  <2>. QED
    BY <1>2, <1>8, <2>1 DEF IInv, Remembered, Stamped
<1>18. Learned
  <2>1. \A e \in Door : e = d => Waiting(e)'
    <3>1. p # NoPlate
      OBVIOUS
    <3>. QED
      BY <1>4, <1>5, <3>1
  <2>2. ASSUME NEW e \in Door, Plated(e)' PROVE Plated(e) \/ Waiting(e)'
    <3>1. CASE known'[e] # NoPlate
      BY <1>3, <2>1, <3>1 DEF Plated
    <3>2. CASE \E j \in Present : Clean[j] = e /\ fleet'[j].plate # NoPlate
      <4>1. PICK j \in Present : Clean[j] = e /\ fleet'[j].plate # NoPlate
        BY <3>2
      <4>2. j \in named => Waiting(e)'
        BY <1>17, <2>1, <4>1
      <4>3. j \notin named => fleet'[j] = fleet[j]
        BY <1>2, <4>1 DEF Present
      <4>. QED
        BY <4>1, <4>2, <4>3 DEF Plated
    <3>. QED
      BY <1>9, <2>2, <3>1, <3>2 DEF Plated
  <2>. QED
    BY <1>2, <1>5, <2>2 DEF Learned
<1>16. Behind'
  BY <1>18, MovedKeeps DEF IInv, TypeOK, Moved
<1>. QED
  BY <1>2, <1>12, <1>14, <1>15, <1>16, <1>18 DEF IInv, RoutesKept, Moved

\* The steps of the table keep what is written.
LEMMA TableKeeps == IInv /\ Table => IInv' /\ RoutesKept /\ Moved
<1>. SUFFICES ASSUME IInv, Table PROVE IInv' /\ RoutesKept /\ Moved
  OBVIOUS
<1>0. writes \in Seq(Job) /\ saved \in Job /\ lookups \in [Lookup -> Kapino \cup {NoBus}]
      /\ lost \in 0 .. MaxLost /\ DOMAIN writes = 1 .. Len(writes)
      /\ \A i \in DOMAIN writes : writes[i] \in Job
  BY ElementOfSeq, LenProperties DEF IInv, TypeOK, Job
<1>1. ASSUME NEW d \in Door, NEW p \in Plate, AracUpsert(d, p)
      PROVE  IInv' /\ RoutesKept /\ Moved
  <2>. DEFINE job == [NoJob EXCEPT ![d] = p]
  <2>1. Submit(job) /\ UNCHANGED <<memoryVars, lookups, saved, lost>>
    BY <1>1 DEF AracUpsert
  <2>2. job \in Job
    BY NoJobType DEF Job
  <2>. HIDE DEF job
  <2>3. writes' \in Seq(Job) /\ \A e \in Door : Waiting(e) => Waiting(e)'
    BY <1>0, <2>1, <2>2, SubmitStep
  <2>4. Learned
    BY <2>1, <2>3, PlatedStays DEF Learned, memoryVars
  <2>. QED
    BY <1>0, <2>1, <2>3, <2>4, MemoryStays DEF Moved
<1>2. ASSUME NEW i \in DOMAIN writes, Persist(i) PROVE IInv' /\ RoutesKept /\ Moved
  <2>1. /\ saved' = [d \in Door |-> IF writes[i][d] # NoPlate THEN writes[i][d] ELSE saved[d]]
        /\ writes' = RemoveAt(writes, i) /\ UNCHANGED <<memoryVars, lookups, lost>>
    BY <1>2 DEF Persist
  <2>2. saved' \in Job
    BY <1>0, <2>1 DEF Job
  <2>3. /\ writes' \in Seq(Job)
        /\ \A d \in Door : Waiting(d) => writes[i][d] # NoPlate \/ Waiting(d)'
        /\ \A d \in Door : Waiting(d)' => Waiting(d)
    BY <1>0, <2>1, LeaveStep
  <2>5. \A d \in Door : writes[i][d] # NoPlate => Waiting(d)
    BY DEF Waiting
  <2>6. Committed
    BY <2>1, <2>3, <2>5, PlatedStays DEF Committed, memoryVars
  <2>4. Moved
    BY <2>6 DEF Moved
  <2>. QED
    BY <1>0, <2>1, <2>2, <2>3, <2>4, MemoryStays
<1>3. ASSUME NEW i \in DOMAIN writes, PersistFails(i) PROVE IInv' /\ RoutesKept /\ Moved
  <2>1. /\ lost < MaxLost /\ lost' = lost + 1
        /\ writes' = RemoveAt(writes, i) /\ UNCHANGED <<memoryVars, lookups, saved>>
    BY <1>3 DEF PersistFails
  <2>2. writes' \in Seq(Job) /\ \A d \in Door : Waiting(d)' => Waiting(d)
    BY <1>0, <2>1, LeaveStep
  <2>3. lost' \in 0 .. MaxLost /\ lost' # 0 /\ lost' # lost
    BY <1>0, <2>1, SizesAssumption
  <2>4. TypeOK'
    BY <2>1, <2>2, <2>3 DEF IInv, TypeOK, memoryVars, indexes, Job
  <2>5. IndexesCurrent' /\ Remembered'
    BY <2>1 DEF IInv, IndexesCurrent, Present, Remembered, Stamped, memoryVars, indexes
  <2>6. Lost
    BY <2>1, <2>2, PlatedStays DEF Lost, memoryVars
  <2>. QED
    BY <2>3, <2>4, <2>5, <2>6 DEF IInv, Behind, RoutesKept, Moved
<1>. QED
  BY <1>1, <1>2, <1>3 DEF Table

\* Only the table survives a restart.
LEMMA RestartKeeps == IInv /\ Restart => IInv' /\ RoutesKept /\ Moved
<1>. SUFFICES ASSUME IInv, Restart PROVE IInv' /\ RoutesKept /\ Moved
  OBVIOUS
<1>. USE NamesApart
<1>1. lost' \in 0 .. MaxLost /\ lost' # 0 /\ lost' # lost
  BY SizesAssumption DEF IInv, TypeOK, Restart
<1>2. /\ fleet' = [k \in Kapino |-> NoBus] /\ clean' = [d \in Door |-> NoBus]
      /\ plates' = [p \in Plate |-> NoBus] /\ trail' = [k \in Kapino |-> <<>>]
      /\ lastRoute' = [n \in Name |-> NoRoute] /\ tracked' = {}
      /\ unseen' = [k \in Kapino |-> 0] /\ known' = NoJob /\ unstamped' = {}
      /\ lookups' = [l \in Lookup |-> NoBus] /\ writes' = <<>> /\ saved' = saved
  BY DEF Restart
<1>3. trail' \in [Kapino -> Seq(Place)] /\ \A k \in Kapino : Len(trail'[k]) <= MaxTrail
  <2>1. <<>> \in Seq(Place) /\ Len(<<>>) = 0
    BY EmptySeq
  <2>. QED
    BY <1>2, <2>1, SizesAssumption
<1>4. unseen' \in [Kapino -> 0 .. Expiry]
  <2>1. 0 \in 0 .. Expiry
    BY SizesAssumption
  <2>. QED
    BY <1>2, <2>1
<1>5. writes' \in Seq(Job) /\ known' \in Job
  BY <1>2, EmptySeq, NoJobType
<1>6. TypeOK'
  BY <1>1, <1>2, <1>3, <1>4, <1>5 DEF IInv, TypeOK, Job
<1>7. IndexesCurrent' /\ Remembered'
  BY <1>2, NoJobType DEF IndexesCurrent, OneOf, Present, Remembered
<1>8. Lost
  BY <1>2, NoJobType DEF Lost, Plated, Present, Waiting, Restart
<1>. QED
  BY <1>1, <1>6, <1>7, <1>8 DEF IInv, Behind, RoutesKept, Moved

\* Every step keeps the invariant and the routes that are young, and moves plates as above.
LEMMA Step == IInv /\ [Next]_vars => IInv' /\ [RoutesKept /\ Moved]_vars
<1>. SUFFICES ASSUME IInv, [Next]_vars PROVE IInv' /\ [RoutesKept /\ Moved]_vars
  OBVIOUS
<1>0. writes \in Seq(Job) /\ saved \in Job /\ lookups \in [Lookup -> Kapino \cup {NoBus}]
  BY DEF IInv, TypeOK, Job
<1>1. ASSUME NEW l \in Lookup, (\E k \in Kapino : Ask(l, k)) \/ NoAnswer(l)
      PROVE  IInv' /\ RoutesKept /\ Moved
  <2>1. UNCHANGED <<memoryVars, writes, saved, lost>>
    BY <1>1 DEF Ask, NoAnswer
  <2>2. lookups' \in [Lookup -> Kapino \cup {NoBus}]
    BY <1>0, <1>1 DEF Ask, NoAnswer
  <2>3. Learned
    BY <2>1, PlatedStays DEF Learned, Waiting, memoryVars
  <2>. QED
    BY <1>0, <2>1, <2>2, <2>3, MemoryStays DEF Moved
<1>2. CASE PlateLookups
  BY <1>1, <1>2, AnswerKeeps DEF PlateLookups
<1>3. CASE Tick
  <2>1. /\ unseen' = [k \in Kapino |-> IF k \in tracked /\ unseen[k] < Expiry THEN unseen[k] + 1
                                       ELSE unseen[k]]
        /\ UNCHANGED <<fleet, indexes, trail, lastRoute, tracked, known, unstamped, lookups, writes,
                       saved, lost>>
    BY <1>3 DEF Tick
  <2>2. unseen' \in [Kapino -> 0 .. Expiry]
    BY <2>1, SizesAssumption DEF IInv, TypeOK
  <2>3. TypeOK'
    BY <2>1, <2>2 DEF IInv, TypeOK, indexes
  <2>4. IndexesCurrent' /\ Remembered'
    BY <2>1 DEF IInv, IndexesCurrent, Present, Remembered, Stamped, indexes
  <2>5. Learned
    BY <2>1, PlatedStays DEF Learned, Waiting
  <2>6. Behind'
    BY <2>5, MovedKeeps DEF IInv, TypeOK, Moved
  <2>. QED
    BY <2>1, <2>3, <2>4, <2>5, <2>6 DEF IInv, RoutesKept, Moved
<1>4. CASE UNCHANGED vars
  <2>2. Learned
    BY <1>4, PlatedStays DEF Learned, Waiting, vars, memoryVars
  <2>1. IInv'
    BY <1>0, <1>4, <2>2, MemoryStays DEF vars, Moved
  <2>. QED
    BY <1>4, <2>1
<1>. QED
  BY <1>2, <1>3, <1>4, UpdatesKeep, TableKeeps, RestartKeeps DEF Next

-----------------------------------------------------------------------------
(* The theorems *)

LEMMA InitIInv == Init => IInv
<1>. SUFFICES ASSUME Init PROVE IInv
  OBVIOUS
<1>. USE NamesApart
<1>1. trail \in [Kapino -> Seq(Place)] /\ \A k \in Kapino : Len(trail[k]) <= MaxTrail
  <2>1. <<>> \in Seq(Place) /\ Len(<<>>) = 0
    BY EmptySeq
  <2>. QED
    BY <2>1, SizesAssumption DEF Init
<1>2. 0 \in 0 .. Expiry /\ 0 \in 0 .. MaxLost
  BY SizesAssumption
<1>3. unseen \in [Kapino -> 0 .. Expiry] /\ lost \in 0 .. MaxLost
  BY <1>2 DEF Init
<1>4. writes \in Seq(Job) /\ known \in Job /\ saved \in Job
  BY EmptySeq, NoJobType DEF Init
<1>5. TypeOK
  BY <1>1, <1>3, <1>4 DEF Init, TypeOK, Job
<1>6. IndexesCurrent /\ Remembered
  BY NoJobType DEF Init, IndexesCurrent, OneOf, Present, Remembered
<1>7. Behind
  BY NoJobType DEF Init, Behind, Plated, Present
<1>. QED
  BY <1>5, <1>6, <1>7 DEF IInv

\* The invariant that the properties below follow from is inductive.
THEOREM Inductive == Spec => []IInv
BY InitIInv, Step, PTL DEF Spec

\* Every variable of the fleet store stays in its domain, every trail in its length.
THEOREM TypeCorrect == Spec => []TypeOK
<1>1. IInv => TypeOK
  BY DEF IInv
<1>. QED
  BY <1>1, Inductive, PTL

\* The indexes lead to buses of the fleet, and every bus is found by its door number and
\* its plate (deps.py:76-78, 387-402), for any spellings and whichever snapshots, partial
\* updates and late plate answers come in which order.
THEOREM IndexesAreCurrent == Spec => []IndexesCurrent
<1>1. IInv => IndexesCurrent
  BY DEF IInv
<1>. QED
  BY <1>1, Inductive, PTL

\* The position, the trail, the last route and the plate mapping of a bus hang on a time
\* stamp that will expire (deps.py:366-377), a mapping unless a lookup recorded it of a bus
\* without one.
THEOREM NothingLeaks == Spec => []EverythingExpires
<1>1. IInv => EverythingExpires
  BY DEF IInv, Remembered, Stamped, EverythingExpires, KnownDoor
<1>. QED
  BY <1>1, Inductive, PTL

\* A last route is forgotten only when some spelling of its name was last seen 24 hours
\* ago (deps.py:84, 366-373).
THEOREM RoutesSurvive == Spec => RouteSurvives
<1>1. [RoutesKept /\ Moved]_vars =>
        [\A n \in Name :
           lastRoute[n] # NoRoute /\ lastRoute'[n] = NoRoute /\ lost' = lost
             => \E k \in tracked : Upper[k] = n /\ unseen[k] = Expiry]_vars
  BY DEF RoutesKept
<1>. QED
  BY <1>1, Inductive, Step, PTL DEF Spec, RouteSurvives

\* As long as nothing is lost a bus that has had a plate keeps one (deps.py:262-283,
\* 404-427): the table or a job for it has every plate that the memory may forget.
THEOREM PlatesAreKept == Spec => PlatesKept
<1>1. IInv /\ IInv' /\ [RoutesKept /\ Moved]_vars =>
        [lost' = 0 => \A d \in Door : Recorded(d) => Recorded(d)']_vars
  BY MovedKeeps DEF IInv, TypeOK, Behind, Written, Recorded, Plated
<1>. QED
  BY <1>1, Inductive, Step, PTL DEF Spec, PlatesKept

\* The fleet store implements WriteBehind: over any backlog, any order of commits, lost
\* jobs and restarts, the fleet and the mappings show no plate that the table will not
\* have unless a job is lost (deps.py:300-313, 357, 404-423, vehicle_cache.py:191-246).
THEOREM Refinement == Spec => ImplementsWriteBehind
<1>1. Init => Promise!Init
  BY NoJobType DEF Init, Promise!Init, Plated, Present, Waiting
<1>2. [RoutesKept /\ Moved]_vars => [Promise!Next]_(Promise!vars)
  <2>1. Learned => Promise!Learn
    BY DEF Learned, Promise!Learn
  <2>2. ASSUME Committed PROVE Promise!Commit
    <3>. DEFINE stored == {d \in Door : Waiting(d) /\ saved'[d] # NoPlate}
    <3>1. stored \in SUBSET {d \in Door : Waiting(d)}
      OBVIOUS
    <3>2. {d \in Door : Waiting(d)} \ {d \in Door : Waiting(d)'} \subseteq stored
      BY <2>2 DEF Committed
    <3>3. {d \in Door : saved'[d] # NoPlate} = {d \in Door : saved[d] # NoPlate} \cup stored
      BY <2>2 DEF Committed
    <3>. HIDE DEF stored
    <3>. QED
      BY <2>2, <3>1, <3>2, <3>3 DEF Committed, Promise!Commit
  <2>3. Lost => Promise!Lose \/ Promise!Restart
    BY DEF Lost, Promise!Lose, Promise!Restart
  <2>4. UNCHANGED vars => UNCHANGED Promise!vars
    BY PlatedStays DEF vars, memoryVars, Promise!vars, Waiting
  <2>. QED
    BY <2>1, <2>2, <2>3, <2>4 DEF Moved, Promise!Next
<1>. QED
  BY <1>1, <1>2, Inductive, Step, PTL DEF Spec, ImplementsWriteBehind, Promise!Spec

=============================================================================
