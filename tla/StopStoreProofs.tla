-------------------------- MODULE StopStoreProofs ---------------------------
(***************************************************************************)
(* Proofs about StopStore, for any set of stops, facts and requests and    *)
(* any backlog of the executor: type correctness, that the list of located *)
(* stops and the dict agree, that nothing but a 0.0 takes a fact back,     *)
(* that names reach the table, and that it implements WriteBehind.         *)
(***************************************************************************)
EXTENDS StopStore, SequenceTheorems, TLAPS

RequestType ==
  [st : {"idle", "upstream", "table"}, code : Code \cup {NoStop}, live : BOOLEAN,
   held : Stop \cup {NoStop}, got : Stop \cup {NoStop, Error}]

Stores ==
  /\ stops \in [Code -> Stop \cup {NoStop}]
  /\ preload \in [Code -> Stop \cup {NoStop}]
  /\ table \in [Code -> Stop \cup {NoStop}]
  /\ index \in [Code -> 0 .. 1]
  /\ updated \in BOOLEAN
  /\ indexer \in {"start", "preload", "fetch", "asleep"}
  /\ jobs \in Seq(Batch)
  /\ lost \in 0 .. MaxLost

\* a request names a stop, and refers to an entry while that is in the dict
Requests ==
  /\ request \in [Request -> RequestType]
  /\ \A r \in Request :
       /\ request[r].st # "idle" => request[r].code \in Code
       /\ request[r].live => request[r].st # "idle" /\ stops[request[r].code] # NoStop

Listed == \A c \in Code : index[c] = IF Located(stops[c]) THEN 1 ELSE 0

\* a name that is known is in the table or on its way there
Pending == lost = 0 => \A c \in Code : Named(stops[c]) => Named(table[c]) \/ Queued(c)

\* rows that were read name nothing that the table has not
Preloaded == \A c \in Code : Named(preload[c]) => Named(table[c])

IInv == Stores /\ Requests /\ Listed /\ Pending /\ Preloaded

-----------------------------------------------------------------------------
(* The list of batches *)

\* RemoveAt leaves the elements at the other places.
LEMMA RemoveAtRange ==
  ASSUME NEW S, NEW s \in Seq(S), NEW i \in 1 .. Len(s)
  PROVE  /\ RemoveAt(s, i) \in Seq(S)
         /\ Range(RemoveAt(s, i)) = {s[j] : j \in (1 .. Len(s)) \ {i}}
<1>. DEFINE a == SubSeq(s, 1, i - 1)
            b == SubSeq(s, i + 1, Len(s))
<1>1. a \in Seq(S) /\ Len(a) = i - 1 /\ \A j \in 1 .. i - 1 : a[j] = s[j]
  BY SubSeqProperties
<1>2. b \in Seq(S) /\ Len(b) = Len(s) - i /\ \A j \in 1 .. Len(s) - i : b[j] = s[i + j]
  BY SubSeqProperties
<1>3. RemoveAt(s, i) = a \o b
  BY DEF RemoveAt
<1>. HIDE DEF a, b
<1>4. a \o b \in Seq(S) /\ Range(a \o b) = Range(a) \cup Range(b)
  BY <1>1, <1>2, ConcatProperties, RangeConcatenation
<1>5. Range(a) = {s[j] : j \in 1 .. i - 1}
  BY <1>1, RangeEquality
<1>6. Range(b) = {s[j] : j \in i + 1 .. Len(s)}
  <2>1. Range(b) = {b[j] : j \in 1 .. Len(s) - i}
    BY <1>2, RangeEquality
  <2>2. \A j \in i + 1 .. Len(s) : j - i \in 1 .. Len(s) - i /\ s[j] = b[j - i]
    BY <1>2
  <2>3. \A j \in 1 .. Len(s) - i : i + j \in i + 1 .. Len(s) /\ b[j] = s[i + j]
    BY <1>2
  <2>. QED
    BY <2>1, <2>2, <2>3
<1>. QED
  BY <1>3, <1>4, <1>5, <1>6

-----------------------------------------------------------------------------
(* Merging *)

\* Null values are not stops.
LEMMA NullsNoStops == NoStop \notin Stop /\ Error \notin Stop /\ NoStop # Error
BY NullsAssumption DEF Stop

\* Merging keeps what is known and adds only what is missing.
LEMMA FilledFacts ==
  ASSUME NEW s \in Stop, NEW t \in Stop \cup {NoStop}, NEW F
  PROVE  /\ Filled(s, t, F) \in Stop
         /\ \A f \in Field : s[f] # None => Filled(s, t, F)[f] = s[f]
         /\ \A f \in Field \cap F : t # NoStop /\ t[f] # None => Filled(s, t, F)[f] # None
         /\ \A f \in Field \ F : Filled(s, t, F)[f] = s[f]
<1>1. CASE t = NoStop
  BY <1>1 DEF Filled
<1>2. CASE t \in Stop
  <2>1. Filled(s, t, F) = [f \in Field |-> IF s[f] = None /\ f \in F THEN t[f] ELSE s[f]]
    BY <1>2, NullsNoStops DEF Filled
  <2>. QED
    BY <1>2, <2>1 DEF Stop
<1>. QED
  BY <1>1, <1>2

LEMMA NameIsField == "name" \in Field /\ Coordinate \subseteq Field /\ "name" \notin Coordinate
BY FieldAssumption DEF Coordinate

\* A merged stop keeps its name and its location.
LEMMA FilledKeeps ==
  ASSUME NEW s \in Stop, NEW t \in Stop \cup {NoStop}, NEW F
  PROVE  /\ Named(s) => Named(Filled(s, t, F))
         /\ Located(s) => Located(Filled(s, t, F))
BY FilledFacts, NameIsField, NullsNoStops DEF Named, Located

\* A set of stops by their codes.
LEMMA BatchShape ==
  ASSUME NEW b \in Batch
  PROVE  DOMAIN b \subseteq Code /\ \A c \in DOMAIN b : b[c] \in Stop
BY DEF Batch

LEMMA BatchIntro ==
  ASSUME NEW S \in SUBSET Code, NEW b \in [S -> Stop]
  PROVE  b \in Batch
BY DEF Batch

\* The rows that record_stops_batch hands on, and their names.
LEMMA RowsShape ==
  ASSUME Stores, NEW b \in Batch
  PROVE  /\ Rows(b) \in Batch
         /\ \A c \in DOMAIN b : Named(b[c]) => c \in DOMAIN Rows(b) /\ Named(Rows(b)[c])
<1>. DEFINE row == [c \in DOMAIN b |-> Filled(b[c], stops[c], {"name"})]
            S == {d \in DOMAIN b : Named(row[d])}
<1>1. \A c \in DOMAIN b : /\ row[c] \in Stop
                          /\ Named(b[c]) => Named(row[c])
  BY BatchShape, FilledFacts, FilledKeeps DEF Stores
<1>2. S \in SUBSET Code
  BY BatchShape
<1>3. Rows(b) = [c \in S |-> row[c]]
  BY DEF Rows
<1>. HIDE DEF row
<1>4. Rows(b) \in [S -> Stop]
  BY <1>1, <1>3
<1>. QED
  BY <1>1, <1>2, <1>3, <1>4, BatchIntro

\* A batch that is handed to the executor waits there, behind those that wait already.
LEMMA HandStep ==
  ASSUME jobs \in Seq(Batch), NEW b \in Batch, Hand(b)
  PROVE  /\ jobs' \in Seq(Batch)
         /\ \A c \in Code : Queued(c) => Queued(c)'
         /\ \A c \in DOMAIN b : Named(b[c]) => Queued(c)'
<1>1. CASE DOMAIN b = {}
  BY <1>1 DEF Hand, Queued
<1>2. CASE DOMAIN b # {}
  <2>1. jobs' = Append(jobs, b)
    BY <1>2 DEF Hand
  <2>2. /\ jobs' \in Seq(Batch) /\ Len(jobs') = Len(jobs) + 1
        /\ \A i \in 1 .. Len(jobs) : jobs'[i] = jobs[i]
        /\ jobs'[Len(jobs) + 1] = b
    BY <2>1, AppendProperties
  <2>3. /\ DOMAIN jobs = 1 .. Len(jobs) /\ DOMAIN jobs' = 1 .. (Len(jobs) + 1)
        /\ Len(jobs) \in Nat
    BY <2>2, LenProperties
  <2>4. Len(jobs) + 1 \in DOMAIN jobs' /\ \A i \in DOMAIN jobs : i \in DOMAIN jobs'
    BY <2>3
  <2>. QED
    BY <2>2, <2>3, <2>4 DEF Queued
<1>. QED
  BY <1>1, <1>2

-----------------------------------------------------------------------------
(* What the merges do to the dict, the list and the backlog *)

\* No entry of the dict disappears, nor a fact that is known.
StopsKept ==
  \A c \in Code : stops[c] # NoStop =>
    stops'[c] # NoStop /\ \A f \in Field : stops[c][f] = Known => stops'[c][f] = Known

\* No entry disappears, nor a district or a direction; a coordinate may become 0.0.
StopsRefreshed ==
  \A c \in Code : stops[c] # NoStop =>
    /\ stops'[c] # NoStop
    /\ \A f \in Field \ {"name"} : stops[c][f] = Known =>
         stops'[c][f] = Known \/ (f \in Coordinate /\ stops'[c][f] = Zero)

\* record_stops_batch keeps what is known, lists what it locates, and names no stop that
\* it does not hand on.
LEMMA RecordStep ==
  ASSUME Stores, Listed, NEW b \in Batch, NEW persist \in BOOLEAN, RecordStops(b, persist)
  PROVE  /\ stops' \in [Code -> Stop \cup {NoStop}] /\ index' \in [Code -> 0 .. 1]
         /\ updated' \in BOOLEAN /\ jobs' \in Seq(Batch)
         /\ Listed' /\ StopsKept
         /\ \A c \in Code : Queued(c) => Queued(c)'
         /\ \A c \in Code : Named(stops'[c]) =>
              Named(stops[c]) \/ (c \in DOMAIN b /\ Named(b[c]))
         /\ persist => \A c \in DOMAIN b : Named(b[c]) => Queued(c)'
<1>. USE NullsNoStops, NameIsField
<1>1. ASSUME NEW c \in Code
      PROVE  /\ Recorded(c, b) \in Stop \cup {NoStop}
             /\ Located(stops[c]) => Located(Recorded(c, b))
             /\ stops[c] # NoStop => Recorded(c, b) # NoStop
             /\ stops[c] # NoStop => \A f \in Field : stops[c][f] = Known => Recorded(c, b)[f] = Known
             /\ Named(Recorded(c, b)) => Named(stops[c]) \/ (c \in DOMAIN b /\ Named(b[c]))
  <2>1. stops[c] \in Stop \cup {NoStop}
    BY DEF Stores
  <2>2. CASE c \notin DOMAIN b
    BY <2>1, <2>2 DEF Recorded
  <2>3. CASE c \in DOMAIN b /\ stops[c] = NoStop
    BY <2>3, BatchShape DEF Recorded, Located
  <2>4. CASE c \in DOMAIN b /\ stops[c] # NoStop
    <3>. DEFINE e == Filled(stops[c], b[c], Field)
    <3>1. Recorded(c, b) = e /\ b[c] \in Stop /\ stops[c] \in Stop
      BY <2>1, <2>4, BatchShape DEF Recorded
    <3>2. e \in Stop /\ \A f \in Field : stops[c][f] # None => e[f] = stops[c][f]
      BY <3>1, FilledFacts
    <3>3. Located(stops[c]) => Located(e)
      BY <3>1, FilledKeeps
    <3>4. e["name"] = IF stops[c]["name"] = None THEN b[c]["name"] ELSE stops[c]["name"]
      BY <3>1 DEF Filled
    <3>5. \A f \in Field : stops[c][f] = Known => e[f] = Known
      BY <3>2 DEF Known, None
    <3>. HIDE DEF e
    <3>. QED
      BY <2>4, <3>1, <3>2, <3>3, <3>4, <3>5 DEF Named
  <2>. QED
    BY <2>2, <2>3, <2>4
<1>2. stops' = [c \in Code |-> Recorded(c, b)]
  BY DEF RecordStops
<1>3. StopsKept /\ stops' \in [Code -> Stop \cup {NoStop}]
  BY <1>1, <1>2 DEF StopsKept
<1>4. \A c \in Code : Named(stops'[c]) => Named(stops[c]) \/ (c \in DOMAIN b /\ Named(b[c]))
  BY <1>1, <1>2
<1>5. Listed' /\ index' \in [Code -> 0 .. 1]
  <2>1. index' = [c \in Code |-> index[c] + IF c \in NewlyLocated(b) THEN 1 ELSE 0]
    BY DEF RecordStops
  <2>2. ASSUME NEW c \in Code PROVE index'[c] = IF Located(stops'[c]) THEN 1 ELSE 0
    <3>1. c \notin DOMAIN b => Recorded(c, b) = stops[c]
      BY DEF Recorded
    <3>2. c \in NewlyLocated(b) <=> ~Located(stops[c]) /\ Located(Recorded(c, b))
      BY <3>1 DEF NewlyLocated
    <3>3. index[c] = IF Located(stops[c]) THEN 1 ELSE 0
      BY DEF Listed
    <3>. QED
      BY <1>1, <1>2, <2>1, <3>2, <3>3
  <2>. QED
    BY <2>1, <2>2 DEF Listed
<1>6. updated' \in BOOLEAN
  BY DEF RecordStops
<1>7. /\ jobs' \in Seq(Batch)
      /\ \A c \in Code : Queued(c) => Queued(c)'
      /\ persist => \A c \in DOMAIN b : Named(b[c]) => Queued(c)'
  <2>1. CASE persist
    <3>1. Rows(b) \in Batch /\ \A c \in DOMAIN b : Named(b[c]) => c \in DOMAIN Rows(b) /\ Named(Rows(b)[c])
      BY RowsShape
    <3>2. Hand(Rows(b))
      BY <2>1 DEF RecordStops
    <3>. QED
      BY <3>1, <3>2, HandStep DEF Stores
  <2>2. CASE ~persist
    <3>1. jobs' = jobs
      BY <2>2 DEF RecordStops
    <3>. QED
      BY <2>2, <3>1 DEF Queued, Stores
  <2>. QED
    BY <2>1, <2>2
<1>. QED
  BY <1>3, <1>4, <1>5, <1>6, <1>7

\* update_stop_index lists the located stops; it keeps the entries once there is an index.
LEMMA CatalogueStep ==
  ASSUME Stores, NEW b \in Catalogue, UpdateStopIndex(b)
  PROVE  /\ stops' \in [Code -> Stop \cup {NoStop}] /\ index' \in [Code -> 0 .. 1]
         /\ updated' \in BOOLEAN
         /\ Listed' /\ (Preserve => StopsRefreshed)
         /\ \A c \in Code : Named(stops'[c]) =>
              Named(stops[c]) \/ (c \in DOMAIN b /\ Named(b[c]))
<1>. USE NullsNoStops, NameIsField
<1>. DEFINE entry(c) ==
        IF c \in DOMAIN b
        THEN IF stops[c] = NoStop THEN b[c] ELSE Refreshed(stops[c], b[c])
        ELSE IF Preserve THEN stops[c] ELSE NoStop
<1>1. /\ stops' = [c \in Code |-> entry(c)]
      /\ index' = [c \in Code |-> IF Located(entry(c)) THEN 1 ELSE 0]
      /\ updated' = TRUE
  BY DEF UpdateStopIndex
<1>2. b \in Batch /\ \A c \in DOMAIN b : \A f \in Coordinate : b[c][f] # None
  BY DEF Catalogue
<1>3. ASSUME NEW c \in Code
      PROVE  /\ entry(c) \in Stop \cup {NoStop}
             /\ Preserve /\ stops[c] # NoStop => entry(c) # NoStop
             /\ Preserve /\ stops[c] # NoStop =>
                  \A f \in Field \ {"name"} : stops[c][f] = Known =>
                    entry(c)[f] = Known \/ (f \in Coordinate /\ entry(c)[f] = Zero)
             /\ Named(entry(c)) => Named(stops[c]) \/ (c \in DOMAIN b /\ Named(b[c]))
  <2>1. stops[c] \in Stop \cup {NoStop}
    BY DEF Stores
  <2>2. CASE c \notin DOMAIN b \/ stops[c] = NoStop
    <3>1. Preserve /\ stops[c] # NoStop => entry(c) = stops[c]
      BY <2>2
    <3>2. entry(c) \in Stop \cup {NoStop}
      BY <1>2, <2>1, <2>2, BatchShape
    <3>3. Named(entry(c)) => Named(stops[c]) \/ (c \in DOMAIN b /\ Named(b[c]))
      BY <2>1, <2>2 DEF Named
    <3>. HIDE DEF entry
    <3>. QED
      BY <3>1, <3>2, <3>3
  <2>3. CASE c \in DOMAIN b /\ stops[c] # NoStop
    <3>. DEFINE e == Filled(b[c], stops[c], Descriptive)
    <3>1. entry(c) = e /\ b[c] \in Stop /\ stops[c] \in Stop
      BY <1>2, <2>1, <2>3, BatchShape DEF Refreshed
    <3>2. /\ e \in Stop
          /\ \A f \in Field : b[c][f] # None => e[f] = b[c][f]
          /\ \A f \in Field \cap Descriptive : stops[c][f] # None => e[f] # None
          /\ \A f \in Field \ Descriptive : e[f] = b[c][f]
      BY <3>1, FilledFacts
    <3>3. "name" \in Field \ Descriptive /\ \A f \in Field \ {"name"} : f \in Coordinate \/ f \in Field \cap Descriptive
      BY DEF Descriptive
    <3>. HIDE DEF e, entry
    <3>4. \A f \in Coordinate : e[f] \in {Known, Zero}
      <4>1. \A f \in Coordinate : f \in Field /\ b[c][f] # None
        BY <1>2, <2>3, FieldAssumption
      <4>2. \A f \in Field : e[f] \in {None, Zero, Known}
        BY <3>2 DEF Stop
      <4>. QED
        BY <3>2, <4>1, <4>2
    <3>5. \A f \in Field \cap Descriptive : stops[c][f] = Known => e[f] = Known
      <4>1. \A f \in Field \cap Descriptive : e[f] \in {None, Known}
        BY <3>2 DEF Stop, Descriptive
      <4>2. Known # None
        BY DEF Known, None
      <4>. QED
        BY <2>3, <3>2, <4>1, <4>2
    <3>6. ASSUME NEW f \in Field \ {"name"}, stops[c][f] = Known
          PROVE  entry(c)[f] = Known \/ (f \in Coordinate /\ entry(c)[f] = Zero)
      BY <3>1, <3>3, <3>4, <3>5, <3>6
    <3>. QED
      BY <1>2, <2>3, <3>1, <3>2, <3>3, <3>6 DEF Named
  <2>. QED
    BY <2>2, <2>3
<1>. HIDE DEF entry
<1>4. stops' \in [Code -> Stop \cup {NoStop}] /\ index' \in [Code -> 0 .. 1] /\ updated' \in BOOLEAN
  BY <1>1, <1>3
<1>5. Listed'
  BY <1>1 DEF Listed
<1>6. Preserve => StopsRefreshed
  BY <1>1, <1>3 DEF StopsRefreshed
<1>. QED
  BY <1>1, <1>3, <1>4, <1>5, <1>6

-----------------------------------------------------------------------------
(* Answers and rows *)

\* An idle request is a value of its type.
LEMMA IdleType == Idle \in RequestType /\ Idle.st = "idle" /\ ~Idle.live
BY DEF Idle, RequestType

\* What get_stop_detail chooses is a stop, no stop or an error.
LEMMA AnswerShape == Answers \subseteq Stop \cup {NoStop, Error}
BY DEF Answers, Chosen, SoapAnswers, JsonAnswers

\* So it is after get_stop_coords: only coordinates are zero.
LEMMA WithCoordinatesShape ==
  ASSUME Stores, NEW c \in Code, NEW answer \in Stop \cup {NoStop, Error}
  PROVE  WithCoordinates(c, answer) \in Stop \cup {NoStop, Error}
<1>1. CASE answer \in Stop /\ ~Exact(answer) /\ Located(stops[c])
  <2>. DEFINE w == [f \in Field |-> IF f \in Coordinate THEN stops[c][f] ELSE answer[f]]
  <2>1. stops[c] \in Stop
    BY <1>1 DEF Stores, Located
  <2>2. w \in Stop
    BY <1>1, <2>1, NameIsField DEF Stop
  <2>. QED
    BY <1>1, <2>2 DEF WithCoordinates
<1>. QED
  BY <1>1 DEF WithCoordinates

\* cached_stop is an entry or none.
LEMMA CachedShape ==
  ASSUME Stores, Requests, NEW r \in Request
  PROVE  Cached(r) \in Stop \cup {NoStop}
<1>1. CASE request[r].live
  <2>1. request[r].code \in Code
    BY <1>1 DEF Requests
  <2>. QED
    BY <1>1, <2>1 DEF Stores, Cached
<1>2. CASE ~request[r].live
  BY <1>2 DEF Requests, RequestType, Cached
<1>. QED
  BY <1>1, <1>2

\* One stop is a batch.
LEMMA OneStop ==
  ASSUME NEW c \in Code, NEW s \in Stop
  PROVE  [d \in {c} |-> s] \in Batch
<1>1. [d \in {c} |-> s] \in [{c} -> Stop] /\ {c} \in SUBSET Code
  OBVIOUS
<1>. QED
  BY <1>1, BatchIntro

\* The table keeps what it knows, but for coordinates that a batch zeroes.
TableKept ==
  \A c \in Code : \A f \in Field :
    Knows(table[c], f) =>
      \/ Knows(table'[c], f)
      \/ (f \in Coordinate /\ table'[c][f] = Zero /\ Zeroed(c, f))

\* A committed batch is in the table, over what the table had.
LEMMA CommitStep ==
  ASSUME Stores, NEW i \in DOMAIN jobs, Commit(i)
  PROVE  /\ table' \in [Code -> Stop \cup {NoStop}] /\ TableKept
         /\ \A c \in Code : Named(table[c]) => Named(table'[c])
         /\ \A c \in DOMAIN jobs[i] : Named(jobs[i][c]) => Named(table'[c])
         /\ \A c \in Code : Named(table'[c]) =>
              Named(table[c]) \/ (c \in DOMAIN jobs[i] /\ Named(jobs[i][c]))
<1>. USE NullsNoStops, NameIsField
<1>. DEFINE row(c) == IF c \notin DOMAIN jobs[i] THEN table[c]
                      ELSE IF table[c] = NoStop THEN jobs[i][c] ELSE Upserted(table[c], jobs[i][c])
<1>1. table' = [c \in Code |-> row(c)]
  BY DEF Commit
<1>2. jobs[i] \in Batch
  BY ElementOfSeq, LenProperties DEF Stores
<1>3. ASSUME NEW c \in Code
      PROVE  /\ row(c) \in Stop \cup {NoStop}
             /\ table[c] # NoStop => row(c) # NoStop
             /\ table[c] # NoStop => \A f \in Field : table[c][f] = Known =>
                  \/ row(c)[f] = Known
                  \/ (f \in Coordinate /\ row(c)[f] = Zero /\ c \in DOMAIN jobs[i] /\ jobs[i][c][f] = Zero)
             /\ c \in DOMAIN jobs[i] /\ Named(jobs[i][c]) => Named(row(c))
             /\ Named(table[c]) => Named(row(c))
             /\ Named(row(c)) => Named(table[c]) \/ (c \in DOMAIN jobs[i] /\ Named(jobs[i][c]))
  <2>1. table[c] \in Stop \cup {NoStop}
    BY DEF Stores
  <2>2. CASE c \notin DOMAIN jobs[i] \/ table[c] = NoStop
    BY <1>2, <2>1, <2>2, BatchShape DEF Named
  <2>3. CASE c \in DOMAIN jobs[i] /\ table[c] # NoStop
    <3>. DEFINE e == Filled(jobs[i][c], table[c], Field)
    <3>1. row(c) = e /\ jobs[i][c] \in Stop /\ table[c] \in Stop
      BY <1>2, <2>1, <2>3, BatchShape DEF Upserted
    <3>2. /\ e \in Stop
          /\ \A f \in Field : jobs[i][c][f] # None => e[f] = jobs[i][c][f]
          /\ \A f \in Field \cap Field : table[c] # NoStop /\ table[c][f] # None => e[f] # None
      BY <3>1, FilledFacts
    <3>3. (Named(jobs[i][c]) => Named(e)) /\ (Named(table[c]) => Named(e))
      <4>1. "name" \in Field /\ e # NoStop
        BY <3>2, NullsNoStops, NameIsField
      <4>. HIDE DEF e
      <4>. QED
        BY <2>3, <3>1, <3>2, <4>1 DEF Named
    <3>4. Named(e) => Named(table[c]) \/ Named(jobs[i][c])
      BY <3>1 DEF Filled, Named
    <3>5. ASSUME NEW f \in Field, table[c][f] = Known
          PROVE  e[f] = Known \/ (f \in Coordinate /\ e[f] = Zero /\ jobs[i][c][f] = Zero)
      <4>1. e[f] = IF jobs[i][c][f] = None THEN table[c][f] ELSE jobs[i][c][f]
        BY <2>3, <3>1 DEF Filled
      <4>2. jobs[i][c][f] \in {None, Zero, Known} /\ (f \notin Coordinate => jobs[i][c][f] # Zero)
        BY <3>1 DEF Stop
      <4>. HIDE DEF e
      <4>. QED
        BY <3>5, <4>1, <4>2
    <3>. HIDE DEF e, row
    <3>. QED
      BY <2>3, <3>1, <3>2, <3>3, <3>4, <3>5
  <2>. QED
    BY <2>2, <2>3
<1>. HIDE DEF row
<1>4. table' \in [Code -> Stop \cup {NoStop}] /\ TableKept
  <2>1. \A c \in Code, f \in Field :
          c \in DOMAIN jobs[i] /\ jobs[i][c][f] = Zero => Zeroed(c, f)
    BY DEF Zeroed
  <2>. QED
    BY <1>1, <1>3, <2>1 DEF TableKept, Knows
<1>5. \A c \in Code : Named(table[c]) => Named(table'[c])
  BY <1>1, <1>3 DEF Named
<1>6. \A c \in DOMAIN jobs[i] : c \in Code
  BY <1>2, BatchShape
<1>. QED
  BY <1>1, <1>3, <1>4, <1>5, <1>6

\* A batch leaves the executor; the others wait on.
LEMMA LeaveStep ==
  ASSUME Stores, NEW i \in DOMAIN jobs, jobs' = RemoveAt(jobs, i)
  PROVE  /\ jobs' \in Seq(Batch)
         /\ \A c \in Code : Queued(c) => Queued(c)' \/ (c \in DOMAIN jobs[i] /\ Named(jobs[i][c]))
         /\ \A c \in Code : Queued(c)' => Queued(c)
<1>1. jobs \in Seq(Batch) /\ DOMAIN jobs = 1 .. Len(jobs) /\ i \in 1 .. Len(jobs)
  BY LenProperties DEF Stores
<1>2. jobs' \in Seq(Batch) /\ Range(jobs') = {jobs[j] : j \in (1 .. Len(jobs)) \ {i}}
  BY <1>1, RemoveAtRange
<1>3. ASSUME NEW c \in Code, Queued(c), ~(c \in DOMAIN jobs[i] /\ Named(jobs[i][c]))
      PROVE  Queued(c)'
  <2>1. PICK j \in DOMAIN jobs : c \in DOMAIN jobs[j] /\ Named(jobs[j][c])
    BY <1>3 DEF Queued
  <2>2. j # i
    BY <1>3, <2>1
  <2>3. jobs[j] \in Range(jobs')
    BY <1>1, <1>2, <2>1, <2>2
  <2>4. PICK k \in DOMAIN jobs' : jobs'[k] = jobs[j]
    BY <2>3 DEF Range
  <2>. QED
    BY <2>1, <2>4 DEF Queued
<1>4. ASSUME NEW c \in Code, Queued(c)' PROVE Queued(c)
  <2>1. PICK k \in DOMAIN jobs' : c \in DOMAIN jobs'[k] /\ Named(jobs'[k][c])
    BY <1>4 DEF Queued
  <2>2. jobs'[k] \in {jobs[j] : j \in (1 .. Len(jobs)) \ {i}}
    BY <1>2, <2>1 DEF Range
  <2>. QED
    BY <1>1, <2>1, <2>2 DEF Queued
<1>. QED
  BY <1>2, <1>3, <1>4

-----------------------------------------------------------------------------
(* The steps *)

\* how names move: what the dict learns is handed on or from the table, a commit stores
\* what leaves the backlog, and a loss is counted
Learned ==
  /\ \A c \in Code : Queued(c) => Queued(c)'
  /\ \A c \in Code : Named(stops'[c]) => Named(stops[c]) \/ Queued(c)' \/ Named(table[c])
  /\ table' = table /\ lost' = lost

Committed ==
  /\ \A c \in Code : Queued(c)' => Queued(c)
  /\ \A c \in Code : Queued(c) => Queued(c)' \/ Named(table'[c])
  /\ \A c \in Code : Named(table[c]) => Named(table'[c])
  /\ \A c \in Code : Named(table'[c]) => Named(table[c]) \/ Queued(c)
  /\ stops' = stops /\ lost' = lost

Lost ==
  /\ \/ stops' = stops /\ \A c \in Code : Queued(c)' => Queued(c)
     \/ \A c \in Code : ~Named(stops'[c]) /\ ~Queued(c)'
  /\ table' = table /\ lost' = lost + 1

Moved == Learned \/ Committed \/ Lost

\* The step is the end of a fetch of the catalogue.
Arrival == indexer = "fetch" /\ indexer' = "asleep"

Kept ==
  /\ Preserve /\ lost' = lost => StopsKept \/ (StopsRefreshed /\ Arrival)
  /\ TableKept /\ Moved

LEMMA TableStays == table' = table => TableKept
BY DEF TableKept

LEMMA StopsStay == stops' = stops => StopsKept
BY DEF StopsKept

LEMMA NamesStay == UNCHANGED <<stops, jobs, table, lost>> => Moved
BY DEF Moved, Learned, Queued

\* A handler that records a batch and ends its request keeps everything.
LEMMA RecordKeeps ==
  ASSUME IInv, NEW b \in Batch, RecordStops(b, TRUE),
         UNCHANGED <<indexer, preload, table, lost>>,
         request' = request \/ \E r \in Request : request' = [request EXCEPT ![r] = Idle]
  PROVE  IInv' /\ Kept
<1>. USE DEF IInv
<1>1. Stores' /\ Listed'
  BY RecordStep DEF Stores
<1>2. StopsKept
  BY RecordStep
<1>3. Requests'
  <2>1. request' \in [Request -> RequestType] /\ \A r \in Request : request'[r] \in {request[r], Idle}
    BY IdleType DEF Requests
  <2>. QED
    BY <1>2, <2>1, IdleType DEF Requests, StopsKept
<1>4. Pending' /\ Preloaded'
  <2>. SUFFICES ASSUME lost = 0, NEW c \in Code
                PROVE  Named(stops'[c]) => Named(table[c]) \/ Queued(c)'
    BY DEF Pending, Preloaded
  <2>. QED
    BY RecordStep DEF Pending
<1>5. Learned
  BY RecordStep DEF Learned
<1>. QED
  BY <1>1, <1>2, <1>3, <1>4, <1>5, TableStays DEF Kept, Moved

\* So does one whose answer is no stop, and one that moves on.
LEMMA RequestKeeps ==
  ASSUME IInv, UNCHANGED <<memoryVars, jobs, indexer, preload, table, lost>>, Requests'
  PROVE  IInv' /\ Kept
<1>1. Stores' /\ Listed' /\ Pending' /\ Preloaded'
  BY DEF IInv, memoryVars, Stores, Listed, Pending, Preloaded, Queued
<1>. QED
  BY <1>1, TableStays, StopsStay, NamesStay DEF IInv, Kept, memoryVars

\* The end of the detail handler.
LEMMA FinishKeeps ==
  ASSUME IInv, NEW r \in Request, request[r].st # "idle",
         NEW answer \in Stop \cup {NoStop, Error}, NEW active \in Stop \cup {NoStop},
         Finish(r, answer, active), UNCHANGED <<indexer, preload, table, lost>>
  PROVE  IInv' /\ Kept
<1>1. request' = [request EXCEPT ![r] = Idle]
  BY DEF Finish
<1>2. CASE answer \in Stop
  <2>. DEFINE b == [d \in {request[r].code} |-> Filled(answer, active, Field \ {"name"})]
  <2>1. b \in Batch
    BY <1>2, FilledFacts, OneStop DEF IInv, Requests
  <2>2. RecordStops(b, TRUE)
    BY <1>2 DEF Finish
  <2>. QED
    BY <1>1, <2>1, <2>2, RecordKeeps
<1>3. CASE answer \notin Stop
  <2>1. UNCHANGED <<memoryVars, jobs>>
    BY <1>3 DEF Finish
  <2>2. Requests'
    BY <1>1, <2>1, IdleType DEF IInv, Requests, memoryVars
  <2>. QED
    BY <2>1, <2>2, RequestKeeps
<1>. QED
  BY <1>2, <1>3

\* The steps of index_stops_forever.
LEMMA IndexerKeeps == IInv /\ IndexerStep => IInv' /\ Kept
<1>. SUFFICES ASSUME IInv, IndexerStep PROVE IInv' /\ Kept
  OBVIOUS
<1>. USE NullsNoStops
<1>0. Stores /\ Requests /\ Listed /\ Pending /\ Preloaded
  BY DEF IInv
<1>1. ASSUME NEW ok \in BOOLEAN, PreloadRead(ok) PROVE IInv' /\ Kept
  <2>1. UNCHANGED <<memoryVars, request, jobs, table, lost>> /\ preload' \in {preload, table}
        /\ indexer' \in {"preload", "fetch"}
    BY <1>1 DEF PreloadRead
  <2>2. Stores' /\ Requests' /\ Listed' /\ Pending' /\ Preloaded'
    BY <1>0, <2>1 DEF Stores, Requests, Listed, Pending, Preloaded, Queued, memoryVars
  <2>. QED
    BY <2>1, <2>2, TableStays, StopsStay, NamesStay DEF IInv, Kept, memoryVars
<1>2. CASE PreloadRecord
  <2>. DEFINE S == {d \in Code : preload[d] # NoStop}
              b == [c \in S |-> preload[c]]
  <2>1. b \in Batch
    <3>1. S \in SUBSET Code /\ b \in [S -> Stop]
      BY <1>0 DEF Stores
    <3>. QED
      BY <3>1, BatchIntro
  <2>2. RecordStops(b, FALSE) /\ UNCHANGED <<request, table, lost>> /\ jobs' = jobs
        /\ indexer' = "fetch" /\ preload' = [c \in Code |-> NoStop]
    BY <1>2 DEF PreloadRecord, RecordStops
  <2>3. /\ stops' \in [Code -> Stop \cup {NoStop}] /\ index' \in [Code -> 0 .. 1]
        /\ updated' \in BOOLEAN /\ Listed' /\ StopsKept
        /\ \A c \in Code : Named(stops'[c]) => Named(stops[c]) \/ (c \in DOMAIN b /\ Named(b[c]))
    BY <1>0, <2>1, <2>2, RecordStep
  <2>4. Stores'
    BY <1>0, <2>2, <2>3 DEF Stores
  <2>5. Requests'
    BY <1>0, <2>2, <2>3 DEF Requests, StopsKept
  <2>6. \A c \in Code : Named(stops'[c]) => Named(stops[c]) \/ Named(table[c])
    BY <1>0, <2>3 DEF Preloaded
  <2>7. Pending' /\ Preloaded'
    BY <1>0, <2>2, <2>6 DEF Pending, Preloaded, Queued, Named
  <2>8. Learned
    BY <2>2, <2>6 DEF Learned, Queued
  <2>. QED
    BY <2>2, <2>3, <2>4, <2>5, <2>7, <2>8, TableStays DEF IInv, Kept, Moved
<1>3. ASSUME NEW b \in Catalogue, CatalogueOk(b) PROVE IInv' /\ Kept
  <2>. DEFINE S == {d \in DOMAIN b : Named(b[d])}
              named == [c \in S |-> b[c]]
  <2>1. b \in Batch /\ named \in Batch
    <3>1. b \in Batch
      BY DEF Catalogue
    <3>2. S \in SUBSET Code /\ named \in [S -> Stop]
      BY <3>1, BatchShape
    <3>. QED
      BY <3>1, <3>2, BatchIntro
  <2>2. /\ UpdateStopIndex(b) /\ Hand(named) /\ UNCHANGED <<preload, table, lost>>
        /\ Arrival /\ indexer' = "asleep"
    BY <1>3 DEF CatalogueOk, Arrival
  <2>3. /\ stops' \in [Code -> Stop \cup {NoStop}] /\ index' \in [Code -> 0 .. 1]
        /\ updated' \in BOOLEAN /\ Listed' /\ (Preserve => StopsRefreshed)
        /\ \A c \in Code : Named(stops'[c]) => Named(stops[c]) \/ (c \in DOMAIN b /\ Named(b[c]))
    BY <1>0, <2>2, CatalogueStep
  <2>4. /\ jobs' \in Seq(Batch)
        /\ \A c \in Code : Queued(c) => Queued(c)'
        /\ \A c \in DOMAIN b : Named(b[c]) => Queued(c)'
    <3>1. /\ jobs' \in Seq(Batch)
          /\ \A c \in Code : Queued(c) => Queued(c)'
          /\ \A c \in DOMAIN named : Named(named[c]) => Queued(c)'
      BY <1>0, <2>1, <2>2, HandStep DEF Stores
    <3>. QED
      BY <3>1
  <2>5. Stores'
    BY <1>0, <2>2, <2>3, <2>4 DEF Stores
  <2>6. Requests'
    <3>1. CASE Preserve
      <4>1. request' = request /\ StopsRefreshed
        BY <1>3, <2>3, <3>1 DEF CatalogueOk
      <4>. QED
        BY <1>0, <4>1 DEF Requests, StopsRefreshed
    <3>2. CASE ~Preserve
      <4>. DEFINE q(r) == IF request[r].live
                          THEN [request[r] EXCEPT !.live = FALSE, !.held = stops[request[r].code]]
                          ELSE request[r]
      <4>1. request' = [r \in Request |-> q(r)]
        BY <1>3, <3>2 DEF CatalogueOk
      <4>2. ASSUME NEW r \in Request
            PROVE  q(r) \in RequestType /\ ~q(r).live /\ q(r).st = request[r].st /\ q(r).code = request[r].code
        <5>1. CASE request[r].live
          <6>1. request[r] \in RequestType /\ stops[request[r].code] \in Stop \cup {NoStop}
            BY <1>0, <5>1 DEF Requests, Stores
          <6>2. q(r) = [request[r] EXCEPT !.live = FALSE, !.held = stops[request[r].code]]
            BY <5>1
          <6>. QED
            BY <6>1, <6>2 DEF RequestType
        <5>2. CASE ~request[r].live
          BY <1>0, <5>2 DEF Requests
        <5>. QED
          BY <5>1, <5>2
      <4>. HIDE DEF q
      <4>. QED
        BY <1>0, <4>1, <4>2 DEF Requests
    <3>. QED
      BY <3>1, <3>2
  <2>7. Pending' /\ Preloaded'
    BY <1>0, <2>2, <2>3, <2>4 DEF Pending, Preloaded
  <2>8. Learned
    BY <2>2, <2>3, <2>4 DEF Learned
  <2>. QED
    BY <2>2, <2>3, <2>5, <2>6, <2>7, <2>8, TableStays DEF IInv, Kept, Moved
<1>4. CASE CatalogueFail \/ IndexerWakes
  <2>1. UNCHANGED <<memoryVars, preload, request, jobs, table, lost>> /\ indexer' \in {"fetch", "asleep"}
    BY <1>4 DEF CatalogueFail, IndexerWakes
  <2>2. Stores' /\ Requests' /\ Listed' /\ Pending' /\ Preloaded'
    BY <1>0, <2>1 DEF Stores, Requests, Listed, Pending, Preloaded, Queued, memoryVars
  <2>. QED
    BY <2>1, <2>2, TableStays, StopsStay, NamesStay DEF IInv, Kept, memoryVars
<1>. QED
  BY <1>1, <1>2, <1>3, <1>4 DEF IndexerStep

\* The steps of the executor, and the end of the process.
LEMMA ExecutorKeeps ==
  IInv /\ (CommitSome \/ (\E i \in DOMAIN jobs : CommitFails(i)) \/ Restart) => IInv' /\ Kept
<1>. SUFFICES ASSUME IInv, CommitSome \/ (\E i \in DOMAIN jobs : CommitFails(i)) \/ Restart
              PROVE  IInv' /\ Kept
  OBVIOUS
<1>0. Stores /\ Requests /\ Listed /\ Pending /\ Preloaded
  BY DEF IInv
<1>1. ASSUME NEW i \in DOMAIN jobs, Commit(i) PROVE IInv' /\ Kept
  <2>1. UNCHANGED <<memoryVars, indexer, preload, request, lost>> /\ jobs' = RemoveAt(jobs, i)
    BY <1>1 DEF Commit
  <2>2. /\ table' \in [Code -> Stop \cup {NoStop}] /\ TableKept
        /\ \A c \in Code : Named(table[c]) => Named(table'[c])
        /\ \A c \in DOMAIN jobs[i] : Named(jobs[i][c]) => Named(table'[c])
        /\ \A c \in Code : Named(table'[c]) =>
             Named(table[c]) \/ (c \in DOMAIN jobs[i] /\ Named(jobs[i][c]))
    BY <1>0, <1>1, CommitStep
  <2>3. /\ jobs' \in Seq(Batch)
        /\ \A c \in Code : Queued(c) => Queued(c)' \/ (c \in DOMAIN jobs[i] /\ Named(jobs[i][c]))
        /\ \A c \in Code : Queued(c)' => Queued(c)
    BY <1>0, <2>1, LeaveStep
  <2>4. Stores' /\ Requests' /\ Listed'
    BY <1>0, <2>1, <2>2, <2>3 DEF Stores, Requests, Listed, memoryVars
  <2>5. Pending' /\ Preloaded'
    BY <1>0, <2>1, <2>2, <2>3 DEF Pending, Preloaded, memoryVars
  <2>6. \A c \in DOMAIN jobs[i] : Named(jobs[i][c]) => Queued(c)
    BY DEF Queued
  <2>7. Committed
    BY <2>1, <2>2, <2>3, <2>6 DEF Committed, memoryVars
  <2>. QED
    BY <2>1, <2>2, <2>4, <2>5, <2>7, StopsStay DEF IInv, Kept, Moved, memoryVars
<1>2. ASSUME NEW i \in DOMAIN jobs, CommitFails(i) PROVE IInv' /\ Kept
  <2>1. /\ UNCHANGED <<memoryVars, indexer, preload, request, table>>
        /\ jobs' = RemoveAt(jobs, i) /\ lost < MaxLost /\ lost' = lost + 1
    BY <1>2 DEF CommitFails
  <2>2. jobs' \in Seq(Batch) /\ \A c \in Code : Queued(c)' => Queued(c)
    BY <1>0, <2>1, LeaveStep
  <2>3. lost' \in 0 .. MaxLost /\ lost' # 0
    BY <1>0, <2>1, BoundsAssumption DEF Stores
  <2>4. Stores' /\ Requests' /\ Listed' /\ Pending' /\ Preloaded'
    BY <1>0, <2>1, <2>2, <2>3 DEF Stores, Requests, Listed, Pending, Preloaded, memoryVars
  <2>5. Lost
    BY <2>1, <2>2 DEF Lost, memoryVars
  <2>. QED
    BY <2>1, <2>4, <2>5, TableStays, StopsStay DEF IInv, Kept, Moved, memoryVars
<1>3. CASE Restart
  <2>1. lost' \in 0 .. MaxLost /\ lost' # 0 /\ lost' # lost /\ table' = table
    BY <1>0, <1>3, BoundsAssumption DEF Stores, Restart
  <2>2. Stores'
    <3>1. <<>> \in Seq(Batch)
      BY EmptySeq
    <3>2. jobs' \in Seq(Batch) /\ index' \in [Code -> 0 .. 1]
      BY <1>3, <3>1 DEF Restart
    <3>3. stops' \in [Code -> Stop \cup {NoStop}] /\ preload' \in [Code -> Stop \cup {NoStop}]
      BY <1>3 DEF Restart
    <3>. QED
      BY <1>0, <1>3, <2>1, <3>2, <3>3 DEF Stores, Restart
  <2>3. Requests' /\ Listed' /\ Pending' /\ Preloaded'
    BY <1>0, <1>3, <2>1, IdleType DEF Restart, Requests, Listed, Located, Pending, Preloaded, Named
  <2>4. Lost
    BY <1>3 DEF Restart, Lost, Named, Queued
  <2>. QED
    BY <2>1, <2>2, <2>3, <2>4, TableStays DEF IInv, Kept, Moved
<1>. QED
  BY <1>1, <1>2, <1>3 DEF CommitSome

\* Every step keeps the invariant, and what is known.
LEMMA Step == IInv /\ [Next]_vars => IInv' /\ [Kept]_vars
<1>. SUFFICES ASSUME IInv, [Next]_vars PROVE IInv' /\ [Kept]_vars
  OBVIOUS
<1>0. Stores /\ Requests
  BY DEF IInv
<1>1. ASSUME NEW b \in Batch, RecordRouteStops(b) PROVE IInv' /\ Kept
  BY <1>1, RecordKeeps DEF RecordRouteStops
<1>2. ASSUME NEW c \in Code, NEW s \in Stop, RecordFound(c, s) PROVE IInv' /\ Kept
  <2>1. stops[c] \in Stop \cup {NoStop}
    BY <1>0 DEF Stores
  <2>2. [d \in {c} |-> Filled(s, stops[c], Field \ {"name"})] \in Batch
    BY <2>1, FilledFacts, OneStop
  <2>. QED
    BY <1>2, <2>2, RecordKeeps DEF RecordFound
<1>3. ASSUME NEW c \in Code, NEW s \in Infos, RecordInfo(c, s) PROVE IInv' /\ Kept
  <2>1. [d \in {c} |-> s] \in Batch
    BY OneStop DEF Infos
  <2>. QED
    BY <1>3, <2>1, RecordKeeps DEF RecordInfo
<1>4. ASSUME NEW r \in Request, NEW c \in Code, DetailAsk(r, c) PROVE IInv' /\ Kept
  <2>1. UNCHANGED <<memoryVars, indexer, preload, jobs, table, lost>>
    BY <1>4 DEF DetailAsk
  <2>. DEFINE q == [st |-> "upstream", code |-> c, live |-> stops[c] # NoStop,
                    held |-> NoStop, got |-> NoStop]
  <2>2. request' = [request EXCEPT ![r] = q]
    BY <1>4 DEF DetailAsk
  <2>3. q \in RequestType /\ q.st # "idle" /\ q.code = c /\ (q.live => stops[c] # NoStop)
    BY DEF RequestType
  <2>. HIDE DEF q
  <2>4. Requests'
    BY <1>0, <2>1, <2>2, <2>3 DEF Requests, memoryVars
  <2>. QED
    BY <2>1, <2>4, RequestKeeps
<1>5. ASSUME NEW r \in Request, NEW chosen \in Answers, DetailAnswered(r, chosen) PROVE IInv' /\ Kept
  <2>. DEFINE answer == WithCoordinates(request[r].code, chosen)
  <2>1. /\ request[r].st = "upstream" /\ request[r].code \in Code
        /\ UNCHANGED <<indexer, preload, table, lost>>
    BY <1>0, <1>5 DEF DetailAnswered, Requests
  <2>2. answer \in Stop \cup {NoStop, Error} /\ Cached(r) \in Stop \cup {NoStop}
    BY <1>0, <2>1, AnswerShape, WithCoordinatesShape, CachedShape
  <2>3. CASE Cached(r) # NoStop
    <3>1. Finish(r, answer, Cached(r))
      BY <1>5, <2>3 DEF DetailAnswered
    <3>. HIDE DEF answer
    <3>. QED
      BY <2>1, <2>2, <3>1, FinishKeeps
  <2>4. CASE Cached(r) = NoStop
    <3>1. /\ request' = [request EXCEPT ![r].st = "table", ![r].got = answer]
          /\ UNCHANGED <<memoryVars, jobs>>
      BY <1>5, <2>4 DEF DetailAnswered
    <3>. HIDE DEF answer
    <3>2. Requests'
      BY <1>0, <2>1, <2>2, <3>1 DEF Requests, RequestType, memoryVars
    <3>. QED
      BY <2>1, <3>1, <3>2, RequestKeeps
  <2>. QED
    BY <2>3, <2>4
<1>6. ASSUME NEW r \in Request, DetailFromTable(r) PROVE IInv' /\ Kept
  <2>1. /\ request[r].st = "table" /\ request[r].code \in Code
        /\ request[r].got \in Stop \cup {NoStop, Error}
        /\ Finish(r, request[r].got, table[request[r].code])
        /\ UNCHANGED <<indexer, preload, table, lost>>
    BY <1>0, <1>6 DEF DetailFromTable, Requests, RequestType
  <2>2. table[request[r].code] \in Stop \cup {NoStop}
    BY <1>0, <2>1 DEF Stores
  <2>. QED
    BY <2>1, <2>2, FinishKeeps
<1>7. CASE UNCHANGED vars
  <2>1. Requests'
    BY <1>0, <1>7 DEF vars, memoryVars, Requests
  <2>. QED
    BY <1>7, <2>1, RequestKeeps DEF vars
<1>. QED
  BY <1>1, <1>2, <1>3, <1>4, <1>5, <1>6, <1>7, IndexerKeeps, ExecutorKeeps DEF Next, RequestStep

-----------------------------------------------------------------------------
(* The theorems *)

LEMMA InitIInv == Init => IInv
<1>. SUFFICES ASSUME Init PROVE IInv
  OBVIOUS
<1>1. Stores
  <2>1. <<>> \in Seq(Batch)
    BY EmptySeq
  <2>2. jobs \in Seq(Batch) /\ index \in [Code -> 0 .. 1]
    BY <2>1 DEF Init
  <2>3. {stops, preload, table} \subseteq [Code -> Stop \cup {NoStop}]
    BY DEF Init
  <2>4. lost \in 0 .. MaxLost
    <3>1. lost = 0
      BY DEF Init
    <3>. QED
      BY <3>1, BoundsAssumption
  <2>5. updated \in BOOLEAN /\ indexer = "start"
    BY DEF Init
  <2>. QED
    BY <2>2, <2>3, <2>4, <2>5 DEF Stores
<1>2. Requests /\ Listed /\ Pending /\ Preloaded
  BY IdleType DEF Init, Requests, Listed, Located, Pending, Preloaded, Named
<1>. QED
  BY <1>1, <1>2 DEF IInv

\* The invariant that the properties below follow from is inductive.
THEOREM Inductive == Spec => []IInv
BY InitIInv, Step, PTL DEF Spec

\* Every variable of the stop store stays in its domain.
THEOREM TypeCorrect == Spec => []TypeOK
<1>1. IInv => TypeOK
  BY DEF IInv, Stores, Requests, RequestType, TypeOK
<1>. QED
  BY <1>1, Inductive, PTL

\* The list of located stops and the dict agree, whichever sources report a stop and
\* in whichever order (deps.py:463, 520-535): each located stop once, and no other.
THEOREM IndexAndDictAgree == Spec => []IndexAgrees
<1>1. IInv => IndexAgrees
  <2>1. IInv => TypeOK
    BY DEF IInv, Stores, Requests, RequestType, TypeOK
  <2>. QED
    BY <2>1 DEF IInv, Listed, IndexAgrees
<1>. QED
  BY <1>1, Inductive, PTL

\* Once there is an index no source takes back a fact that is known in memory, nor a batch
\* one of the table, unless it is a coordinate and the source says 0.0 (deps.py:443-456,
\* 510-521, stop_cache.py:236-240).
THEOREM FactsAccumulate == Spec => FactsKept
<1>1. [Kept]_vars =>
        [\A c \in Code, f \in Field :
           /\ Preserve /\ Knows(stops[c], f) /\ f # "name" /\ lost' = lost
                => \/ Knows(stops'[c], f)
                   \/ /\ f \in Coordinate /\ stops'[c][f] = Zero
                      /\ indexer = "fetch" /\ indexer' = "asleep"
           /\ Knows(table[c], f)
                => \/ Knows(table'[c], f)
                   \/ (f \in Coordinate /\ table'[c][f] = Zero /\ Zeroed(c, f))]_vars
  <2>. SUFFICES ASSUME Kept, NEW c \in Code, NEW f \in Field
                PROVE  /\ Preserve /\ Knows(stops[c], f) /\ f # "name" /\ lost' = lost
                            => \/ Knows(stops'[c], f)
                               \/ /\ f \in Coordinate /\ stops'[c][f] = Zero
                                  /\ indexer = "fetch" /\ indexer' = "asleep"
                       /\ Knows(table[c], f)
                            => \/ Knows(table'[c], f)
                               \/ (f \in Coordinate /\ table'[c][f] = Zero /\ Zeroed(c, f))
    OBVIOUS
  <2>1. StopsKept /\ Knows(stops[c], f) => Knows(stops'[c], f)
    BY DEF StopsKept, Knows
  <2>2. StopsRefreshed /\ Knows(stops[c], f) /\ f # "name" =>
          Knows(stops'[c], f) \/ (f \in Coordinate /\ stops'[c][f] = Zero)
    BY DEF StopsRefreshed, Knows
  <2>. QED
    BY <2>1, <2>2 DEF Kept, TableKept, Arrival
<1>. QED
  BY <1>1, Inductive, Step, PTL DEF Spec, FactsKept

\* When the executor has caught up and lost nothing, every stop known by name has a
\* named row, whatever the order of the batches and wherever a name came from.
THEOREM NamesReachTheTable == Spec => []NamesSaved
<1>1. IInv => NamesSaved
  <2>. SUFFICES ASSUME Pending, jobs = <<>>, lost = 0, NEW c \in Code, Named(stops[c])
                PROVE  Named(table[c])
    BY DEF IInv, NamesSaved
  <2>1. ~Queued(c)
    BY DEF Queued
  <2>. QED
    BY <2>1 DEF Pending
<1>. QED
  BY <1>1, Inductive, PTL

\* The stop store implements WriteBehind: over any backlog, any order of commits, lost
\* batches and restarts, the dict names no stop that the table will not name unless a
\* batch is lost (deps.py:543-552, stop_cache.py:181-246, stop_indexer.py:26-41).
THEOREM Refinement == Spec => ImplementsWriteBehind
<1>1. Init => Promise!Init
  BY DEF Init, Promise!Init, Named, Queued
<1>2. [Kept]_vars => [Promise!Next]_(Promise!vars)
  <2>1. Learned => Promise!Learn
    BY DEF Learned, Promise!Learn
  <2>2. ASSUME Committed PROVE Promise!Commit
    <3>. DEFINE stored == {c \in Code : Queued(c) /\ Named(table'[c])}
    <3>1. stored \in SUBSET {c \in Code : Queued(c)}
      OBVIOUS
    <3>2. {c \in Code : Queued(c)} \ {c \in Code : Queued(c)'} \subseteq stored
      BY <2>2 DEF Committed
    <3>3. {c \in Code : Named(table'[c])} = {c \in Code : Named(table[c])} \cup stored
      BY <2>2 DEF Committed
    <3>. HIDE DEF stored
    <3>. QED
      BY <2>2, <3>1, <3>2, <3>3 DEF Committed, Promise!Commit
  <2>3. Lost => Promise!Lose \/ Promise!Restart
    BY DEF Lost, Promise!Lose, Promise!Restart
  <2>4. UNCHANGED vars => UNCHANGED Promise!vars
    BY DEF vars, memoryVars, Promise!vars, Queued
  <2>. QED
    BY <2>1, <2>2, <2>3, <2>4 DEF Kept, Moved, Promise!Next
<1>. QED
  BY <1>1, <1>2, Inductive, Step, PTL DEF Spec, ImplementsWriteBehind, Promise!Spec

=============================================================================
