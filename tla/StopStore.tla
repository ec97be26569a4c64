------------------------------ MODULE StopStore ------------------------------
(***************************************************************************)
(* What the service knows about stops: the dict and the located list of    *)
(* app/deps.py, the SQLite table of app/services/stop_cache.py, the daily  *)
(* catalogue of app/services/stop_indexer.py and the endpoints of          *)
(* app/routers/stops.py and routes.py that record what they see.           *)
(*                                                                         *)
(* The merges await nothing, so each is one action; the executor commits   *)
(* the batches it was handed in any order.  A stop is the facts known      *)
(* about it.  A coordinate is unknown, the real one, or 0.0, which SOAP    *)
(* reports and the Mobiett parser puts where upstream gives none.          *)
(***************************************************************************)
EXTENDS Integers, Sequences, SequencesExt

CONSTANTS
  Code,       \* stop codes
  Field,      \* the facts told apart; MC modules may leave some out
  Request,    \* GET /v1/stops/{code} in progress
  MaxJobs,    \* bound: batches waiting for the executor
  MaxLost,    \* bound: batches that fail, and restarts
  NoStop,     \* no entry
  Error       \* an upstream call that raised

None  == "none"
Zero  == "zero"
Known == "known"

Coordinate == {"lat", "lon"}
Descriptive == Field \ ({"name"} \cup Coordinate)   \* district, direction

ASSUME FieldAssumption == {"name"} \cup Coordinate \subseteq Field
ASSUME NullsAssumption ==
  /\ NoStop # Error
  /\ {NoStop, Error} \cap [Field -> {None, Zero, Known}] = {}
ASSUME BoundsAssumption == MaxJobs \in Nat /\ MaxLost \in Nat

Stop == {s \in [Field -> {None, Zero, Known}] : \A f \in Field \ Coordinate : s[f] # Zero}
Batch == UNION {[S -> Stop] : S \in SUBSET Code}

VARIABLES
  stops,      \* _stop_by_code
  index,      \* how often each code is in _stop_index
  updated,    \* _stop_index_updated_at is not None
  indexer,    \* where index_stops_forever is
  preload,    \* rows read by its thread
  request,    \* the detail requests
  jobs,       \* upsert_stops_batch calls handed to the executor
  table,      \* stop_cache, the SQLite table
  lost        \* failures and restarts so far

memoryVars == <<stops, index, updated>>
vars == <<memoryVars, indexer, preload, request, jobs, table, lost>>

-----------------------------------------------------------------------------
(* Merging *)

Located(s) == s # NoStop /\ \A f \in Coordinate : s[f] # None
Named(s)   == s # NoStop /\ s["name"] # None

\* the facts of s, completed from t in the fields F
Filled(s, t, F) ==
  IF t = NoStop THEN s
  ELSE [f \in Field |-> IF s[f] = None /\ f \in F THEN t[f] ELSE s[f]]

\* Faulty variant of Refreshed: dict.update alone.
RefreshedBlindly(old, new) == new

\* a stop of the catalogue over the entry there is: only a missing district or
\* direction is taken from the entry
Refreshed(old, new) == Filled(new, old, Descriptive)

\* Faulty variant of Upserted: INSERT OR REPLACE.
UpsertedWhole(row, item) == item

\* ON CONFLICT DO UPDATE with COALESCE
Upserted(row, item) == Filled(item, row, Field)

\* the entry of c after record_stops_batch(batch)
Recorded(c, batch) ==
  IF c \notin DOMAIN batch THEN stops[c]
  ELSE IF stops[c] = NoStop THEN batch[c] ELSE Filled(stops[c], batch[c], Field)

\* the rows it hands on: as they came, under the name already known
Rows(batch) ==
  LET row == [c \in DOMAIN batch |-> Filled(batch[c], stops[c], {"name"})]
  IN  [c \in {d \in DOMAIN batch : Named(row[d])} |-> row[c]]

\* Faulty variant of Hand: a batch is persisted with the stops that have a location.
HandLocated(rows) ==
  LET kept == {c \in DOMAIN rows : Located(rows[c])}
  IN  jobs' = IF kept = {} THEN jobs ELSE Append(jobs, [c \in kept |-> rows[c]])

\* run_in_executor, unless nothing is left to persist
Hand(rows) == jobs' = IF DOMAIN rows = {} THEN jobs ELSE Append(jobs, rows)

\* Faulty variant of NewlyLocated: also the stops that had a location.
NewlyLocatedAny(batch) == {c \in DOMAIN batch : Located(Recorded(c, batch))}

\* the codes that record_stops_batch adds to the index
NewlyLocated(batch) ==
  {c \in DOMAIN batch : ~Located(stops[c]) /\ Located(Recorded(c, batch))}

\* record_stops_batch
RecordStops(batch, persist) ==
  /\ stops' = [c \in Code |-> Recorded(c, batch)]
  /\ index' = [c \in Code |-> index[c] + IF c \in NewlyLocated(batch) THEN 1 ELSE 0]
  /\ updated' = (updated \/ NewlyLocated(batch) # {})
  /\ IF persist THEN Hand(Rows(batch)) ELSE UNCHANGED jobs

\* preserve_all: an index exists, or existed
Preserve == updated \/ \E c \in Code : index[c] > 0

\* update_stop_index(catalogue)
UpdateStopIndex(catalogue) ==
  LET entry(c) ==
        IF c \in DOMAIN catalogue
        THEN IF stops[c] = NoStop THEN catalogue[c] ELSE Refreshed(stops[c], catalogue[c])
        ELSE IF Preserve THEN stops[c] ELSE NoStop
  IN  /\ stops' = [c \in Code |-> entry(c)]
      /\ index' = [c \in Code |-> IF Located(entry(c)) THEN 1 ELSE 0]
      /\ updated' = TRUE

-----------------------------------------------------------------------------
(* index_stops_forever *)

Room == Len(jobs) < MaxJobs

\* the thread has read the table, or could not
PreloadRead(ok) ==
  /\ indexer = "start"
  /\ indexer' = IF ok THEN "preload" ELSE "fetch"
  /\ preload' = IF ok THEN table ELSE preload
  /\ UNCHANGED <<memoryVars, request, jobs, table, lost>>

\* back on the loop: the rows are recorded, not persisted again
PreloadRecord ==
  /\ indexer = "preload"
  /\ RecordStops([c \in {d \in Code : preload[d] # NoStop} |-> preload[c]], FALSE)
  /\ indexer' = "fetch"
  /\ preload' = [c \in Code |-> NoStop]
  /\ UNCHANGED <<request, table, lost>>

\* what parse_all_stops_json keeps has coordinates
Catalogue == {b \in Batch : \A c \in DOMAIN b : \A f \in Coordinate : b[c][f] # None}

\* the catalogue arrives: update_stop_index, then record_stops_batch, which
\* finds every stop up to date and hands on those with a name.  Requests that
\* hold an entry keep it, also when the dict has been replaced.
CatalogueOk(b) ==
  /\ indexer = "fetch" /\ Room
  /\ UpdateStopIndex(b)
  /\ Hand([c \in {d \in DOMAIN b : Named(b[d])} |-> b[c]])
  /\ indexer' = "asleep"
  /\ request' = IF Preserve THEN request
                ELSE [r \in Request |->
                        IF request[r].live THEN [request[r] EXCEPT !.live = FALSE,
                                                 !.held = stops[request[r].code]]
                        ELSE request[r]]
  /\ UNCHANGED <<preload, table, lost>>

\* any exception: sleep and try again
CatalogueFail ==
  /\ indexer = "fetch"
  /\ indexer' = "asleep"
  /\ UNCHANGED <<memoryVars, preload, request, jobs, table, lost>>

\* 60 seconds after a failure, a day after a success
IndexerWakes ==
  /\ indexer = "asleep"
  /\ indexer' = "fetch"
  /\ UNCHANGED <<memoryVars, preload, request, jobs, table, lost>>
-----------------------------------------------------------------------------
(* Endpoints that record what upstream answers *)

\* stops of a route, with whatever coordinates they come with or the index has, 0.0 included
RecordRouteStops(b) ==
  /\ Room
  /\ RecordStops(b, TRUE)
  /\ UNCHANGED <<indexer, preload, request, table, lost>>

\* nearby_stops keeps located stops; search_stops takes any.  Both add what the
\* memory knows of a stop before they record it.
RecordFound(c, found) ==
  /\ Room
  /\ RecordStops([d \in {c} |-> Filled(found, stops[c], Field \ {"name"})], TRUE)
  /\ UNCHANGED <<indexer, preload, request, table, lost>>

\* get_stop_info: a scraped district, without a name
RecordInfo(c, info) ==
  /\ Room
  /\ RecordStops([d \in {c} |-> info], TRUE)
  /\ UNCHANGED <<indexer, preload, request, table, lost>>

-----------------------------------------------------------------------------
(* get_stop_detail, of the client and of the router *)

Idle == [st |-> "idle", code |-> NoStop, live |-> FALSE, held |-> NoStop, got |-> NoStop]

\* the request reads cached_stop and calls upstream
DetailAsk(r, c) ==
  /\ request[r].st = "idle"
  /\ request' = [request EXCEPT ![r] = [st |-> "upstream", code |-> c,
                   live |-> stops[c] # NoStop, held |-> NoStop, got |-> NoStop]]
  /\ UNCHANGED <<memoryVars, indexer, preload, jobs, table, lost>>

Exact(s) == \A f \in Coordinate : s[f] = Known

\* SOAP is preferred unless only the JSON answer has coordinates
Chosen(soap, json) ==
  IF soap \in Stop THEN IF json \in Stop /\ Exact(json) /\ ~Exact(soap) THEN json ELSE soap
  ELSE IF json \in Stop THEN json
  ELSE IF soap = Error /\ json = Error THEN Error ELSE NoStop

\* get_stop_coords where the answer omits or zeroes a coordinate
WithCoordinates(c, answer) ==
  IF answer \in Stop /\ ~Exact(answer) /\ Located(stops[c])
  THEN [f \in Field |-> IF f \in Coordinate THEN stops[c][f] ELSE answer[f]]
  ELSE answer

\* what cached_stop refers to by now
Cached(r) == IF request[r].live THEN stops[request[r].code] ELSE request[r].held

\* the end of the handler: record the answer, or fall back
Finish(r, answer, active) ==
  /\ request' = [request EXCEPT ![r] = Idle]
  /\ IF answer \in Stop
     THEN /\ Room
          /\ RecordStops([d \in {request[r].code} |-> Filled(answer, active, Field \ {"name"})], TRUE)
     ELSE UNCHANGED <<memoryVars, jobs>>

\* SOAP and JSON have both ended; what of them has been chosen is returned
DetailAnswered(r, chosen) ==
  LET answer == WithCoordinates(request[r].code, chosen)
  IN  /\ request[r].st = "upstream"
      /\ IF Cached(r) # NoStop THEN Finish(r, answer, Cached(r))
         ELSE /\ request' = [request EXCEPT ![r].st = "table", ![r].got = answer]
              /\ UNCHANGED <<memoryVars, jobs>>
      /\ UNCHANGED <<indexer, preload, table, lost>>

\* without an entry in memory the row of the table is asked for, in a thread
DetailFromTable(r) ==
  /\ request[r].st = "table"
  /\ Finish(r, request[r].got, table[request[r].code])
  /\ UNCHANGED <<indexer, preload, table, lost>>

-----------------------------------------------------------------------------
(* The executor and the process *)

Commit(i) ==
  /\ table' = [c \in Code |->
       IF c \notin DOMAIN jobs[i] THEN table[c]
       ELSE IF table[c] = NoStop THEN jobs[i][c] ELSE Upserted(table[c], jobs[i][c])]
  /\ jobs' = RemoveAt(jobs, i)
  /\ UNCHANGED <<memoryVars, indexer, preload, request, lost>>

\* the exception of upsert_stops_batch is logged
CommitFails(i) ==
  /\ lost < MaxLost
  /\ lost' = lost + 1
  /\ jobs' = RemoveAt(jobs, i)
  /\ UNCHANGED <<memoryVars, indexer, preload, request, table>>

\* the process dies and starts again: only the table survives
Restart ==
  /\ lost < MaxLost
  /\ lost' = lost + 1
  /\ stops' = [c \in Code |-> NoStop]
  /\ index' = [c \in Code |-> 0]
  /\ updated' = FALSE
  /\ indexer' = "start"
  /\ preload' = [c \in Code |-> NoStop]
  /\ request' = [r \in Request |-> Idle]
  /\ jobs' = <<>>
  /\ UNCHANGED table

Init ==
  /\ stops = [c \in Code |-> NoStop]
  /\ index = [c \in Code |-> 0]
  /\ updated = FALSE
  /\ indexer = "start"
  /\ preload = [c \in Code |-> NoStop]
  /\ request = [r \in Request |-> Idle]
  /\ jobs = <<>>
  /\ table = [c \in Code |-> NoStop]
  /\ lost = 0

\* an answer of SOAP has a name; one of Mobiett has zeroes instead of missing coordinates
SoapAnswers == {s \in Stop : Named(s)} \cup {NoStop, Error}
JsonAnswers == {s \in Stop : \A f \in Coordinate : s[f] # None} \cup {NoStop, Error}
Answers == {Chosen(soap, json) : soap \in SoapAnswers, json \in JsonAnswers}
Infos == {s \in Stop : \A f \in Field : s[f] # None <=> f \in Descriptive}

IndexerStep ==
  \/ \E ok \in BOOLEAN : PreloadRead(ok)
  \/ PreloadRecord \/ (\E b \in Catalogue : CatalogueOk(b)) \/ CatalogueFail \/ IndexerWakes

RequestStep(r) ==
  \/ \E chosen \in Answers : DetailAnswered(r, chosen)
  \/ DetailFromTable(r)

CommitSome == \E i \in DOMAIN jobs : Commit(i)

Next ==
  \/ IndexerStep
  \/ \E b \in Batch : DOMAIN b # {} /\ RecordRouteStops(b)
  \/ \E c \in Code, s \in Stop : RecordFound(c, s)
  \/ \E c \in Code : \E s \in Infos : RecordInfo(c, s)
  \/ \E r \in Request : RequestStep(r) \/ \E c \in Code : DetailAsk(r, c)
  \/ CommitSome \/ (\E i \in DOMAIN jobs : CommitFails(i))
  \/ Restart

Spec == Init /\ [][Next]_vars

-----------------------------------------------------------------------------
(* Properties *)

\* Every variable stays in its domain.
TypeOK ==
  /\ {stops, preload, table} \subseteq [Code -> Stop \cup {NoStop}]
  /\ index \in [Code -> 0 .. 1]
  /\ updated \in BOOLEAN
  /\ indexer \in {"start", "preload", "fetch", "asleep"}
  /\ \A r \in Request :
       /\ request[r].st \in {"idle", "upstream", "table"}
       /\ {request[r].held, request[r].got} \subseteq Stop \cup {NoStop, Error}
       /\ request[r].live => stops[request[r].code] # NoStop
  /\ jobs \in Seq(Batch)
  /\ lost \in 0 .. MaxLost

\* The list that nearby_stops searches holds each located stop once and no other
\* (deps.py:463, 520-535): a stop that gets its coordinates from two sources, in two
\* steps or again from the catalogue is not listed twice.
IndexAgrees == TypeOK /\ \A c \in Code : index[c] = IF Located(stops[c]) THEN 1 ELSE 0

Knows(s, f) == s # NoStop /\ s[f] = Known

\* a batch on its way to the table has 0.0 for the coordinate f
Zeroed(c, f) == \E i \in DOMAIN jobs : c \in DOMAIN jobs[i] /\ jobs[i][c][f] = Zero

\* "non-destructively capture and accumulate stops" (README.md:170), as far as it goes:
\* once there is an index, no source takes back a coordinate, a district or a direction
\* that is known in memory, and no batch a fact that is known in the table.  The one
\* thing that does is a 0.0: from the catalogue in memory (deps.py:452), from any source
\* in the table (stop_cache.py:238), and it replaces coordinates only.
FactsKept ==
  [][\A c \in Code, f \in Field :
       /\ Preserve /\ Knows(stops[c], f) /\ f # "name" /\ lost' = lost
            => \/ Knows(stops'[c], f)
               \/ /\ f \in Coordinate /\ stops'[c][f] = Zero
                  /\ indexer = "fetch" /\ indexer' = "asleep"
       /\ Knows(table[c], f)
            => \/ Knows(table'[c], f)
               \/ (f \in Coordinate /\ table'[c][f] = Zero /\ Zeroed(c, f))]_vars

\* Stops accumulate "across restarts" (README.md:170): when the executor has caught up
\* and has lost nothing, every stop known by name has a named row.
NamesSaved ==
  jobs = <<>> /\ lost = 0 => \A c \in Code : Named(stops[c]) => Named(table[c])

-----------------------------------------------------------------------------
(* The names of stops are written behind *)

Queued(c) == \E i \in DOMAIN jobs : c \in DOMAIN jobs[i] /\ Named(jobs[i][c])

Promise == INSTANCE WriteBehind WITH
  Item <- Code,
  memory <- {c \in Code : Named(stops[c])},
  waiting <- {c \in Code : Queued(c)},
  table <- {c \in Code : Named(table[c])},
  losses <- lost

\* Stops accumulate "across restarts" (README.md:170): whatever names a stop, in one
\* answer, a catalogue that replaces the dict or a preload of old rows, the dict knows
\* no name that is neither in the table nor on its way there, and the table keeps it.
ImplementsWriteBehind == Promise!Spec

=============================================================================
