---------------------------- MODULE FleetRefresh ----------------------------
(***************************************************************************)
(* Who refreshes the fleet and when: ensure_fleet_fresh and                *)
(* cancel_fleet_refresh_task of app/deps.py, the tasks of                  *)
(* app/services/fleet_poller.py, the endpoints of app/routers/fleet.py,    *)
(* the partial updates of app/routers/routes.py and the shutdown of        *)
(* app/main.py.                                                            *)
(*                                                                         *)
(* ensure_fleet_fresh awaits nothing.  A refresh task suspends in the      *)
(* upstream call and in the thread that parses the response, and applies   *)
(* the snapshot in one go.  The fleet is one bus, at the number of its     *)
(* latest move that is known; FleetStore has what an update does to it.    *)
(***************************************************************************)
EXTENDS Integers, FiniteSets

CONSTANTS
  Task,        \* identities of refresh tasks; more than are alive at once
  Reader,      \* fetches of get_route_buses, requests or background refreshes
  MaxAge,      \* max_age_seconds of the endpoints
  FleetCacheMaxAge,  \* settings.fleet_cache_max_age
  MaxPeriodic,       \* MAX_PERIODIC_REFRESH_INTERVAL_SECONDS
  Cooldown,    \* settings.fleet_manual_refresh_cooldown
  MaxMoves,    \* bound: moves of the bus
  Empty,       \* a snapshot without the bus
  NoTask

Position == 0 .. MaxMoves

\* interval_seconds of refresh_fleet_forever, within 1 and MaxPeriodic
Interval ==
  IF FleetCacheMaxAge > MaxPeriodic THEN MaxPeriodic
  ELSE IF FleetCacheMaxAge < 1 THEN 1 ELSE FleetCacheMaxAge

ASSUME TasksAssumption == NoTask \notin Task /\ Empty \notin Position
ASSUME TimesAssumption ==
  {MaxAge, Cooldown, MaxMoves, FleetCacheMaxAge} \subseteq Nat /\ MaxPeriodic \in Nat \ {0}

VARIABLES
  refreshTask,  \* _fleet_refresh_task
  task,         \* the refresh tasks
  updated,      \* _fleet_updated_at_mono is not None
  age,          \* ... and how long ago it was set
  shown,        \* the position the fleet has for the bus, or Empty
  pollIn,       \* time to the next round of refresh_fleet_forever
  sinceManual,  \* age of _manual_refresh_last_triggered
  reader,       \* the fetches of get_route_buses
  stage,        \* how far lifespan has got
  world         \* the position of the bus upstream

storeVars == <<updated, age, shown>>
taskVars  == <<refreshTask, task>>
timeVars  == <<pollIn, sinceManual>>
vars == <<taskVars, storeVars, timeVars, reader, stage, world>>

-----------------------------------------------------------------------------
Active(t) == task[t].st \in {"created", "fetching", "parsing"}
Running   == {t \in Task : Active(t)}
Ended     == [st |-> "ended", read |-> 0]

\* Faulty variants of InFlight: a task that has ended still counts; none does.
InFlightEver == refreshTask # NoTask
InFlightNever == FALSE

\* a refresh is in flight as far as ensure_fleet_fresh can tell
InFlight == refreshTask # NoTask /\ Active(refreshTask)

\* ensure_fleet_fresh(max_age_seconds = limit)
EnsureFresh(limit) ==
  IF (updated /\ age < limit) \/ InFlight
  THEN UNCHANGED taskVars
  ELSE \E t \in Task \ Running :
         /\ task' = [task EXCEPT ![t] = [st |-> "created", read |-> 0]]
         /\ refreshTask' = t

\* any endpoint that shows the fleet
GetFleet ==
  /\ stage = "up"
  /\ EnsureFresh(MaxAge)
  /\ UNCHANGED <<storeVars, timeVars, reader, stage, world>>

\* POST /v1/fleet/refresh after its cooldown; within it nothing happens
PostRefresh ==
  /\ stage = "up"
  /\ sinceManual >= Cooldown
  /\ sinceManual' = 0
  /\ EnsureFresh(0)
  /\ UNCHANGED <<storeVars, pollIn, reader, stage, world>>

\* one round of refresh_fleet_forever
Poll ==
  /\ stage = "up" /\ pollIn = 0
  /\ pollIn' = Interval
  /\ EnsureFresh(0)
  /\ UNCHANGED <<storeVars, sinceManual, reader, stage, world>>

-----------------------------------------------------------------------------
(* refresh_fleet_once *)

Open == stage # "closed"   \* get_session() returns an open session

\* the task first runs: it calls upstream, or get_session() raises
TaskStart(t) ==
  /\ task[t].st = "created"
  /\ IF Open
     THEN task' = [task EXCEPT ![t] = [st |-> "fetching", read |-> world]]
     ELSE task' = [task EXCEPT ![t] = Ended]
  /\ UNCHANGED <<refreshTask, storeVars, timeVars, reader, stage, world>>

\* the response arrives; a malformed one parses to no bus at all
TaskResponse(t, p) ==
  /\ task[t].st = "fetching" /\ Open
  /\ p = Empty \/ p \in task[t].read .. world
  /\ task' = [task EXCEPT ![t] = [st |-> "parsing", read |-> p]]
  /\ UNCHANGED <<refreshTask, storeVars, timeVars, reader, stage, world>>

\* the upstream call fails
TaskFail(t) ==
  /\ task[t].st = "fetching"
  /\ task' = [task EXCEPT ![t] = Ended]
  /\ UNCHANGED <<refreshTask, storeVars, timeVars, reader, stage, world>>

\* the response is parsed: update_fleet with a full snapshot
TaskApply(t) ==
  /\ task[t].st = "parsing"
  /\ shown' = task[t].read
  /\ updated' = TRUE
  /\ age' = 0
  /\ task' = [task EXCEPT ![t] = Ended]
  /\ UNCHANGED <<refreshTask, timeVars, reader, stage, world>>

-----------------------------------------------------------------------------
(* get_route_buses.  Its fetcher also runs as a background refresh of the    *)
(* cache, which nothing cancels at shutdown.                                 *)

ReadStart(r) ==
  /\ reader[r].st = "idle" /\ stage = "up"
  /\ reader' = [reader EXCEPT ![r] = [st |-> "fetching", read |-> world]]
  /\ UNCHANGED <<taskVars, storeVars, timeVars, stage, world>>

\* the buses of the route arrive: update_fleet with a partial snapshot
ReadOk(r, p) ==
  /\ reader[r].st = "fetching" /\ Open
  /\ p \in reader[r].read .. world
  /\ shown' = p
  /\ reader' = [reader EXCEPT ![r] = [st |-> "idle", read |-> 0]]
  /\ UNCHANGED <<taskVars, updated, age, timeVars, stage, world>>

\* NTCAPI and SOAP both fail: serve from the fleet
ReadFallback(r) ==
  /\ reader[r].st = "fetching"
  /\ reader' = [reader EXCEPT ![r] = [st |-> "idle", read |-> 0]]
  /\ EnsureFresh(MaxAge)
  /\ UNCHANGED <<storeVars, timeVars, stage, world>>

-----------------------------------------------------------------------------
(* The shutdown of lifespan, once the server has finished its requests *)

\* the periodic refresher is cancelled
StopPoller ==
  /\ stage = "up"
  /\ stage' = "stopping"
  /\ UNCHANGED <<taskVars, storeVars, timeVars, reader, world>>

\* cancel_fleet_refresh_task: nothing to await, or task.cancel()
CancelRefresh ==
  /\ stage = "stopping"
  /\ IF InFlight
     THEN /\ task' = [task EXCEPT ![refreshTask] = Ended]
          /\ stage' = "awaiting"
          /\ UNCHANGED refreshTask
     ELSE /\ refreshTask' = NoTask
          /\ stage' = "cancelled"
          /\ UNCHANGED task
  /\ UNCHANGED <<storeVars, timeVars, reader, world>>

\* ... `await task` returns and the reference is dropped
CancelReturns ==
  /\ stage = "awaiting"
  /\ refreshTask' = NoTask
  /\ stage' = "cancelled"
  /\ UNCHANGED <<task, storeVars, timeVars, reader, world>>

\* close_session and the close_connection of both SQLite caches
Close ==
  /\ stage = "cancelled"
  /\ stage' = "closed"
  /\ UNCHANGED <<taskVars, storeVars, timeVars, reader, world>>

-----------------------------------------------------------------------------
\* the bus moves
Move ==
  /\ world < MaxMoves
  /\ world' = world + 1
  /\ UNCHANGED <<taskVars, storeVars, timeVars, reader, stage>>

Later(a, cap) == IF a < cap THEN a + 1 ELSE cap

\* one unit of time passes
Tick ==
  /\ age' = IF updated THEN Later(age, MaxAge) ELSE age
  /\ pollIn' = IF pollIn > 0 THEN pollIn - 1 ELSE 0
  /\ sinceManual' = Later(sinceManual, Cooldown)
  /\ UNCHANGED <<taskVars, updated, shown, reader, stage, world>>

Init ==
  /\ refreshTask = NoTask
  /\ task = [t \in Task |-> Ended]
  /\ updated = FALSE
  /\ age = 0
  /\ shown = Empty
  /\ pollIn = 0
  /\ sinceManual = Cooldown
  /\ reader = [r \in Reader |-> [st |-> "idle", read |-> 0]]
  /\ stage = "up"
  /\ world = 0

TaskEnds(t) ==
  TaskFail(t) \/ TaskApply(t) \/ \E p \in Position \cup {Empty} : TaskResponse(t, p)

Shutdown == StopPoller \/ CancelRefresh \/ CancelReturns \/ Close

Next ==
  \/ GetFleet \/ PostRefresh \/ Poll
  \/ \E t \in Task : TaskStart(t) \/ TaskEnds(t)
  \/ \E r \in Reader : ReadStart(r) \/ ReadFallback(r) \/ \E p \in Position : ReadOk(r, p)
  \/ Shutdown \/ Move \/ Tick

Spec == Init /\ [][Next]_vars

(***************************************************************************)
(* Time passes, the refresher wakes from its sleep, and a task runs until  *)
(* its upstream call, which has a timeout, and its parsing end.  Nothing   *)
(* is assumed of clients.                                                  *)
(***************************************************************************)
Fairness ==
  /\ WF_vars(Tick) /\ WF_vars(Poll)
  /\ \A t \in Task : WF_vars(TaskStart(t)) /\ WF_vars(TaskEnds(t))

FairSpec == Spec /\ Fairness

-----------------------------------------------------------------------------
(* Properties *)

\* Every variable stays in its domain.
TypeOK ==
  /\ refreshTask \in Task \cup {NoTask}
  /\ task \in [Task -> [st : {"created", "fetching", "parsing", "ended"},
                        read : Position \cup {Empty}]]
  /\ updated \in BOOLEAN
  /\ age \in 0 .. MaxAge
  /\ shown \in Position \cup {Empty}
  /\ pollIn \in 0 .. MaxPeriodic
  /\ sinceManual \in 0 .. Cooldown
  /\ reader \in [Reader -> [st : {"idle", "fetching"}, read : Position]]
  /\ stage \in {"up", "stopping", "awaiting", "cancelled", "closed"}
  /\ world \in Position

\* "at most one refresh task runs at a time" (deps.py:201) and it is the one that
\* shutdown will cancel: whichever of endpoints, refresher, manual refreshes and
\* route fallbacks started it, until shutdown cancels it.
OneRefresh == stage \in {"up", "stopping"} => \A t \in Task : Active(t) => t = refreshTask

\* Refreshes alone never take the bus back to an older position: no snapshot is
\* applied after a newer one (fleet_poller.py:15-16).
SnapshotsInOrder ==
  [][\A t \in Task : TaskApply(t) /\ {shown, shown'} \subseteq Position
       => shown' >= shown]_vars

\* "fleet is forcibly refreshed at least every 15 minutes" (fleet.py:68): once the
\* calls for it stop failing, snapshots keep being applied without a request of
\* anyone; no task that has ended blocks the next one.
SnapshotsKeepComing ==
  <>[](stage = "up") /\ <>[][\A t \in Task : ~TaskFail(t)]_vars
    => []<>(updated /\ age = 0)

=============================================================================
