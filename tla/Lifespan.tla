------------------------------- MODULE Lifespan -------------------------------
(***************************************************************************)
(* The background tasks of app/main.py and their shutdown, composed with   *)
(* FleetRefresh: sweep_forever (cache.py), notice_poll_loop                *)
(* (notice_poller.py) and index_stops_forever (stop_indexer.py) beside the *)
(* fleet refresher.                                                        *)
(*                                                                         *)
(* lifespan cancels the tasks one after the other and awaits each.  A      *)
(* cancellation lands where the task is suspended: before its first step,  *)
(* in its upstream call or in its sleep.  The server has finished its      *)
(* requests by then; their background fetches are left to FleetRefresh.    *)
(***************************************************************************)
EXTENDS FleetRefresh

Poller == {"cache_sweeper", "notice_poller", "stop_indexer"}

VARIABLES
  poller,  \* where each task is
  told,    \* the tasks that have been cancelled
  stored   \* the tasks that have stored what they fetch

lifeVars == <<poller, told, stored>>
allVars  == <<vars, lifeVars>>

Goes(p, to) == poller' = [poller EXCEPT ![p] = to]

\* a task takes its first step; the sweeper sleeps first, the indexer preloads its table
Begins(p) ==
  /\ poller[p] = "created" /\ p \notin told
  /\ Goes(p, CASE p = "cache_sweeper" -> "sleeping" [] p = "notice_poller" -> "calling"
               [] OTHER -> "preloading")
  /\ UNCHANGED <<vars, told, stored>>

\* the preload ends, well or not
Preloaded ==
  /\ poller["stop_indexer"] = "preloading" /\ "stop_indexer" \notin told
  /\ Goes("stop_indexer", "calling")
  /\ UNCHANGED <<vars, told, stored>>

\* the upstream call returns, the answer is stored
Worked(p) ==
  /\ poller[p] = "calling" /\ p \notin told
  /\ Goes(p, "sleeping")
  /\ stored' = stored \cup {p}
  /\ UNCHANGED <<vars, told>>

\* Faulty variant of Failed: the exception leaves the loop.
FailedEnds(p) ==
  /\ poller[p] = "calling" /\ p \notin told
  /\ Goes(p, "ended")
  /\ UNCHANGED <<vars, told, stored>>

\* it fails: the task logs it and sleeps
Failed(p) ==
  /\ poller[p] = "calling" /\ p \notin told
  /\ Goes(p, "sleeping")
  /\ UNCHANGED <<vars, told, stored>>

\* the sleep is over; the sweeper has nothing to await
Wakes(p) ==
  /\ poller[p] = "sleeping" /\ p \notin told
  /\ Goes(p, IF p = "cache_sweeper" THEN "sleeping" ELSE "calling")
  /\ UNCHANGED <<vars, told, stored>>

-----------------------------------------------------------------------------
(* Shutdown *)

\* Faulty variant of Gone: a cancelled task is not awaited.
GoneUnawaited(p) == p \in told

\* `await task` has returned
Gone(p) == p \in told /\ poller[p] = "ended"

\* the tasks are cancelled in this order, with the fleet refresher after the second
Turn(p) ==
  CASE p = "cache_sweeper" -> stage = "up"
    [] p = "notice_poller" -> stage = "up" /\ Gone("cache_sweeper")
    [] p = "stop_indexer"  -> stage = "stopping"

\* task.cancel()
Cancel(p) ==
  /\ Turn(p) /\ p \notin told
  /\ told' = told \cup {p}
  /\ UNCHANGED <<vars, poller, stored>>

\* Faulty variant of Lands: a cancellation of the call is taken for its failure.
LandsAsFailure(p) ==
  /\ p \in told
  /\ IF poller[p] = "calling" THEN Goes(p, "sleeping") /\ told' = told \ {p}
     ELSE poller[p] # "ended" /\ Goes(p, "ended") /\ UNCHANGED told
  /\ UNCHANGED <<vars, stored>>

\* the cancellation reaches the task: it raises out of every suspension, but the notice
\* poller returns when it was calling
Lands(p) ==
  /\ p \in told /\ poller[p] # "ended"
  /\ Goes(p, "ended")
  /\ UNCHANGED <<vars, told, stored>>

\* the rest of lifespan: the fleet refresher, its task, the session and connections
Rest ==
  /\ \/ Gone("notice_poller") /\ StopPoller
     \/ Gone("stop_indexer") /\ CancelRefresh
     \/ CancelReturns \/ Close
  /\ UNCHANGED lifeVars

-----------------------------------------------------------------------------
LifeInit ==
  /\ Init
  /\ poller = [p \in Poller |-> "created"] /\ told = {} /\ stored = {}

\* requests end before the shutdown begins; the refresher and its tasks go on
Fleet ==
  /\ \/ told = {} /\ (GetFleet \/ PostRefresh)
     \/ Poll \/ Tick \/ Move \/ \E t \in Task : TaskStart(t) \/ TaskEnds(t)
  /\ UNCHANGED lifeVars

Loop(p) == Begins(p) \/ Worked(p) \/ Failed(p) \/ Wakes(p)

LifeNext ==
  \/ Fleet \/ Preloaded \/ Rest
  \/ \E p \in Poller : Loop(p) \/ Cancel(p) \/ Lands(p)

\* The loop runs what is ready, calls and sleeps end and a shutdown that has begun goes on.
LifeSpec ==
  /\ LifeInit /\ [][LifeNext]_allVars
  /\ WF_allVars(Preloaded) /\ WF_allVars(Rest)
  /\ \A p \in Poller :
       /\ WF_allVars(Loop(p)) /\ WF_allVars(Lands(p))
       /\ WF_allVars(told # {} /\ Cancel(p))

-----------------------------------------------------------------------------
(* Properties *)

\* "HTTP session and database connections closed" (main.py:165): when they are, nothing
\* that lifespan or the refresher has started is left to use them, wherever the shutdown
\* found it.
QuietWhenClosed ==
  stage = "closed" => Running = {} /\ \A p \in Poller : poller[p] = "ended"

\* A shutdown that has begun ends: every task takes its cancellation for one, in its
\* call, in its sleep and before its first step (main.py:137-157, notice_poller.py:34-36,
\* stop_indexer.py:46-48).
ShutdownEnds == told # {} ~> stage = "closed"

\* A round that fails does not end a poller: once its calls stop failing, notices and
\* stops are stored (notice_poller.py:37-38, stop_indexer.py:42-52).
PollersGoOn ==
  <>[](told = {}) /\ <>[][\A p \in Poller : ~Failed(p)]_allVars
    => <>[](stored = Poller \ {"cache_sweeper"})

=============================================================================
