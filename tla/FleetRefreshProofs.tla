------------------------- MODULE FleetRefreshProofs -------------------------
(***************************************************************************)
(* Proofs about FleetRefresh, for any number of refresh tasks and route    *)
(* fetches and any settings: type correctness, that one refresh runs at a  *)
(* time and, without route fetches, that snapshots are applied in order.   *)
(* Then about Lifespan, which composes it with the other background tasks: *)
(* its steps are steps of FleetRefresh, and it closes nothing in use.      *)
(***************************************************************************)
EXTENDS Lifespan, TLAPS

\* A task that reads the bus reads where it is or was.
Truthful ==
  /\ shown \in Position => shown <= world
  /\ \A t \in Task : Active(t) /\ task[t].read \in Position => task[t].read <= world
  /\ \A t \in Task : task[t].st = "fetching" => task[t].read \in Position

\* Without route fetches: no task but the registered one is alive and shutdown
\* ends it, and the snapshot it will apply is no older than the one that is shown.
InOrder ==
  /\ \A t \in Task : Active(t) => t = refreshTask /\ stage \in {"up", "stopping"}
  /\ \A t \in Task : task[t].st \in {"fetching", "parsing"}
       /\ {shown, task[t].read} \subseteq Position => shown <= task[t].read

IInv == TypeOK /\ OneRefresh

LEMMA IntervalType == Interval \in 1 .. MaxPeriodic
BY TimesAssumption DEF Interval

\* ensure_fleet_fresh keeps the types of the two variables it sets.
LEMMA EnsureTypes ==
  ASSUME TypeOK, NEW limit \in Nat, EnsureFresh(limit)
  PROVE  /\ refreshTask' \in Task \cup {NoTask}
         /\ task' \in [Task -> [st : {"created", "fetching", "parsing", "ended"},
                                read : Position \cup {Empty}]]
<1>. 0 \in Position
  BY TimesAssumption DEF Position
<1>. QED
  BY DEF EnsureFresh, TypeOK, taskVars

\* ensure_fleet_fresh starts a task only when the registered one has ended.
LEMMA EnsureOne ==
  ASSUME TypeOK, \A t \in Task : Active(t) => t = refreshTask, NEW limit \in Nat, EnsureFresh(limit)
  PROVE  \A t \in Task : Active(t)' => t = refreshTask'
<1>1. CASE UNCHANGED taskVars
  BY <1>1 DEF taskVars, Active
<1>2. CASE ~InFlight /\ \E t \in Task \ Running :
             /\ task' = [task EXCEPT ![t] = [st |-> "created", read |-> 0]]
             /\ refreshTask' = t
  <2>1. PICK t \in Task \ Running :
             /\ task' = [task EXCEPT ![t] = [st |-> "created", read |-> 0]]
             /\ refreshTask' = t
    BY <1>2
  <2>2. ASSUME NEW u \in Task, u # t, Active(u)' PROVE FALSE
    <3>1. Active(u)
      BY <2>1, <2>2 DEF Active, TypeOK
    <3>. QED
      BY <3>1, <1>2, TasksAssumption DEF InFlight
  <2>. QED
    BY <2>1, <2>2
<1>3. \/ UNCHANGED taskVars
      \/ ~InFlight /\ \E t \in Task \ Running :
           /\ task' = [task EXCEPT ![t] = [st |-> "created", read |-> 0]]
           /\ refreshTask' = t
  BY DEF EnsureFresh
<1>. QED
  BY <1>1, <1>2, <1>3

LEMMA InitIInv == Init => IInv
<1>. SUFFICES ASSUME Init PROVE IInv
  OBVIOUS
<1>1. 0 \in Position
  BY TimesAssumption DEF Position
<1>2. TypeOK
  <2>1. /\ MaxAge \in Nat /\ Cooldown \in Nat
        /\ MaxPeriodic \in Nat
    BY TimesAssumption
  <2>2. task \in [Task -> [st : {"created", "fetching", "parsing", "ended"},
                          read : Position \cup {Empty}]]
    BY <1>1 DEF Init, Ended
  <2>3. reader \in [Reader -> [st : {"idle", "fetching"}, read : Position]]
    BY <1>1 DEF Init
  <2>4. updated \in BOOLEAN
    BY DEF Init
  <2>5. /\ age \in 0 .. MaxAge
        /\ pollIn \in 0 .. MaxPeriodic /\ sinceManual \in 0 .. Cooldown
        /\ world \in Position
    BY <1>1, <2>1 DEF Init
  <2>. QED
    BY <2>2, <2>3, <2>4, <2>5 DEF Init, TypeOK
<1>3. OneRefresh
  BY DEF Init, OneRefresh, Active, Ended
<1>. QED
  BY <1>2, <1>3 DEF IInv

LEMMA NextTypes == TypeOK /\ [Next]_vars => TypeOK'
<1>. SUFFICES ASSUME TypeOK, [Next]_vars PROVE TypeOK'
  OBVIOUS
<1>. 0 \in Position /\ Position \subseteq Nat
  BY TimesAssumption DEF Position
<1>. USE TimesAssumption, IntervalType DEF TypeOK
<1>1. CASE GetFleet
  BY <1>1, EnsureTypes DEF GetFleet, storeVars, timeVars
<1>2. CASE PostRefresh
  <2>. EnsureFresh(0)
    BY <1>2 DEF PostRefresh
  <2>. QED
    BY <1>2, EnsureTypes DEF PostRefresh, storeVars
<1>3. CASE Poll
  <2>. EnsureFresh(0)
    BY <1>3 DEF Poll
  <2>. QED
    BY <1>3, EnsureTypes DEF Poll, storeVars
<1>4. ASSUME NEW t \in Task, TaskStart(t) PROVE TypeOK'
  BY <1>4 DEF TaskStart, storeVars, timeVars, Ended
<1>5. ASSUME NEW t \in Task, TaskEnds(t) PROVE TypeOK'
  <2>1. CASE TaskFail(t)
    BY <2>1 DEF TaskFail, storeVars, timeVars, Ended
  <2>2. CASE TaskApply(t)
    BY <2>2 DEF TaskApply, timeVars, Ended
  <2>3. ASSUME NEW p \in Position \cup {Empty}, TaskResponse(t, p) PROVE TypeOK'
    BY <2>3 DEF TaskResponse, storeVars, timeVars
  <2>. QED
    BY <1>5, <2>1, <2>2, <2>3 DEF TaskEnds
<1>6. ASSUME NEW r \in Reader, ReadStart(r) PROVE TypeOK'
  BY <1>6 DEF ReadStart, taskVars, storeVars, timeVars
<1>7. ASSUME NEW r \in Reader, ReadFallback(r) PROVE TypeOK'
  <2>. EnsureFresh(MaxAge)
    BY <1>7 DEF ReadFallback
  <2>. QED
    BY <1>7, EnsureTypes DEF ReadFallback, storeVars, timeVars
<1>8. ASSUME NEW r \in Reader, NEW p \in Position, ReadOk(r, p) PROVE TypeOK'
  BY <1>8 DEF ReadOk, taskVars, timeVars
<1>9. CASE Shutdown
  BY <1>9 DEF Shutdown, StopPoller, CancelRefresh, CancelReturns, Close, taskVars,
              storeVars, timeVars, Ended, InFlight
<1>10. CASE Move
  BY <1>10 DEF Move, Position, taskVars, storeVars, timeVars
<1>11. CASE Tick
  BY <1>11 DEF Tick, Later, taskVars
<1>12. CASE UNCHANGED vars
  BY <1>12 DEF vars, taskVars, storeVars, timeVars
<1>. QED
  BY <1>1, <1>2, <1>3, <1>4, <1>5, <1>6, <1>7, <1>8, <1>9, <1>10, <1>11, <1>12 DEF Next

LEMMA NextOne == IInv /\ [Next]_vars => OneRefresh'
<1>. SUFFICES ASSUME TypeOK, OneRefresh, [Next]_vars, stage' \in {"up", "stopping"}
              PROVE  \A t \in Task : Active(t)' => t = refreshTask'
  BY DEF IInv, OneRefresh
<1>1. \A t \in Task : Active(t) => t = refreshTask
  BY DEF OneRefresh, Next, GetFleet, PostRefresh, Poll, TaskStart, TaskEnds, TaskFail,
         TaskApply, TaskResponse, ReadStart, ReadFallback, ReadOk, Shutdown, StopPoller,
         CancelRefresh, CancelReturns, Close, Move, Tick, vars
<1>2. ASSUME NEW limit \in Nat, EnsureFresh(limit)
      PROVE  \A t \in Task : Active(t)' => t = refreshTask'
  BY <1>1, <1>2, EnsureOne
<1>3. CASE GetFleet
  BY <1>2, <1>3, TimesAssumption DEF GetFleet
<1>4. CASE PostRefresh \/ Poll
  <2>. EnsureFresh(0)
    BY <1>4 DEF PostRefresh, Poll
  <2>. QED
    BY <1>2
<1>5. ASSUME NEW t \in Task, TaskStart(t) \/ TaskEnds(t)
      PROVE  \A u \in Task : Active(u)' => u = refreshTask'
  <2>1. \A u \in Task : Active(u)' => Active(u)
    BY <1>5 DEF TaskStart, TaskEnds, TaskFail, TaskApply, TaskResponse, Active, Ended, TypeOK
  <2>2. refreshTask' = refreshTask
    BY <1>5 DEF TaskStart, TaskEnds, TaskFail, TaskApply, TaskResponse
  <2>. QED
    BY <1>1, <2>1, <2>2
<1>6. ASSUME NEW r \in Reader, ReadFallback(r)
      PROVE  \A u \in Task : Active(u)' => u = refreshTask'
  BY <1>2, <1>6, TimesAssumption DEF ReadFallback
<1>7. CASE UNCHANGED taskVars
  BY <1>1, <1>7 DEF taskVars, Active
<1>8. ASSUME NEW r \in Reader, ReadStart(r) \/ \E p \in Position : ReadOk(r, p)
      PROVE  UNCHANGED taskVars
  BY <1>8 DEF ReadStart, ReadOk
<1>9. Shutdown \/ Move \/ Tick \/ UNCHANGED vars => UNCHANGED taskVars
  BY DEF Shutdown, StopPoller, CancelRefresh, CancelReturns, Close, Move, Tick, vars, taskVars
<1>. QED
  BY <1>3, <1>4, <1>5, <1>6, <1>7, <1>8, <1>9 DEF Next

\* The inductive invariant: types and one refresh at a time.
THEOREM Inductive == Spec => []IInv
<1>1. Init => IInv
  BY InitIInv
<1>2. IInv /\ [Next]_vars => IInv'
  BY NextTypes, NextOne DEF IInv
<1>. QED
  BY <1>1, <1>2, PTL DEF Spec

\* Every variable stays in its domain (deps.py:81-83, fleet_poller.py:41).
THEOREM TypeCorrect == Spec => []TypeOK
<1>1. IInv => TypeOK
  BY DEF IInv
<1>. QED
  BY <1>1, Inductive, PTL

\* Until shutdown cancels it, the registered refresh is the only one (deps.py:201).
THEOREM OneRefreshAtATime == Spec => []OneRefresh
<1>1. IInv => OneRefresh
  BY DEF IInv
<1>. QED
  BY <1>1, Inductive, PTL

-----------------------------------------------------------------------------
(* Without route fetches snapshots are applied in order *)

LEMMA InitOrder == Init => Truthful /\ InOrder
<1>. 0 \in Nat /\ 0 <= 0
  OBVIOUS
<1>. QED
  BY TasksAssumption DEF Init, Truthful, InOrder, Active, Ended

LEMMA OrderNext ==
  ASSUME Reader = {}
  PROVE  TypeOK /\ Truthful /\ InOrder /\ [Next]_vars => Truthful' /\ InOrder'
<1>. SUFFICES ASSUME TypeOK, Truthful, InOrder, [Next]_vars PROVE Truthful' /\ InOrder'
  OBVIOUS
<1>. Position \subseteq Nat /\ Empty \notin Position
  BY TasksAssumption, TimesAssumption DEF Position
<1>1. \A t \in Task : Active(t) => t = refreshTask
  BY DEF InOrder
<1>2. ASSUME NEW limit \in Nat, EnsureFresh(limit), UNCHANGED <<shown, world, stage>>,
             stage = "up"
      PROVE  Truthful' /\ InOrder'
  <2>1. CASE UNCHANGED taskVars
    BY <1>2, <2>1 DEF taskVars, Truthful, InOrder, Active
  <2>2. ASSUME NEW t \in Task,
               task' = [task EXCEPT ![t] = [st |-> "created", read |-> 0]]
        PROVE  Truthful' /\ InOrder'
    <3>1. \A u \in Task : Active(u)' => u = refreshTask'
      BY <1>1, <1>2, EnsureOne
    <3>2. /\ task'[t] = [st |-> "created", read |-> 0]
          /\ \A u \in Task \ {t} : task'[u] = task[u]
      BY <2>2 DEF TypeOK
    <3>3. world \in Nat
      BY DEF TypeOK
    <3>4. InOrder'
      BY <1>2, <3>1, <3>2 DEF InOrder, Active
    <3>5. Truthful'
      BY <1>2, <3>2, <3>3 DEF Truthful, Active
    <3>. QED
      BY <3>4, <3>5
  <2>. QED
    BY <1>2, <2>1, <2>2 DEF EnsureFresh
<1>3. CASE GetFleet
  BY <1>2, <1>3, TimesAssumption DEF GetFleet, storeVars
<1>4. CASE PostRefresh \/ Poll
  <2>. EnsureFresh(0)
    BY <1>4 DEF PostRefresh, Poll
  <2>. QED
    BY <1>2, <1>4 DEF PostRefresh, Poll, storeVars
<1>5. ASSUME NEW t \in Task, TaskStart(t) PROVE Truthful' /\ InOrder'
  <2>1. world \in Position /\ world \in Nat /\ (shown \in Position => shown <= world)
    BY DEF TypeOK, Truthful
  <2>2. /\ \/ task'[t] = [st |-> "fetching", read |-> world]
           \/ task'[t] = Ended
        /\ \A u \in Task \ {t} : task'[u] = task[u]
    BY <1>5 DEF TaskStart, TypeOK
  <2>3. UNCHANGED <<shown, world, stage, refreshTask>>
    BY <1>5 DEF TaskStart, storeVars
  <2>4. Active(t)
    BY <1>5 DEF TaskStart, Active
  <2>5. CASE task'[t] = Ended
    BY <2>2, <2>3, <2>5 DEF Truthful, InOrder, Active, Ended
  <2>6. CASE task'[t] = [st |-> "fetching", read |-> world]
    <3>1. Truthful'
      BY <2>1, <2>2, <2>3, <2>6 DEF Truthful, Active
    <3>2. InOrder'
      BY <2>1, <2>2, <2>3, <2>4, <2>6 DEF InOrder, Active
    <3>. QED
      BY <3>1, <3>2
  <2>. QED
    BY <2>2, <2>5, <2>6
<1>6. ASSUME NEW t \in Task, TaskEnds(t) PROVE Truthful' /\ InOrder'
  <2>1. /\ Active(t)
        /\ \A u \in Task \ {t} : task'[u] = task[u]
        /\ UNCHANGED <<world, stage, refreshTask>>
    BY <1>6 DEF TaskEnds, TaskFail, TaskApply, TaskResponse, Active, TypeOK
  <2>2. CASE TaskFail(t)
    <3>. task'[t] = Ended /\ shown' = shown
      BY <2>2 DEF TaskFail, TypeOK, storeVars
    <3>. QED
      BY <2>1 DEF Truthful, InOrder, Active, Ended
  <2>3. CASE TaskApply(t)
    <3>1. task'[t] = Ended /\ shown' = task[t].read
      BY <2>3 DEF TaskApply, TypeOK
    <3>2. \A u \in Task : ~Active(u)'
      BY <1>1, <2>1, <3>1 DEF Active, Ended
    <3>3. \A u \in Task : task'[u].st \notin {"fetching", "parsing"}
      BY <3>2 DEF Active
    <3>4. Truthful'
      BY <2>1, <3>1, <3>2, <3>3 DEF Truthful
    <3>5. InOrder'
      BY <3>2, <3>3 DEF InOrder
    <3>. QED
      BY <3>4, <3>5
  <2>4. ASSUME NEW p \in Position \cup {Empty}, TaskResponse(t, p)
        PROVE  Truthful' /\ InOrder'
    <3>1. /\ task'[t] = [st |-> "parsing", read |-> p]
          /\ shown' = shown
          /\ task[t].st = "fetching"
      BY <2>4 DEF TaskResponse, TypeOK, storeVars
    <3>2. p \in Position => p \in task[t].read .. world
      BY <2>4 DEF TaskResponse
    <3>3. p \in Position => p <= world /\ (shown \in Position => shown <= p)
      <4>. SUFFICES ASSUME p \in Position PROVE p <= world /\ (shown \in Position => shown <= p)
        OBVIOUS
      <4>1. task[t].read \in Position
        BY <3>1 DEF Truthful
      <4>2. shown \in Position => shown <= task[t].read
        BY <3>1, <4>1 DEF InOrder
      <4>. QED
        <5>1. p \in task[t].read .. world
          BY <3>2
        <5>2. task[t].read \in Nat /\ world \in Nat /\ (shown \in Position => shown \in Nat)
          BY <4>1 DEF TypeOK
        <5>. QED
          BY <4>2, <5>1, <5>2
    <3>4. Truthful'
      <4>1. \A u \in Task : Active(u)' => Active(u)
        BY <2>1, <3>1 DEF Active
      <4>2. \A u \in Task : Active(u)' /\ task'[u].read \in Position => task'[u].read <= world'
        BY <2>1, <3>1, <3>3, <4>1 DEF Truthful
      <4>3. \A u \in Task : task'[u].st = "fetching" => task'[u].read \in Position
        BY <2>1, <3>1 DEF Truthful
      <4>. QED
        BY <2>1, <3>1, <4>2, <4>3 DEF Truthful
    <3>5. InOrder'
      BY <2>1, <3>1, <3>3 DEF InOrder, Active
    <3>. QED
      BY <3>4, <3>5
  <2>. QED
    BY <1>6, <2>2, <2>3, <2>4 DEF TaskEnds
<1>7. CASE CancelRefresh
  <2>1. UNCHANGED <<shown, world>>
    BY <1>7 DEF CancelRefresh, storeVars
  <2>2. \A t \in Task : ~Active(t)'
    <3>1. CASE InFlight
      <4>. refreshTask \in Task /\ task' = [task EXCEPT ![refreshTask] = Ended]
        BY <1>7, <3>1 DEF CancelRefresh, InFlight, TypeOK
      <4>. QED
        BY <1>1 DEF Active, Ended, TypeOK
    <3>2. CASE ~InFlight
      <4>1. task' = task
        BY <1>7, <3>2 DEF CancelRefresh
      <4>2. \A t \in Task : ~Active(t)
        BY <1>1, <3>2, TasksAssumption DEF InFlight
      <4>. QED
        BY <4>1, <4>2 DEF Active
    <3>. QED
      BY <3>1, <3>2
  <2>3. \A t \in Task : task'[t].st \notin {"fetching", "parsing"}
    BY <2>2 DEF Active
  <2>4. Truthful'
    BY <2>1, <2>2, <2>3 DEF Truthful
  <2>. QED
    BY <2>2, <2>3, <2>4 DEF InOrder
<1>8. CASE StopPoller \/ CancelReturns \/ Close
  <2>1. UNCHANGED <<task, shown, world>>
    BY <1>8 DEF StopPoller, CancelReturns, Close, storeVars, taskVars
  <2>2. Truthful'
    BY <2>1 DEF Truthful, Active
  <2>3. InOrder'
    BY <1>8, <2>1 DEF InOrder, Active, StopPoller, CancelReturns, Close, taskVars
  <2>. QED
    BY <2>2, <2>3
<1>9. CASE Move
  <2>1. UNCHANGED <<task, shown, stage, refreshTask>> /\ world \in Nat /\ world' = world + 1
    BY <1>9 DEF Move, TypeOK, taskVars, storeVars
  <2>2. ASSUME NEW n \in Position, n <= world PROVE n <= world'
    BY <2>1, <2>2
  <2>3. Truthful'
    BY <2>1, <2>2 DEF Truthful, Active
  <2>4. InOrder'
    BY <2>1 DEF InOrder, Active
  <2>. QED
    BY <2>3, <2>4
<1>10. CASE Tick \/ UNCHANGED vars
  <2>1. UNCHANGED <<task, shown, stage, refreshTask, world>>
    BY <1>10 DEF Tick, vars, taskVars, storeVars
  <2>. QED
    BY <2>1 DEF Truthful, InOrder, Active
<1>. QED
  BY <1>3, <1>4, <1>5, <1>6, <1>7, <1>8, <1>9, <1>10 DEF Next, Shutdown

\* Refreshes alone never take a bus back: if no route fetch ran, a snapshot would
\* never be applied after a newer one (fleet_poller.py:15-16, deps.py:210-216).
THEOREM RefreshesInOrder ==
  ASSUME Reader = {}
  PROVE  Spec => SnapshotsInOrder
<1>1. Init => Truthful /\ InOrder
  BY InitOrder
<1>2. TypeOK /\ Truthful /\ InOrder /\ [Next]_vars => (Truthful /\ InOrder)'
  BY OrderNext
<1>3. TypeOK /\ InOrder /\ [Next]_vars
        => [\A t \in Task : TaskApply(t) /\ {shown, shown'} \subseteq Position
              => shown' >= shown]_vars
  <2>. SUFFICES ASSUME InOrder, NEW t \in Task, TaskApply(t), {shown, shown'} \subseteq Position
                PROVE  shown' >= shown
    OBVIOUS
  <2>1. shown <= shown'
    BY DEF InOrder, TaskApply
  <2>2. shown \in Nat /\ shown' \in Nat
    BY TimesAssumption DEF Position
  <2>. QED
    BY <2>1, <2>2
<1>. QED
  BY <1>1, <1>2, <1>3, TypeCorrect, PTL DEF Spec, SnapshotsInOrder

-----------------------------------------------------------------------------
(* Lifespan: the shutdown of every background task *)

\* each task in one of its states, and a task that is cancelled is one of them
LifeTypes ==
  /\ poller \in [Poller -> {"created", "preloading", "calling", "sleeping", "ended"}]
  /\ told \in SUBSET Poller

\* the shutdown moves on only past tasks that are gone
InTurn ==
  /\ stage # "up" => Gone("notice_poller")
  /\ "notice_poller" \in told => Gone("cache_sweeper")
  /\ stage \notin {"up", "stopping"} => Gone("stop_indexer")

\* and no refresh task outlives the cancellation of the registered one
NoStray == \A t \in Task : Active(t) => t = refreshTask /\ stage \in {"up", "stopping"}

LifeInv == TypeOK /\ LifeTypes /\ InTurn /\ NoStray

\* A step of the composition is a step of FleetRefresh or leaves it alone.
LEMMA LifeStep == [LifeNext]_allVars => [Next]_vars
BY DEF LifeNext, allVars, Fleet, Rest, Next, Shutdown, Preloaded, Loop, Begins, Worked,
       Failed, Wakes, Cancel, Lands

\* FleetRefresh is the part of Lifespan its variables show: the other background tasks
\* neither start nor disturb a refresh (main.py:98-165).
THEOREM LifespanRefreshes == LifeSpec => Spec
<1>1. LifeInit => Init
  BY DEF LifeInit
<1>. QED
  BY <1>1, LifeStep, PTL DEF LifeSpec, Spec

\* A task that is gone stays gone.
LEMMA GoneStays ==
  ASSUME LifeTypes, [LifeNext]_allVars, NEW p \in Poller, Gone(p)
  PROVE  Gone(p)'
<1>1. p \in told /\ poller[p] = "ended"
  BY DEF Gone
<1>2. ASSUME NEW q \in Poller, Loop(q) \/ Lands(q)
      PROVE  q # p /\ told' = told /\ \E to : poller' = [poller EXCEPT ![q] = to]
  BY <1>1, <1>2 DEF Loop, Begins, Worked, Failed, Wakes, Lands, Goes
<1>3. CASE Preloaded
  BY <1>1, <1>3 DEF Preloaded, Goes, Gone, LifeTypes
<1>4. ASSUME NEW q \in Poller, Loop(q) \/ Lands(q) PROVE Gone(p)'
  BY <1>1, <1>2, <1>4 DEF Gone, LifeTypes
<1>5. ASSUME NEW q \in Poller, Cancel(q) PROVE Gone(p)'
  BY <1>1, <1>5 DEF Cancel, Gone
<1>6. CASE Fleet \/ Rest \/ UNCHANGED allVars
  BY <1>1, <1>6 DEF Fleet, Rest, allVars, lifeVars, Gone
<1>. QED
  BY <1>3, <1>4, <1>5, <1>6 DEF LifeNext

LEMMA LifeTypesNext == LifeTypes /\ [LifeNext]_allVars => LifeTypes'
<1>. SUFFICES ASSUME LifeTypes, [LifeNext]_allVars PROVE LifeTypes'
  OBVIOUS
<1>1. CASE Preloaded
  BY <1>1 DEF Preloaded, Goes, LifeTypes
<1>2. ASSUME NEW p \in Poller, Begins(p) PROVE LifeTypes'
  <2>1. \E to \in {"sleeping", "calling", "preloading"} : Goes(p, to)
    BY <1>2 DEF Begins
  <2>. QED
    BY <1>2, <2>1 DEF Begins, Goes, LifeTypes
<1>3. ASSUME NEW p \in Poller, Worked(p) \/ Failed(p) \/ Wakes(p) PROVE LifeTypes'
  BY <1>3 DEF Worked, Failed, Wakes, Goes, LifeTypes
<1>4. ASSUME NEW p \in Poller, Cancel(p) \/ Lands(p) PROVE LifeTypes'
  BY <1>4 DEF Cancel, Lands, Goes, LifeTypes
<1>5. CASE Fleet \/ Rest \/ UNCHANGED allVars
  BY <1>5 DEF Fleet, Rest, allVars, lifeVars, LifeTypes
<1>. QED
  BY <1>1, <1>2, <1>3, <1>4, <1>5 DEF LifeNext, Loop

LEMMA InTurnNext == LifeTypes /\ InTurn /\ [LifeNext]_allVars => InTurn'
<1>. SUFFICES ASSUME LifeTypes, InTurn, [LifeNext]_allVars PROVE InTurn'
  OBVIOUS
<1>. {"cache_sweeper", "notice_poller", "stop_indexer"} \subseteq Poller
  BY DEF Poller
<1>1. \A p \in Poller : Gone(p) => Gone(p)'
  BY GoneStays
<1>2. CASE UNCHANGED <<stage, told>>
  <2>1. stage' # "up" => Gone("notice_poller")'
    BY <1>1, <1>2 DEF InTurn
  <2>2. "notice_poller" \in told' => Gone("cache_sweeper")'
    BY <1>1, <1>2 DEF InTurn
  <2>3. stage' \notin {"up", "stopping"} => Gone("stop_indexer")'
    BY <1>1, <1>2 DEF InTurn
  <2>. QED
    BY <2>1, <2>2, <2>3 DEF InTurn
<1>3. Preloaded \/ UNCHANGED allVars => UNCHANGED <<stage, told>>
  BY DEF Preloaded, allVars, vars, lifeVars
<1>4. ASSUME NEW p \in Poller, Loop(p) \/ Lands(p) PROVE UNCHANGED <<stage, told>>
  BY <1>4 DEF Loop, Begins, Worked, Failed, Wakes, Lands, vars
<1>5. ASSUME NEW p \in Poller, Cancel(p) PROVE InTurn'
  <2>1. UNCHANGED stage /\ told' = told \cup {p} /\ Turn(p)
    BY <1>5 DEF Cancel, vars
  <2>2. "notice_poller" \in told' => Gone("cache_sweeper")'
    <3>1. CASE "notice_poller" \in told
      BY <1>1, <3>1 DEF InTurn
    <3>2. CASE p = "notice_poller"
      BY <1>1, <2>1, <3>2 DEF Turn
    <3>. QED
      BY <2>1, <3>1, <3>2
  <2>3. stage' # "up" => Gone("notice_poller")'
    BY <1>1, <2>1 DEF InTurn
  <2>4. stage' \notin {"up", "stopping"} => Gone("stop_indexer")'
    BY <1>1, <2>1 DEF InTurn
  <2>. QED
    BY <2>2, <2>3, <2>4 DEF InTurn
<1>6. CASE Fleet
  BY <1>2, <1>6 DEF Fleet, lifeVars, GetFleet, PostRefresh, Poll, Tick, Move, TaskStart,
     TaskEnds, TaskFail, TaskApply, TaskResponse
<1>7. CASE Rest
  <2>1. told' = told
    BY <1>7 DEF Rest, lifeVars
  <2>2. stage' # "up" => Gone("notice_poller")'
    BY <1>1, <1>7 DEF Rest, InTurn, StopPoller, CancelRefresh, CancelReturns, Close
  <2>3. stage' \notin {"up", "stopping"} => Gone("stop_indexer")'
    BY <1>1, <1>7 DEF Rest, InTurn, StopPoller, CancelRefresh, CancelReturns, Close
  <2>4. "notice_poller" \in told' => Gone("cache_sweeper")'
    BY <1>1, <2>1 DEF InTurn
  <2>. QED
    BY <2>2, <2>3, <2>4 DEF InTurn
<1>. QED
  BY <1>2, <1>3, <1>4, <1>5, <1>6, <1>7 DEF LifeNext

\* Without requests no task is started once the refresher is cancelled.
LEMMA NoStrayNext == TypeOK /\ NoStray /\ [LifeNext]_allVars => NoStray'
<1>. SUFFICES ASSUME TypeOK, NoStray, [LifeNext]_allVars PROVE NoStray'
  OBVIOUS
<1>1. \A t \in Task : Active(t) => t = refreshTask
  BY DEF NoStray
<1>2. ASSUME NEW limit \in Nat, EnsureFresh(limit), stage = "up", UNCHANGED stage
      PROVE  NoStray'
  BY <1>1, <1>2, EnsureOne DEF NoStray
<1>3. CASE GetFleet
  BY <1>2, <1>3, TimesAssumption DEF GetFleet
<1>4. CASE PostRefresh \/ Poll
  <2>. EnsureFresh(0)
    BY <1>4 DEF PostRefresh, Poll
  <2>. QED
    BY <1>2, <1>4 DEF PostRefresh, Poll
<1>5. CASE UNCHANGED <<taskVars, stage>>
  BY <1>5 DEF NoStray, taskVars, Active
<1>6. ASSUME NEW t \in Task, TaskStart(t) \/ TaskEnds(t) PROVE NoStray'
  <2>1. \A u \in Task : Active(u)' => Active(u)
    BY <1>6 DEF TaskStart, TaskEnds, TaskFail, TaskApply, TaskResponse, Active, Ended, TypeOK
  <2>2. UNCHANGED <<refreshTask, stage>>
    BY <1>6 DEF TaskStart, TaskEnds, TaskFail, TaskApply, TaskResponse
  <2>. QED
    BY <2>1, <2>2 DEF NoStray
<1>7. CASE CancelRefresh
  <2>1. CASE InFlight
    <3>1. refreshTask \in Task /\ task' = [task EXCEPT ![refreshTask] = Ended]
      BY <1>7, <2>1 DEF CancelRefresh, InFlight, TypeOK
    <3>2. \A t \in Task : ~Active(t)'
      BY <1>1, <3>1 DEF Active, Ended, TypeOK
    <3>. QED
      BY <3>2 DEF NoStray
  <2>2. CASE ~InFlight
    <3>1. task' = task
      BY <1>7, <2>2 DEF CancelRefresh
    <3>2. \A t \in Task : ~Active(t)
      BY <1>1, <2>2, TasksAssumption DEF InFlight
    <3>. QED
      BY <3>1, <3>2 DEF NoStray, Active
  <2>. QED
    BY <2>1, <2>2
<1>8. CASE StopPoller \/ CancelReturns \/ Close
  <2>1. task' = task
    BY <1>8 DEF StopPoller, CancelReturns, Close, taskVars
  <2>2. CASE StopPoller
    BY <2>1, <2>2 DEF NoStray, Active, StopPoller, taskVars
  <2>3. CASE CancelReturns \/ Close
    <3>1. \A t \in Task : ~Active(t)
      BY <2>3 DEF NoStray, CancelReturns, Close
    <3>. QED
      BY <2>1, <3>1 DEF NoStray, Active
  <2>. QED
    BY <1>8, <2>2, <2>3
<1>9. CASE Move \/ Tick
  BY <1>5, <1>9 DEF Move, Tick
<1>10. CASE UNCHANGED vars
  BY <1>5, <1>10 DEF vars, taskVars
<1>11. CASE Fleet
  BY <1>3, <1>4, <1>6, <1>9, <1>11 DEF Fleet
<1>12. CASE Rest
  BY <1>7, <1>8, <1>12 DEF Rest
<1>13. CASE Preloaded \/ UNCHANGED allVars
  BY <1>10, <1>13 DEF Preloaded, allVars
<1>14. ASSUME NEW p \in Poller, Loop(p) \/ Cancel(p) \/ Lands(p) PROVE UNCHANGED vars
  BY <1>14 DEF Loop, Begins, Worked, Failed, Wakes, Cancel, Lands
<1>. QED
  BY <1>10, <1>11, <1>12, <1>13, <1>14 DEF LifeNext

LEMMA InitLife == LifeInit => LifeInv
<1>. SUFFICES ASSUME LifeInit PROVE LifeInv
  OBVIOUS
<1>1. TypeOK
  BY InitIInv DEF LifeInit, IInv
<1>2. LifeTypes /\ InTurn
  BY DEF LifeInit, LifeTypes, InTurn, Init
<1>3. NoStray
  BY DEF LifeInit, NoStray, Init, Active, Ended
<1>. QED
  BY <1>1, <1>2, <1>3 DEF LifeInv

\* The inductive invariant of the composition: each stage of the shutdown is reached
\* only past the tasks it awaits, and no refresh is left when the registered one is.
THEOREM LifeInductive == LifeSpec => []LifeInv
<1>1. LifeInv /\ [LifeNext]_allVars => LifeInv'
  BY NextTypes, LifeStep, LifeTypesNext, InTurnNext, NoStrayNext DEF LifeInv
<1>. QED
  BY <1>1, InitLife, PTL DEF LifeSpec

\* When the HTTP session and the SQLite connections are closed, no background task and
\* no refresh is left to use them, wherever the shutdown found them (main.py:137-165).
THEOREM NothingLeftRunning == LifeSpec => []QuietWhenClosed
<1>1. LifeInv => QuietWhenClosed
  <2>. SUFFICES ASSUME LifeInv, stage = "closed"
                PROVE  Running = {} /\ \A p \in Poller : poller[p] = "ended"
    BY DEF QuietWhenClosed
  <2>1. Running = {}
    BY DEF LifeInv, NoStray, Running
  <2>2. Gone("notice_poller") /\ Gone("stop_indexer")
    BY DEF LifeInv, InTurn
  <2>3. Gone("cache_sweeper")
    BY <2>2 DEF LifeInv, InTurn, Gone
  <2>. QED
    BY <2>1, <2>2, <2>3 DEF Gone, Poller
<1>. QED
  BY <1>1, LifeInductive, PTL

\* In the whole process, too, one refresh runs at a time, and without route fetches the
\* snapshots are applied in order (deps.py:201, fleet_poller.py:15-16).
THEOREM LifespanKeepsOrder ==
  ASSUME Reader = {}
  PROVE  LifeSpec => []OneRefresh /\ SnapshotsInOrder
BY LifespanRefreshes, OneRefreshAtATime, RefreshesInOrder, PTL

=============================================================================
