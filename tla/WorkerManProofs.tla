-------------------------- MODULE WorkerManProofs --------------------------
(***************************************************************************)
(* The worker manager, for any number of tasks and workers.  Its slots:    *)
(* never more than WorkerCount workers are active, and they are exactly the*)
(* goroutines that run and are not detached.  Its lists and its queue: the *)
(* detached list is exact but for workers detached twice, and tasks are    *)
(* stranded only by a Run or Detach that missed the last worker leaving.   *)
(***************************************************************************)
EXTENDS WorkerMan, FiniteSetTheorems, TLAPS

\* Provers: the default time limits, then longer ones.
USE SMT, Zenon, SMTT(60), ZenonT(60)

\* No set of workers is infinite.
LEMMA WorkersFinite ==
  ASSUME NEW S \in SUBSET Worker
  PROVE  IsFiniteSet(S) /\ Cardinality(S) \in Nat
<1>1. IsFiniteSet(Worker)
  BY FS_Interval, WorkerManAssumption DEF Worker
<1>2. IsFiniteSet(S)
  BY <1>1, FS_Subset
<1> QED BY <1>2, FS_CardinalityType

\* One more worker in a set that was below the bound does not exceed it.
LEMMA OneMoreFits ==
  ASSUME NEW S \in SUBSET Worker, NEW w \in Worker, Cardinality(S) < WorkerCount
  PROVE  Cardinality(S \cup {w}) <= WorkerCount
<1>1. IsFiniteSet(S) /\ Cardinality(S) \in Nat
  BY WorkersFinite
<1>2. \/ Cardinality(S \cup {w}) = Cardinality(S)
      \/ Cardinality(S \cup {w}) = Cardinality(S) + 1
  BY <1>1, FS_AddElement
<1> QED BY <1>1, <1>2, WorkerManAssumption

\* Taking a worker away does not exceed the bound.
LEMMA OneLessFits ==
  ASSUME NEW S \in SUBSET Worker, NEW w, Cardinality(S) <= WorkerCount
  PROVE  Cardinality(S \ {w}) <= WorkerCount
<1>1. IsFiniteSet(S) /\ Cardinality(S) \in Nat
  BY WorkersFinite
<1>2. Cardinality(S \ {w}) <= Cardinality(S)
  BY <1>1, FS_Subset
<1>3. Cardinality(S \ {w}) \in Nat
  BY WorkersFinite
<1> QED BY <1>1, <1>2, <1>3, WorkerManAssumption

\* scheduleWithLock keeps the number of active workers within WorkerCount.
LEMMA ScheduleBound ==
  ASSUME SlotInv, NEW act \in SUBSET Worker, NEW cont,
         Cardinality(act) <= WorkerCount, scheduleWithLock(act, cont)
  PROVE  WorkerBound'
<1>1. CASE active' = act
  BY <1>1 DEF WorkerBound
<1>2. CASE /\ Cardinality(act) < WorkerCount
           /\ workerId < MaxWorkers
           /\ workerId' = workerId + 1
           /\ active' = act \cup {workerId'}
  <2>1. workerId' \in Worker
    BY <1>2, WorkerManAssumption DEF SlotInv, SlotTypes, Worker
  <2> QED BY <1>2, <2>1, OneMoreFits DEF WorkerBound
<1> QED BY <1>1, <1>2 DEF scheduleWithLock

\* Lists act and cont and states st that fit the goroutines as they are.
Fit(act, cont, st) ==
  /\ act = {w \in Worker : Alive(w) /\ st[w] = "active"}
  /\ cont \in [Worker -> {"none", "active", "detached"}]
  /\ st \in [Worker -> {"active", "detach"}]
  /\ \A w \in Worker : /\ (cont[w] = "none") <=> ~Alive(w)
                       /\ wpc[w] = "unborn" => st[w] = "active"

\* The parts of SlotInv that scheduleWithLock may disturb, besides WorkerBound.
Scheduled ==
  /\ workerId' \in 0..MaxWorkers /\ workerId' >= workerId
  /\ active' \in SUBSET Worker
  /\ container' \in [Worker -> {"none", "active", "detached"}]
  /\ wpc' \in [Worker -> {"unborn", "check", "pop", "hand", "exec", "leave", "gone"}]
  /\ BornInOrder' /\ ContainerExact' /\ SlotsExact'

\* scheduleWithLock, called with lists that fit the goroutines, leaves lists
\* that do.
LEMMA ScheduleSlots ==
  ASSUME SlotInv, NEW act, NEW cont, NEW st, Fit(act, cont, st),
         scheduleWithLock(act, cont), state' = st
  PROVE  Scheduled
<1> USE DEF SlotInv, SlotTypes, Alive, Fit, Scheduled
<1>1. CASE UNCHANGED <<workerId, wpc>> /\ active' = act /\ container' = cont
  BY <1>1, WorkerManAssumption DEF BornInOrder, ContainerExact, SlotsExact, Worker
<1>2. CASE /\ workerId < MaxWorkers
           /\ workerId' = workerId + 1
           /\ active' = act \cup {workerId'}
           /\ container' = [cont EXCEPT ![workerId'] = "active"]
           /\ wpc' = [wpc EXCEPT ![workerId'] = "check"]
  <2>1. workerId' \in Worker /\ workerId \in Nat
    BY <1>2, WorkerManAssumption DEF Worker
  <2>2. wpc[workerId'] = "unborn" /\ st[workerId'] = "active"
    BY <1>2, <2>1 DEF BornInOrder, Worker
  <2>3. BornInOrder'
    BY <1>2, <2>1 DEF BornInOrder, Worker
  <2>4. ContainerExact'
    BY <1>2, <2>1, <2>2 DEF ContainerExact
  <2>5. SlotsExact'
    BY <1>2, <2>1, <2>2, ZenonT(60) DEF SlotsExact
  <2> QED BY <1>2, <2>1, <2>3, <2>4, <2>5, WorkerManAssumption
<1> QED BY <1>1, <1>2, ZenonT(60) DEF scheduleWithLock

\* A step of a worker's own leaves the slots as they are, except that the
\* worker gives its own up when it leaves.
LEMMA WorkerStepSlots ==
  ASSUME SlotInv, NEW w \in Worker, WorkerStep(w)
  PROVE  SlotInv'
<1> USE DEF SlotInv, SlotTypes
<1>1. ASSUME UNCHANGED <<listVars, workerId>>, wpc[w] \notin {"unborn", "gone"},
             NEW to \in {"check", "pop", "hand", "exec", "leave"},
             wpc' = [wpc EXCEPT ![w] = to],
             known' \in [Task -> Worker \cup {0}], KnownBorn'
      PROVE  SlotInv'
  <2>1. \A v \in Worker : Alive(v)' = Alive(v) /\ (wpc'[v] = "unborn" <=> wpc[v] = "unborn")
    BY <1>1, ZenonT(60) DEF Alive
  <2>2. SlotTypes' /\ WorkerBound'
    BY <1>1 DEF listVars, WorkerBound
  <2>3. BornInOrder'
    BY <1>1, <2>1, ZenonT(60) DEF BornInOrder
  <2>4. ContainerExact' /\ SlotsExact'
    BY <1>1, <2>1 DEF listVars, ContainerExact, SlotsExact
  <2> QED BY <1>1, <2>2, <2>3, <2>4, ZenonT(60)
<1>2. CASE CheckDetached(w)
  BY <1>1, <1>2, ZenonT(60) DEF CheckDetached, KnownBorn
<1>3. CASE PopTask(w)
  BY <1>1, <1>3, ZenonT(60) DEF PopTask, KnownBorn
<1>4. CASE Handover(w)
  <2>1. wpc[w] = "hand" /\ w <= workerId
    BY <1>4, WorkerManAssumption DEF Handover, BornInOrder, Worker
  <2>2. known' \in [Task -> Worker \cup {0}] /\ KnownBorn'
    BY <1>4, <2>1, ZenonT(60) DEF Handover, KnownBorn
  <2> QED BY <1>1, <1>4, <2>1, <2>2, ZenonT(60) DEF Handover
<1>5. CASE ExecDone(w)
  BY <1>1, <1>5, ZenonT(60) DEF ExecDone, KnownBorn
<1>6. CASE RemoveWorker(w)
  <2> USE <1>6 DEF RemoveWorker
  <2>1. \A v \in Worker :
          /\ v # w => Alive(v)' = Alive(v) /\ wpc'[v] = wpc[v]
          /\ ~Alive(w)' /\ wpc'[w] # "unborn" /\ wpc[w] # "unborn"
    BY DEF Alive
  <2>2. active' = active \ {w} \/ (active' = active /\ state[w] = "detach")
    OBVIOUS
  <2>3. SlotTypes' /\ KnownBorn'
    BY ZenonT(60) DEF KnownBorn
  <2>4. BornInOrder' /\ ContainerExact'
    BY <2>1 DEF BornInOrder, ContainerExact
  <2>5. SlotsExact'
    BY <2>1, <2>2 DEF SlotsExact
  <2>6. WorkerBound'
    BY <2>2, OneLessFits, ZenonT(60) DEF WorkerBound
  <2> QED BY <2>3, <2>4, <2>5, <2>6, ZenonT(60)
<1> QED BY <1>2, <1>3, <1>4, <1>5, <1>6, ZenonT(60) DEF WorkerStep

\* Run starts a worker only in a free slot.
LEMMA RunSlots ==
  ASSUME SlotInv, NEW t \in Task, RunPush(t) \/ RunSchedule(t)
  PROVE  SlotInv'
<1> USE DEF SlotInv, SlotTypes
<1>1. CASE RunPush(t)
  <2>1. UNCHANGED <<listVars, workerId, wpc, known>>
    BY <1>1 DEF RunPush, workerVars
  <2> QED
    BY <2>1 DEF listVars, BornInOrder, ContainerExact, KnownBorn, SlotsExact,
                WorkerBound, Alive
<1>2. CASE RunSchedule(t)
  <2>1. scheduleWithLock(active, container) /\ UNCHANGED <<state, known>>
    BY <1>2, ZenonT(60) DEF RunSchedule
  <2>2. WorkerBound'
    BY <2>1, ScheduleBound DEF WorkerBound
  <2>3. Scheduled
    <3>1. Fit(active, container, state)
      BY ZenonT(60) DEF Fit, ContainerExact, SlotsExact
    <3> HIDE DEF SlotInv
    <3> QED BY <2>1, <3>1, ScheduleSlots, ZenonT(60)
  <2>4. KnownBorn'
    BY <2>1, <2>3, WorkerManAssumption DEF KnownBorn, Worker, Scheduled
  <2> QED BY <2>1, <2>2, <2>3, <2>4, ZenonT(60) DEF Scheduled
<1> QED BY <1>1, <1>2, ZenonT(60)

\* Detach gives up the slot of a worker that runs and may fill it again, and
\* changes no slot when the worker is gone.
LEMMA DetachSlots ==
  ASSUME SlotInv, NEW t \in Task, Detach(t)
  PROVE  SlotInv'
<1> USE DEF SlotInv, SlotTypes
<1> DEFINE w == known[t]
           st == [state EXCEPT ![w] = "detach"]
<1>1. w \in Worker /\ wpc[w] # "unborn"
  BY WorkerManAssumption DEF Detach, KnownBorn, BornInOrder, Worker
<1>2. /\ state' = st
      /\ st \in [Worker -> {"active", "detach"}]
      /\ \A v \in Worker : wpc[v] = "unborn" => st[v] = "active"
  BY <1>1 DEF Detach, ContainerExact
<1>3. known' \in [Task -> Worker \cup {0}] /\ \A u \in Task : known'[u] = 0 \/ known'[u] = known[u]
  BY DEF Detach
<1>4. CASE DetachGone(w)
  <2>1. UNCHANGED <<active, container, workerId, wpc>> /\ ~Alive(w)
    BY <1>1, <1>4, ZenonT(60) DEF DetachGone, ContainerExact
  <2>2. BornInOrder' /\ ContainerExact' /\ WorkerBound'
    BY <1>2, <2>1, ZenonT(60) DEF BornInOrder, ContainerExact, WorkerBound, Alive
  <2>3. SlotsExact'
    BY <1>1, <1>2, <2>1 DEF SlotsExact, Alive
  <2>4. KnownBorn'
    BY <1>3, <2>1 DEF KnownBorn
  <2> QED BY <1>2, <1>3, <2>1, <2>2, <2>3, <2>4, ZenonT(60)
<1>5. CASE DetachLive(w)
  <2> DEFINE act == active \ {w}
             cont == [container EXCEPT ![w] = "detached"]
  <2>1. scheduleWithLock(act, cont) /\ Alive(w)
    BY <1>1, <1>5, ZenonT(60) DEF DetachLive, ContainerExact
  <2>2. act \in SUBSET Worker /\ act = {v \in Worker : Alive(v) /\ st[v] = "active"}
    BY <1>1 DEF SlotsExact
  <2>3. /\ cont \in [Worker -> {"none", "active", "detached"}]
        /\ \A v \in Worker : (cont[v] = "none") <=> ~Alive(v)
    BY <1>1, <2>1 DEF ContainerExact
  <2>4. WorkerBound'
    <3>1. Cardinality(act) <= WorkerCount
      BY OneLessFits, ZenonT(60) DEF WorkerBound
    <3> QED BY <2>1, <2>2, <3>1, ScheduleBound
  <2> HIDE DEF act, cont, st
  <2>5. Scheduled
    <3>1. Fit(act, cont, st)
      BY <1>2, <2>2, <2>3, ZenonT(60) DEF Fit
    <3> HIDE DEF SlotInv
    <3> QED BY <1>2, <2>1, <3>1, ScheduleSlots, ZenonT(60)
  <2>6. KnownBorn'
    BY <1>3, <2>5, WorkerManAssumption DEF KnownBorn, Worker, Scheduled
  <2> QED BY <1>2, <1>3, <2>4, <2>5, <2>6, ZenonT(60) DEF Scheduled
<1> QED BY <1>4, <1>5, ZenonT(60) DEF Detach

\* No worker is there at the start.
LEMMA InitSlots == Init => SlotInv
<1> SUFFICES ASSUME Init PROVE SlotInv
  OBVIOUS
<1>1. SlotTypes /\ BornInOrder /\ ContainerExact /\ KnownBorn /\ SlotsExact
  BY WorkerManAssumption
  DEF Init, SlotTypes, BornInOrder, ContainerExact, KnownBorn, SlotsExact, Alive, Worker
<1>2. WorkerBound
  BY FS_EmptySet, WorkerManAssumption DEF Init, WorkerBound
<1> QED BY <1>1, <1>2 DEF SlotInv

\* The invariant of the slots is inductive.
LEMMA StepSlots == SlotInv /\ [Next]_vars => SlotInv'
<1> SUFFICES ASSUME SlotInv, [Next]_vars PROVE SlotInv'
  OBVIOUS
<1>1. CASE UNCHANGED vars
  BY <1>1 DEF vars, listVars, workerVars, SlotInv, SlotTypes, BornInOrder, ContainerExact,
              KnownBorn, SlotsExact, WorkerBound, Alive
<1>2. ASSUME NEW t \in Task, RunPush(t) \/ RunSchedule(t) \/ Detach(t) PROVE SlotInv'
  BY <1>2, RunSlots, DetachSlots
<1>3. ASSUME NEW w \in Worker, WorkerStep(w) PROVE SlotInv'
  BY <1>3, WorkerStepSlots
<1> QED BY <1>1, <1>2, <1>3 DEF Next

\* Never more than WorkerCount workers are active, whatever the order of Run,
\* Detach and workers that leave.
THEOREM BoundKept == Spec => []WorkerBound
<1>1. SlotInv => WorkerBound
  BY DEF SlotInv
<1> QED BY <1>1, InitSlots, StepSlots, PTL DEF Spec

\* The active list is exactly the goroutines that run and are not detached: no
\* slot is lost when Detach meets a worker on its way out.
THEOREM SlotsKept == Spec => []SlotsExact
<1>1. SlotInv => SlotsExact
  BY ZenonT(60) DEF SlotInv
<1> QED BY <1>1, InitSlots, StepSlots, PTL DEF Spec

-----------------------------------------------------------------------------
(***************************************************************************)
(* The list of detached workers, and tasks that wait without a worker.     *)
(***************************************************************************)

\* scheduleWithLock changes no worker but the one it starts.
LEMMA ScheduleStarts ==
  ASSUME SlotInv, NEW act, NEW cont \in [Worker -> {"none", "active", "detached"}],
         scheduleWithLock(act, cont), NEW v \in Worker
  PROVE  \/ wpc'[v] = wpc[v] /\ container'[v] = cont[v]
         \/ wpc[v] = "unborn" /\ wpc'[v] = "check" /\ container'[v] = "active"
<1> USE DEF SlotInv, SlotTypes
<1>1. CASE wpc' = wpc /\ container' = cont
  BY <1>1, ZenonT(60)
<1>2. CASE /\ workerId < MaxWorkers
           /\ workerId' = workerId + 1
           /\ container' = [cont EXCEPT ![workerId'] = "active"]
           /\ wpc' = [wpc EXCEPT ![workerId'] = "check"]
  <2>1. workerId' \in Worker /\ workerId' > workerId
    BY <1>2, WorkerManAssumption DEF Worker
  <2>2. wpc[workerId'] = "unborn"
    BY <2>1, ZenonT(60) DEF BornInOrder
  <2> QED BY <1>2, <2>1, <2>2
<1> QED BY <1>1, <1>2, ZenonT(60) DEF scheduleWithLock

\* With tasks in the queue scheduleWithLock starts a worker, or all slots are
\* taken, and there is at least one.
LEMMA ScheduleServes ==
  ASSUME SlotInv, NEW act, NEW cont, scheduleWithLock(act, cont), queue # <<>>
  PROVE  \/ \E v \in active' : wpc'[v] = "check"
         \/ active' = act /\ act # {} /\ wpc' = wpc
<1> USE DEF SlotInv, SlotTypes
<1>1. CASE /\ Cardinality(act) >= WorkerCount
           /\ active' = act /\ wpc' = wpc
  <2>1. ASSUME act = {} PROVE FALSE
    <3>1. Cardinality(act) = 0
      BY <2>1, FS_EmptySet, ZenonT(60)
    <3> QED BY <1>1, <3>1, WorkerManAssumption
  <2> QED BY <1>1, <2>1, ZenonT(60)
<1>2. CASE /\ workerId < MaxWorkers
           /\ workerId' = workerId + 1
           /\ active' = act \cup {workerId'}
           /\ wpc' = [wpc EXCEPT ![workerId'] = "check"]
  <2>1. workerId' \in Worker
    BY <1>2, WorkerManAssumption DEF Worker
  <2> QED BY <1>2, <2>1, ZenonT(60)
<1> QED BY <1>1, <1>2, ZenonT(60) DEF scheduleWithLock

\* Run, Detach and the workers leave every variable its type.
LEMMA StepQueue == SlotInv /\ QueueTypes /\ [Next]_vars => QueueTypes'
<1> SUFFICES ASSUME SlotInv, QueueTypes, [Next]_vars PROVE QueueTypes'
  OBVIOUS
<1> USE DEF QueueTypes, history
<1>1. CASE UNCHANGED vars
  BY <1>1, ZenonT(60) DEF vars, workerVars
<1>2. ASSUME NEW t \in Task, RunPush(t) PROVE QueueTypes'
  <2>1. UNCHANGED <<wtask, missed, redetached>>
    BY <1>2, ZenonT(60) DEF RunPush, workerVars
  <2>2. queue' = queue \/ queue' = Append(queue, t)
    BY <1>2, ZenonT(60) DEF RunPush
  <2>3. queue' \in Seq(Task)
    BY <2>2
  <2>4. rpc' \in [Task -> {"new", "pushed", "accepted", "dropped"}]
    BY <1>2, ZenonT(60) DEF RunPush
  <2> QED BY <2>1, <2>3, <2>4, ZenonT(60)
<1>3. ASSUME NEW t \in Task, RunSchedule(t) PROVE QueueTypes'
  <2>1. UNCHANGED <<queue, wtask, redetached>> /\ missed' \in BOOLEAN
    BY <1>3, ZenonT(60) DEF RunSchedule
  <2> QED BY <1>3, <2>1, ZenonT(60) DEF RunSchedule
<1>4. ASSUME NEW t \in Task, Detach(t) PROVE QueueTypes'
  <2>1. known[t] \in Worker
    BY <1>4 DEF Detach, SlotInv, SlotTypes
  <2>2. UNCHANGED <<queue, wtask, rpc>>
    BY <1>4, ZenonT(60) DEF Detach
  <2>3. missed' \in BOOLEAN
    BY <1>4, ZenonT(60) DEF Detach, DetachGone, DetachLive
  <2>4. redetached' \in SUBSET Worker
    BY <1>4, <2>1 DEF Detach, DetachGone, DetachLive
  <2> QED BY <2>2, <2>3, <2>4, ZenonT(60)
<1>5. ASSUME NEW w \in Worker, WorkerStep(w) PROVE QueueTypes'
  <2>1. CASE PopTask(w)
    <3>1. UNCHANGED <<rpc, missed, redetached>>
      BY <2>1, ZenonT(60) DEF PopTask
    <3>2. \/ queue' = queue /\ wtask' = wtask
          \/ queue # <<>> /\ queue' = Tail(queue) /\ wtask' = [wtask EXCEPT ![w] = Head(queue)]
      BY <2>1, ZenonT(60) DEF PopTask
    <3>3. queue # <<>> => Tail(queue) \in Seq(Task) /\ Head(queue) \in Task
      OBVIOUS
    <3>4. queue' \in Seq(Task)
      BY <3>2, <3>3, ZenonT(60)
    <3>5. wtask' \in [Worker -> Task \cup {NoTask}]
      BY <3>2, <3>3, ZenonT(60)
    <3> QED BY <3>1, <3>4, <3>5, ZenonT(60)
  <2>2. CASE CheckDetached(w) \/ Handover(w) \/ RemoveWorker(w)
    BY <2>2, ZenonT(60) DEF CheckDetached, Handover, RemoveWorker
  <2>3. CASE ExecDone(w)
    BY <2>3, ZenonT(60) DEF ExecDone
  <2> QED BY <1>5, <2>1, <2>2, <2>3, ZenonT(60) DEF WorkerStep
<1> QED BY <1>1, <1>2, <1>3, <1>4, <1>5 DEF Next

\* What ListInv says of one worker.
OnList(v) ==
  /\ Alive(v) => /\ container[v] = "detached" <=> state[v] = "detach"
                 /\ state[v] = "detach" => detached[v] > 0
  /\ v \notin redetached =>
       detached[v] = IF Alive(v) /\ state[v] = "detach" THEN 1 ELSE 0

\* The entries of the detached list are right for every worker.
LEMMA StepList == SlotInv /\ ListInv /\ QueueTypes /\ [Next]_vars => ListInv'
<1> SUFFICES ASSUME SlotInv, ListInv, QueueTypes, [Next]_vars PROVE ListInv'
  OBVIOUS
<1> USE DEF SlotInv, SlotTypes
<1>a. detached \in [Worker -> Nat] /\ \A v \in Worker : OnList(v)
  BY DEF ListInv, OnList, DetachedExact
<1>b. ASSUME detached' \in [Worker -> Nat], \A v \in Worker : OnList(v)' PROVE ListInv'
  BY <1>b, ZenonT(60) DEF ListInv, OnList, DetachedExact
<1>c. ASSUME UNCHANGED <<detached, container, state, redetached>>,
             \A v \in Worker : Alive(v)' = Alive(v)
      PROVE  ListInv'
  BY <1>a, <1>b, <1>c, ZenonT(60) DEF OnList
<1>1. CASE UNCHANGED vars
  BY <1>1, <1>c DEF vars, listVars, workerVars, history, Alive
<1>2. ASSUME NEW t \in Task, RunPush(t) PROVE ListInv'
  BY <1>2, <1>c, ZenonT(60) DEF RunPush, listVars, workerVars, history, Alive
<1>3. ASSUME NEW t \in Task, RunSchedule(t) PROVE ListInv'
  <2>1. UNCHANGED <<detached, state, redetached>> /\ scheduleWithLock(active, container)
    BY <1>3, ZenonT(60) DEF RunSchedule
  <2>2. ASSUME NEW v \in Worker PROVE OnList(v)'
    <3>1. \/ wpc'[v] = wpc[v] /\ container'[v] = container[v]
          \/ wpc[v] = "unborn" /\ wpc'[v] = "check" /\ container'[v] = "active"
      BY <2>1, ScheduleStarts
    <3>2. wpc[v] = "unborn" => state[v] = "active"
      BY ZenonT(60) DEF ContainerExact
    <3> QED BY <1>a, <2>1, <3>1, <3>2, ZenonT(60) DEF OnList, Alive
  <2> QED BY <1>a, <1>b, <2>1, <2>2, ZenonT(60)
<1>4. ASSUME NEW t \in Task, Detach(t) PROVE ListInv'
  <2> DEFINE w == known[t]
  <2>1. w \in Worker /\ state' = [state EXCEPT ![w] = "detach"]
    BY <1>4, ZenonT(60) DEF Detach
  <2>2. CASE DetachGone(w)
    <3>1. ~Alive(w) /\ UNCHANGED <<detached, container, wpc, redetached>>
      BY <2>1, <2>2, ZenonT(60) DEF DetachGone, ContainerExact
    <3>2. ASSUME NEW v \in Worker PROVE OnList(v)'
      BY <1>a, <2>1, <3>1, ZenonT(60) DEF OnList, Alive
    <3> QED BY <1>a, <1>b, <3>1, <3>2, ZenonT(60)
  <2>3. CASE DetachLive(w)
    <3> DEFINE cont == [container EXCEPT ![w] = "detached"]
    <3>1. /\ Alive(w)
          /\ detached' = [detached EXCEPT ![w] = @ + 1]
          /\ redetached' = IF container[w] = "detached" THEN redetached \cup {w} ELSE redetached
          /\ scheduleWithLock(active \ {w}, cont)
      BY <2>1, <2>3, ZenonT(60) DEF DetachLive, ContainerExact
    <3>2. ASSUME NEW v \in Worker PROVE OnList(v)'
      <4>1. cont \in [Worker -> {"none", "active", "detached"}]
        BY <2>1, ZenonT(60)
      <4>2. \/ wpc'[v] = wpc[v] /\ container'[v] = cont[v]
            \/ wpc[v] = "unborn" /\ wpc'[v] = "check" /\ container'[v] = "active"
        <5> HIDE DEF cont, SlotInv
        <5> QED BY <3>1, <4>1, ScheduleStarts, ZenonT(60)
      <4>3. CASE v = w
        <5>1. /\ wpc'[w] = wpc[w] /\ container'[w] = "detached"
              /\ state'[w] = "detach" /\ detached'[w] = detached[w] + 1
              /\ detached[w] \in Nat
          BY <1>a, <2>1, <3>1, <4>2, <4>3, ZenonT(60) DEF Alive
        <5>2. w \notin redetached' => detached[w] = 0
          BY <1>a, <2>1, <3>1, ZenonT(60) DEF OnList
        <5> QED BY <4>3, <5>1, <5>2, <3>1 DEF OnList, Alive
      <4>4. CASE v # w
        <5>1. /\ state'[v] = state[v] /\ detached'[v] = detached[v]
              /\ cont[v] = container[v] /\ (v \in redetached' <=> v \in redetached)
          BY <1>a, <2>1, <3>1, <4>4, ZenonT(60)
        <5>2. wpc[v] = "unborn" => state[v] = "active"
          BY DEF ContainerExact
        <5> QED BY <1>a, <4>2, <5>1, <5>2 DEF OnList, Alive
      <4> QED BY <4>3, <4>4, ZenonT(60)
    <3> QED BY <1>a, <1>b, <2>1, <3>1, <3>2
  <2> QED BY <1>4, <2>2, <2>3, ZenonT(60) DEF Detach
<1>5. ASSUME NEW w \in Worker, WorkerStep(w) PROVE ListInv'
  <2>1. CASE CheckDetached(w)
    BY <1>c, <2>1, ZenonT(60) DEF CheckDetached, listVars, history, Alive
  <2>2. CASE PopTask(w)
    BY <1>c, <2>2, ZenonT(60) DEF PopTask, listVars, history, Alive
  <2>3. CASE Handover(w)
    BY <1>c, <2>3, ZenonT(60) DEF Handover, listVars, history, Alive
  <2>4. CASE ExecDone(w)
    BY <1>c, <2>4, ZenonT(60) DEF ExecDone, listVars, history, Alive
  <2>5. CASE RemoveWorker(w)
    <3>1. /\ Alive(w) /\ ~Alive(w)'
          /\ \A v \in Worker : v # w => wpc'[v] = wpc[v] /\ container'[v] = container[v]
          /\ UNCHANGED <<state, redetached>>
      BY <2>5, ZenonT(60) DEF RemoveWorker, Alive, history
    <3>2. \/ state[w] = "active" /\ detached' = detached
          \/ state[w] = "detach" /\ detached' = [detached EXCEPT ![w] = @ - 1]
      BY <2>5, ZenonT(60) DEF RemoveWorker
    <3>3. detached' \in [Worker -> Nat]
      BY <1>a, <3>1, <3>2 DEF OnList
    <3>4. ASSUME NEW v \in Worker PROVE OnList(v)'
      BY <1>a, <3>1, <3>2 DEF OnList, Alive
    <3> QED BY <1>b, <3>3, <3>4, ZenonT(60)
  <2> QED BY <1>5, <2>1, <2>2, <2>3, <2>4, <2>5, ZenonT(60) DEF WorkerStep
<1> QED BY <1>1, <1>2, <1>3, <1>4, <1>5 DEF Next

\* Tasks are left without a worker only by a Run or a Detach that finds the
\* slots taken by workers on their way out.
LEMMA StepStranded ==
  SlotInv /\ QueueTypes /\ StrandedOnlyIfMissed /\ [Next]_vars => StrandedOnlyIfMissed'
<1> SUFFICES ASSUME SlotInv, QueueTypes, StrandedOnlyIfMissed, [Next]_vars,
                    queue' # <<>>, ~InRun', active' = Leaving'
             PROVE  missed'
  BY ZenonT(60) DEF StrandedOnlyIfMissed
<1> USE DEF SlotInv, SlotTypes
<1>a. \A v \in active' : wpc'[v] = "leave"
  BY ZenonT(60) DEF Leaving
<1>b. queue # <<>> /\ ~InRun /\ (\A v \in active : wpc[v] = "leave") => missed
  BY ZenonT(60) DEF StrandedOnlyIfMissed, Leaving
<1>1. CASE UNCHANGED vars
  BY <1>1, <1>a, <1>b, ZenonT(60) DEF vars, listVars, workerVars, history, InRun
<1>2. ASSUME NEW t \in Task, RunPush(t) PROVE missed'
  <2>1. UNCHANGED <<active, wpc, missed>>
    BY <1>2, ZenonT(60) DEF RunPush, listVars, workerVars, history
  <2>2. rpc'[t] # "pushed" /\ ~InRun
    BY <1>2, ZenonT(60) DEF RunPush, InRun, QueueTypes
  <2>3. queue' = queue
    BY <1>2, <2>2, ZenonT(60) DEF RunPush, QueueTypes
  <2> QED BY <1>a, <1>b, <2>1, <2>2, <2>3, ZenonT(60)
<1>3. ASSUME NEW t \in Task, RunSchedule(t) PROVE missed'
  <2>1. /\ UNCHANGED queue /\ scheduleWithLock(active, container)
        /\ missed' = (missed \/ (queue # <<>> /\ active # {} /\ active' = Leaving))
    BY <1>3, ZenonT(60) DEF RunSchedule
  <2>2. active' = active /\ active # {} /\ wpc' = wpc
    <3> HIDE DEF SlotInv
    <3> QED BY <1>a, <2>1, ScheduleServes, ZenonT(60)
  <2>3. active' = Leaving
    BY <1>a, <2>2, ZenonT(60) DEF Leaving
  <2> QED BY <2>1, <2>2, <2>3, ZenonT(60)
<1>4. ASSUME NEW t \in Task, Detach(t) PROVE missed'
  <2> DEFINE w == known[t]
  <2>1. UNCHANGED <<queue, rpc>>
    BY <1>4, ZenonT(60) DEF Detach
  <2>2. CASE DetachGone(w)
    BY <1>a, <1>b, <2>1, <2>2, ZenonT(60) DEF DetachGone, InRun
  <2>3. CASE DetachLive(w)
    <3>1. /\ scheduleWithLock(active \ {w}, [container EXCEPT ![w] = "detached"])
          /\ missed' = (missed \/ (queue # <<>> /\ active' # {} /\ active' = Leaving \ {w}))
      BY <2>3, ZenonT(60) DEF DetachLive
    <3>2. active' = active \ {w} /\ active' # {} /\ wpc' = wpc
      <4> HIDE DEF SlotInv
      <4> QED BY <1>a, <2>1, <3>1, ScheduleServes
    <3>3. active' = Leaving \ {w}
      BY <1>a, <3>2, ZenonT(60) DEF Leaving
    <3> QED BY <2>1, <3>1, <3>2, <3>3, ZenonT(60)
  <2> QED BY <1>4, <2>2, <2>3 DEF Detach
<1>5. ASSUME NEW w \in Worker, WorkerStep(w) PROVE missed'
  <2>1. /\ missed' = missed /\ InRun' = InRun
        /\ \A v \in Worker : v # w => wpc'[v] = wpc[v]
        /\ queue # <<>>
    BY <1>5, ZenonT(60)
       DEF WorkerStep, CheckDetached, PopTask, Handover, ExecDone, RemoveWorker, history, InRun
  <2>2. w \in active => wpc[w] = "leave"
    <3>1. CASE RemoveWorker(w)
      BY <3>1, ZenonT(60) DEF RemoveWorker
    <3>2. CASE CheckDetached(w)
      BY <1>a, <3>2, ZenonT(60) DEF CheckDetached, listVars, SlotsExact
    <3>3. CASE PopTask(w)
      BY <1>a, <2>1, <3>3, ZenonT(60) DEF PopTask, listVars
    <3>4. CASE Handover(w) \/ ExecDone(w)
      BY <1>a, <3>4, ZenonT(60) DEF Handover, ExecDone, listVars
    <3> QED BY <1>5, <3>1, <3>2, <3>3, <3>4, ZenonT(60) DEF WorkerStep
  <2>3. active \ {w} \subseteq active'
    BY <1>5 DEF WorkerStep, CheckDetached, PopTask, Handover, ExecDone, RemoveWorker, listVars
  <2> QED BY <1>a, <1>b, <2>1, <2>2, <2>3, ZenonT(60)
<1> QED BY <1>1, <1>2, <1>3, <1>4, <1>5, ZenonT(60) DEF Next

\* The whole invariant holds at the start and is kept by every step.
LEMMA ManagerInvariance == Spec => []ManagerInv
<1>1. Init => ManagerInv
  <2> SUFFICES ASSUME Init PROVE ManagerInv
    OBVIOUS
  <2>1. ListInv
    <3>1. \A w \in Worker : ~Alive(w) /\ detached[w] = 0
      BY ZenonT(60) DEF Init, Alive
    <3> QED BY <3>1, ZenonT(60) DEF Init, ListInv, DetachedExact
  <2>2. QueueTypes
    <3>1. queue \in Seq(Task) /\ redetached \in SUBSET Worker
      BY DEF Init
    <3>2. wtask \in [Worker -> Task \cup {NoTask}] /\ missed \in BOOLEAN
      BY ZenonT(60) DEF Init
    <3>3. rpc \in [Task -> {"new", "pushed", "accepted", "dropped"}]
      BY ZenonT(60) DEF Init
    <3> QED BY <3>1, <3>2, <3>3, ZenonT(60) DEF QueueTypes
  <2>3. StrandedOnlyIfMissed
    BY ZenonT(60) DEF Init, StrandedOnlyIfMissed
  <2> QED BY <2>1, <2>2, <2>3, InitSlots, ZenonT(60) DEF ManagerInv
<1>2. ManagerInv /\ [Next]_vars => ManagerInv'
  BY StepSlots, StepList, StepQueue, StepStranded, ZenonT(60) DEF ManagerInv
<1> QED BY <1>1, <1>2, PTL DEF Spec

\* Every state of the worker manager is well typed; the detached list never
\* has fewer than no entries of a worker.
THEOREM WorkersTyped == Spec => []TypeOK
<1>1. ManagerInv => TypeOK
  BY ZenonT(60) DEF ManagerInv, SlotInv, SlotTypes, ListInv, QueueTypes, TypeOK
<1> QED BY <1>1, ManagerInvariance, PTL

\* The detached list has exactly one entry for every goroutine that runs
\* detached, unless two callers detached it.
THEOREM DetachedKept == Spec => []DetachedExact
<1>1. ManagerInv => DetachedExact
  BY DEF ManagerInv, ListInv
<1> QED BY <1>1, ManagerInvariance, PTL

\* Tasks wait without an active worker only after the race of Run or Detach
\* with workers on their way out: no other order of the goroutines strands one.
THEOREM StrandedKept == Spec => []StrandedOnlyIfMissed
<1>1. ManagerInv => StrandedOnlyIfMissed
  BY DEF ManagerInv
<1> QED BY <1>1, ManagerInvariance, PTL
=============================================================================
