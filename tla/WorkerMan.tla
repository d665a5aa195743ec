----------------------------- MODULE WorkerMan -----------------------------
(***************************************************************************)
(* The worker manager of pkg/appsrv (workers.go): a bounded queue of tasks *)
(* served by at most WorkerCount goroutines that are started on demand and *)
(* leave when they find the queue empty.  A caller may ask to be told, on  *)
(* an unbuffered channel, which worker took its task, and may detach that  *)
(* worker: it then no longer counts, and another one may take its place.   *)
(*                                                                         *)
(* A step is a critical section of workerLock or of the queue's own lock.  *)
(* The queue is the sequence of module BoundedQueue, which Ring implements.*)
(***************************************************************************)
EXTENDS Integers, Sequences, FiniteSets

CONSTANTS
  Task,         \* calls of Run, each with a task of its own
  WithChan,     \* the ones that pass a channel for the worker
  WorkerCount,
  Backlog,      \* the queue holds WorkerCount * Backlog tasks
  NoTask,
  MaxWorkers    \* bound of the model: workers ever started

ASSUME WorkerManAssumption ==
  /\ IsFiniteSet(Task)
  /\ WithChan \subseteq Task
  /\ NoTask \notin Task
  /\ WorkerCount \in Nat \ {0}
  /\ Backlog \in Nat
  /\ MaxWorkers \in Nat

VARIABLES
  queue,        \* the tasks that wait
  workerId,     \* workers started so far
  active,       \* activeWorker; no worker is ever in it twice
  detached,     \* detachedWorker: how many entries each worker has in it
  container,    \* the list a worker's container element belongs to, if any
  state,        \* SWorker.state
  wpc, wtask,   \* where each worker goroutine is, and its task
  rpc,          \* where each call of Run is
  known,        \* the worker each caller received on its channel; 0 for none
  missed,       \* history: a Run found all slots taken by workers that had
                \* already seen the queue empty
  redetached    \* history: workers detached more than once

Worker == 1..MaxWorkers

listVars == <<active, detached, container, state>>
workerVars == <<workerId, wpc, wtask>>
history == <<missed, redetached>>
vars == <<queue, listVars, workerVars, rpc, known, history>>

TypeOK ==
  /\ queue \in Seq(Task)
  /\ workerId \in 0..MaxWorkers
  /\ active \in SUBSET Worker
  /\ detached \in [Worker -> Nat]
  /\ container \in [Worker -> {"none", "active", "detached"}]
  /\ state \in [Worker -> {"active", "detach"}]
  /\ wpc \in [Worker -> {"unborn", "check", "pop", "hand", "exec", "leave", "gone"}]
  /\ wtask \in [Worker -> Task \cup {NoTask}]
  /\ rpc \in [Task -> {"new", "pushed", "accepted", "dropped"}]
  /\ known \in [Task -> Worker \cup {0}]
  /\ missed \in BOOLEAN
  /\ redetached \in SUBSET Worker

Init ==
  /\ queue = <<>>
  /\ workerId = 0
  /\ active = {}
  /\ detached = [w \in Worker |-> 0]
  /\ container = [w \in Worker |-> "none"]
  /\ state = [w \in Worker |-> "active"]
  /\ wpc = [w \in Worker |-> "unborn"]
  /\ wtask = [w \in Worker |-> NoTask]
  /\ rpc = [t \in Task |-> "new"]
  /\ known = [t \in Task |-> 0]
  /\ missed = FALSE
  /\ redetached = {}

-----------------------------------------------------------------------------
(***************************************************************************)
(* Starting workers.                                                       *)
(***************************************************************************)

\* Mistake: one worker too many.
scheduleOneMore(act, cont) ==
  \/ /\ Cardinality(act) <= WorkerCount
     /\ queue # <<>>
     /\ workerId < MaxWorkers
     /\ workerId' = workerId + 1
     /\ active' = act \cup {workerId'}
     /\ container' = [cont EXCEPT ![workerId'] = "active"]
     /\ wpc' = [wpc EXCEPT ![workerId'] = "check"]
  \/ /\ Cardinality(act) > WorkerCount \/ queue = <<>>
     /\ active' = act
     /\ container' = cont
     /\ UNCHANGED <<workerId, wpc>>

\* One more worker if there is a free slot and something to do.  act and cont
\* are activeWorker and the containers when it is called.
scheduleWithLock(act, cont) ==
  \/ /\ Cardinality(act) < WorkerCount
     /\ queue # <<>>
     /\ workerId < MaxWorkers
     /\ workerId' = workerId + 1
     /\ active' = act \cup {workerId'}
     /\ container' = [cont EXCEPT ![workerId'] = "active"]
     /\ wpc' = [wpc EXCEPT ![workerId'] = "check"]
  \/ /\ Cardinality(act) >= WorkerCount \/ queue = <<>>
     /\ active' = act
     /\ container' = cont
     /\ UNCHANGED <<workerId, wpc>>

Leaving == {w \in active : wpc[w] = "leave"}

-----------------------------------------------------------------------------
(***************************************************************************)
(* Run: push, then schedule.                                               *)
(***************************************************************************)
RunPush(t) ==
  /\ rpc[t] = "new"
  /\ \/ /\ Len(queue) < WorkerCount * Backlog
        /\ queue' = Append(queue, t)
        /\ rpc' = [rpc EXCEPT ![t] = "pushed"]
     \/ /\ Len(queue) >= WorkerCount * Backlog
        /\ rpc' = [rpc EXCEPT ![t] = "dropped"]
        /\ UNCHANGED queue
  /\ UNCHANGED <<listVars, workerVars, known, history>>

RunSchedule(t) ==
  /\ rpc[t] = "pushed"
  /\ rpc' = [rpc EXCEPT ![t] = "accepted"]
  /\ scheduleWithLock(active, container)
  /\ missed' = (missed \/ (queue # <<>> /\ active # {} /\ active' = Leaving))
  /\ UNCHANGED <<queue, detached, state, wtask, known, redetached>>

-----------------------------------------------------------------------------
(***************************************************************************)
(* SWorker.run.                                                            *)
(***************************************************************************)
CheckDetached(w) ==
  /\ wpc[w] = "check"
  /\ wpc' = [wpc EXCEPT ![w] = IF state[w] = "detach" THEN "leave" ELSE "pop"]
  /\ UNCHANGED <<queue, listVars, workerId, wtask, rpc, known, history>>

PopTask(w) ==
  /\ wpc[w] = "pop"
  /\ \/ /\ queue = <<>>
        /\ wpc' = [wpc EXCEPT ![w] = "leave"]
        /\ UNCHANGED <<queue, wtask>>
     \/ /\ queue # <<>>
        /\ queue' = Tail(queue)
        /\ wtask' = [wtask EXCEPT ![w] = Head(queue)]
        /\ wpc' = [wpc EXCEPT ![w] = IF Head(queue) \in WithChan THEN "hand" ELSE "exec"]
  /\ UNCHANGED <<listVars, workerId, rpc, known, history>>

\* task.worker <- worker: the caller has to receive.
Handover(w) ==
  /\ wpc[w] = "hand"
  /\ known' = [known EXCEPT ![wtask[w]] = w]
  /\ wpc' = [wpc EXCEPT ![w] = "exec"]
  /\ UNCHANGED <<queue, listVars, workerId, wtask, rpc, history>>

\* Mistake: a worker runs one task and leaves.
ExecDoneLeaves(w) ==
  /\ wpc[w] = "exec"
  /\ wpc' = [wpc EXCEPT ![w] = "leave"]
  /\ wtask' = [wtask EXCEPT ![w] = NoTask]
  /\ UNCHANGED <<queue, listVars, workerId, rpc, known, history>>

\* execCallback returns whether the task panics or not.
ExecDone(w) ==
  /\ wpc[w] = "exec"
  /\ wpc' = [wpc EXCEPT ![w] = "check"]
  /\ wtask' = [wtask EXCEPT ![w] = NoTask]
  /\ UNCHANGED <<queue, listVars, workerId, rpc, known, history>>

\* Mistake: the worker's state is not looked at and the active list is used.
RemoveActive(w) ==
  /\ wpc[w] = "leave"
  /\ wpc' = [wpc EXCEPT ![w] = "gone"]
  /\ container' = [container EXCEPT ![w] = "none"]
  /\ active' = active \ {w}
  /\ UNCHANGED <<queue, detached, state, workerId, wtask, rpc, known, history>>

\* list.Remove does nothing with an element of another list.
RemoveWorker(w) ==
  /\ wpc[w] = "leave"
  /\ wpc' = [wpc EXCEPT ![w] = "gone"]
  /\ container' = [container EXCEPT ![w] = "none"]
  /\ \/ /\ state[w] = "active"
        /\ active' = active \ {w}
        /\ UNCHANGED detached
     \/ /\ state[w] = "detach"
        /\ detached' = [detached EXCEPT ![w] = @ - 1]
        /\ UNCHANGED active
  /\ UNCHANGED <<queue, state, workerId, wtask, rpc, known, history>>

-----------------------------------------------------------------------------
(***************************************************************************)
(* Detach, by the caller that was told of the worker.                      *)
(***************************************************************************)

\* The worker has left: its container is nil and the removal panics, after the
\* state was set and before anything else.
DetachGone(w) ==
  /\ container[w] = "none"
  /\ UNCHANGED <<active, detached, container, workerId, wpc, missed, redetached>>

\* Mistake: the worker stays on the active list.
DetachStays(w) ==
  /\ container[w] # "none"
  /\ detached' = [detached EXCEPT ![w] = @ + 1]
  /\ redetached' = IF container[w] = "detached" THEN redetached \cup {w} ELSE redetached
  /\ scheduleWithLock(active, [container EXCEPT ![w] = "detached"])
  /\ missed' = (missed \/ (queue # <<>> /\ active' # {} /\ active' = Leaving \ {w}))

\* Mistake: nobody is started in the place of the detached worker.
DetachNoSchedule(w) ==
  /\ container[w] # "none"
  /\ detached' = [detached EXCEPT ![w] = @ + 1]
  /\ redetached' = IF container[w] = "detached" THEN redetached \cup {w} ELSE redetached
  /\ active' = active \ {w}
  /\ container' = [container EXCEPT ![w] = "detached"]
  /\ UNCHANGED <<workerId, wpc, missed>>

DetachLive(w) ==
  /\ container[w] # "none"
  /\ detached' = [detached EXCEPT ![w] = @ + 1]
  /\ redetached' = IF container[w] = "detached" THEN redetached \cup {w} ELSE redetached
  /\ scheduleWithLock(active \ {w}, [container EXCEPT ![w] = "detached"])
  /\ missed' = (missed \/ (queue # <<>> /\ active' # {} /\ active' = Leaving \ {w}))

Detach(t) ==
  LET w == known[t] IN
  /\ w # 0
  /\ known' = [known EXCEPT ![t] = 0]
  /\ state' = [state EXCEPT ![w] = "detach"]
  /\ DetachGone(w) \/ DetachLive(w)
  /\ UNCHANGED <<queue, wtask, rpc>>

-----------------------------------------------------------------------------
WorkerStep(w) ==
  CheckDetached(w) \/ PopTask(w) \/ Handover(w) \/ ExecDone(w) \/ RemoveWorker(w)

Next ==
  \/ \E t \in Task : RunPush(t) \/ RunSchedule(t) \/ Detach(t)
  \/ \E w \in Worker : WorkerStep(w)

Spec == Init /\ [][Next]_vars

-----------------------------------------------------------------------------
(***************************************************************************)
(* Properties.                                                             *)
(***************************************************************************)

Alive(w) == wpc[w] \notin {"unborn", "gone"}

\* Never more than WorkerCount workers count as active, whatever the order of
\* Run, Detach and workers that leave: the number of database connections is
\* computed from it (GetDBConnectionCount).
WorkerBound == Cardinality(active) <= WorkerCount

\* A slot is held by a goroutine that is running and not detached, and every
\* such goroutine holds one: no slot is lost when a worker is detached while
\* it leaves, or leaves while it is detached.
SlotsExact == active = {w \in Worker : Alive(w) /\ state[w] = "active"}

\* The detached list has one entry for every detached goroutine that still
\* runs.  (A worker that two callers detach leaves an entry behind.)
DetachedExact ==
  \A w \in Worker \ redetached :
    detached[w] = IF Alive(w) /\ state[w] = "detach" THEN 1 ELSE 0

InRun == \E t \in Task : rpc[t] = "pushed"

\* Tasks wait without an active worker to pop them only after a Run or a
\* Detach that took workers on their way out for workers.
StrandedOnlyIfMissed ==
  queue # <<>> /\ ~InRun /\ active = Leaving => missed

-----------------------------------------------------------------------------
(***************************************************************************)
(* What WorkerBound and SlotsExact need to be inductive.                   *)
(***************************************************************************)

\* Workers are numbered in the order they are started.
BornInOrder == \A w \in Worker : wpc[w] = "unborn" <=> w > workerId

\* A worker is in a list exactly while its goroutine runs, and a worker that
\* was not started yet is not detached.
ContainerExact ==
  \A w \in Worker :
    /\ container[w] = "none" <=> ~Alive(w)
    /\ wpc[w] = "unborn" => state[w] = "active"

\* Callers know started workers only.
KnownBorn == \A t \in Task : known[t] <= workerId

\* The part of TypeOK that the slots depend on.
SlotTypes ==
  /\ workerId \in 0..MaxWorkers
  /\ active \in SUBSET Worker
  /\ container \in [Worker -> {"none", "active", "detached"}]
  /\ state \in [Worker -> {"active", "detach"}]
  /\ wpc \in [Worker -> {"unborn", "check", "pop", "hand", "exec", "leave", "gone"}]
  /\ known \in [Task -> Worker \cup {0}]

SlotInv ==
  /\ SlotTypes
  /\ BornInOrder
  /\ ContainerExact
  /\ KnownBorn
  /\ SlotsExact
  /\ WorkerBound

\* What DetachedExact needs: a running worker is on the list its state names,
\* and one that is detached has an entry to remove when it leaves.
ListInv ==
  /\ detached \in [Worker -> Nat]
  /\ \A w \in Worker :
       Alive(w) => /\ container[w] = "detached" <=> state[w] = "detach"
                   /\ state[w] = "detach" => detached[w] > 0
  /\ DetachedExact

\* The rest of TypeOK.
QueueTypes ==
  /\ queue \in Seq(Task)
  /\ wtask \in [Worker -> Task \cup {NoTask}]
  /\ rpc \in [Task -> {"new", "pushed", "accepted", "dropped"}]
  /\ missed \in BOOLEAN
  /\ redetached \in SUBSET Worker

\* All of it is inductive together with what StrandedOnlyIfMissed says.
ManagerInv == SlotInv /\ ListInv /\ QueueTypes /\ StrandedOnlyIfMissed

-----------------------------------------------------------------------------
(***************************************************************************)
(* Liveness: goroutines are scheduled, tasks end and callers receive.      *)
(***************************************************************************)
Fairness ==
  /\ \A t \in Task : WF_vars(RunSchedule(t))
  /\ \A w \in Worker : WF_vars(WorkerStep(w))

FairSpec == Spec /\ Fairness

Waits(t) == \E i \in 1..Len(queue) : queue[i] = t

\* Every task that Run accepted is taken by a worker, unless a Run was misled
\* by workers on their way out.
AcceptedTaskTaken ==
  [](~missed) => \A t \in Task : Waits(t) ~> ~Waits(t)
=============================================================================
