--------------------------- MODULE HttpServeProofs --------------------------
(***************************************************************************)
(* Requests of the application server, for any number of requests and      *)
(* workers: they use the worker manager as any caller does, a request is   *)
(* handled by one worker, the worker a deadline detaches is the one that   *)
(* handles the request, and only a handler that panics by itself can end   *)
(* the process.                                                            *)
(***************************************************************************)
EXTENDS HttpServe, WorkerManProofs

\* Provers: the default time limits, then longer ones.
USE SMT, Zenon, SMTT(60), ZenonT(60)

-----------------------------------------------------------------------------
(***************************************************************************)
(* The inductive invariants.                                               *)
(***************************************************************************)

\* A task is in the queue once, and then with one worker.
Queued == {queue[i] : i \in 1..Len(queue)}

Busy == \A w \in Worker : wtask[w] # NoTask <=> wpc[w] \in {"hand", "exec"}
QueuedOnce == \A i, j \in 1..Len(queue) : queue[i] = queue[j] => i = j
QueuedByRun == \A t \in Queued : rpc[t] # "new"
WithOne ==
  \A w \in Worker : wtask[w] # NoTask =>
    /\ rpc[wtask[w]] # "new"
    /\ wtask[w] \notin Queued
    /\ \A v \in Worker : wtask[v] = wtask[w] => v = w

TakenOnce == Busy /\ QueuedOnce /\ QueuedByRun /\ WithOne

\* The places of the callback in closeChannels, after the mark; the ones of
\* onError; and those of them where the channels were found open.
Marked == {"shut", "errShut"}
Sends == {"errHeadSend", "errBodySend", "errMark", "errShut"}
Errs == {"errHead", "errBody", "errClose"}

HTypes ==
  /\ hpc \in [Task -> {"wait", "reply", "close", "mark", "shut", "done", "died"}]
  /\ expired \in [Task -> BOOLEAN]
  /\ isClosed \in [Task -> BOOLEAN]
  /\ closed \in [Task -> BOOLEAN]
  /\ wstep \in [Worker -> {"begin", "handler", "send", "close", "mark", "shut",
                           "errHead", "errHeadSend", "errBody", "errBodySend",
                           "errClose", "errMark", "errShut"}]
  /\ panicked \in BOOLEAN
  /\ crashed \in BOOLEAN

\* isClosed comes before the close, on either side.
MarkFirst ==
  /\ \A t \in Task : closed[t] \/ hpc[t] = "shut" => isClosed[t]
  /\ \A w \in Worker : wstep[w] \in Marked => isClosed[wtask[w]]

\* A worker is in a callback only while it executes a task.
InCallback == \A w \in Worker : wstep[w] # "begin" => wpc[w] = "exec"

\* Without a panic of the handler, onError finds the channels closed.
ErrorQuiet ==
  ~panicked =>
    /\ ~crashed
    /\ \A w \in Worker : /\ wstep[w] \notin Sends
                         /\ wstep[w] \in Errs => isClosed[wtask[w]]

\* While a request waits, its worker has the task, or the channels are closed,
\* or about to be by the worker.
Runs(w, t) == wtask[w] = t /\ wpc[w] = "exec"

OwnWorker ==
  \A t \in Task : hpc[t] = "wait" /\ ~closed[t] =>
    /\ known[t] # 0 => Runs(known[t], t)
    /\ isClosed[t] => \E w \in Worker : Runs(w, t) /\ wstep[w] \in Marked

HInv == HTypes /\ MarkFirst /\ InCallback /\ ErrorQuiet /\ OwnWorker

-----------------------------------------------------------------------------
(***************************************************************************)
(* Requests use the worker manager as its other callers do.                *)
(***************************************************************************)

\* A step of the application server is a step of the worker manager or leaves
\* it alone.
LEMMA StepImplements == [HNext]_hvars => [Next]_vars
<1> SUFFICES ASSUME [HNext]_hvars PROVE [Next]_vars
  OBVIOUS
<1>1. CASE UNCHANGED hvars
  BY <1>1, ZenonT(60) DEF hvars
<1>2. ASSUME NEW t \in Task, RequestStep(t) \/ Deadline(t) PROVE [Next]_vars
  <2>1. RunPush(t) \/ RunSchedule(t) \/ Detach(t) \/ UNCHANGED vars
    BY <1>2, ZenonT(60)
       DEF RequestStep, Deadline, Submit, TimeoutQueued, TimeoutRunning, ResponseEnded,
      ReplyTimeout, CloseTest, CloseMark, CloseShut
  <2> QED BY <2>1, ZenonT(60) DEF Next
<1>3. ASSUME NEW w \in Worker, CallbackStep(w) \/ LoopStep(w) PROVE [Next]_vars
  <2>1. WorkerStep(w) \/ UNCHANGED vars
    BY <1>3, ZenonT(60) DEF CallbackStep, LoopStep, WorkerStep, ReceiveWorker, Begin,
         HandlerWrite, HandlerReturn,
      HandlerPanic, Send, SendPanic, ErrorWrite, WorkerCloseTest, WorkerCloseMark, WorkerCloseShut, Goes, TaskOver
  <2> QED BY <2>1, ZenonT(60) DEF Next
<1> QED BY <1>1, <1>2, <1>3, ZenonT(60) DEF HNext

\* Whatever requests, deadlines and handlers do, the worker manager behaves as
\* it does for any caller: what is proved of WorkerMan holds here.
THEOREM UsesWorkerManager == HSpec => Spec
<1>1. HInit => Init
  BY ZenonT(60) DEF HInit
<1> QED BY <1>1, StepImplements, PTL DEF HSpec, Spec

-----------------------------------------------------------------------------
(***************************************************************************)
(* A task has one worker at most.                                          *)
(***************************************************************************)

\* Starting a worker touches none that has a task.
LEMMA ScheduleSteady ==
  ASSUME SlotInv, NEW t \in Task, RunSchedule(t) \/ Detach(t)
  PROVE  /\ UNCHANGED <<queue, wtask>>
         /\ \A v \in Worker : wpc'[v] = wpc[v] \/ (wpc[v] = "unborn" /\ wpc'[v] = "check")
<1>1. UNCHANGED <<queue, wtask>>
  BY ZenonT(60) DEF RunSchedule, Detach
<1>2. CASE RunSchedule(t)
  BY <1>1, <1>2, ScheduleStarts, ZenonT(60) DEF RunSchedule, SlotInv, SlotTypes
<1>3. CASE Detach(t)
  <2>1. CASE wpc' = wpc
    BY <1>1, <2>1, ZenonT(60)
  <2>2. CASE scheduleWithLock(active \ {known[t]}, [container EXCEPT ![known[t]] = "detached"])
    <3>1. [container EXCEPT ![known[t]] = "detached"] \in [Worker -> {"none", "active", "detached"}]
      BY DEF SlotInv, SlotTypes
    <3> QED BY <1>1, <2>2, <3>1, ScheduleStarts, ZenonT(60)
  <2> QED BY <1>3, <2>1, <2>2, ZenonT(60) DEF Detach, DetachGone, DetachLive
<1> QED BY <1>2, <1>3, ZenonT(60)

\* No step gives a task to two workers or queues it again.
LEMMA StepTaken == SlotInv /\ QueueTypes /\ TakenOnce /\ [Next]_vars => TakenOnce'
<1> SUFFICES ASSUME SlotInv, QueueTypes, TakenOnce, [Next]_vars PROVE TakenOnce'
  OBVIOUS
<1> USE DEF TakenOnce
<1>1. Queued \subseteq Task
  BY DEF Queued, QueueTypes
<1>2. \A w \in Worker : wtask[w] # NoTask => wtask[w] \in Task
  BY ZenonT(60) DEF QueueTypes
<1>3. ASSUME UNCHANGED <<queue, wtask>>,
             \A s \in Task : rpc[s] # "new" => rpc'[s] # "new",
             \A v \in Worker : wpc'[v] \in {"hand", "exec"} <=> wpc[v] \in {"hand", "exec"}
      PROVE  TakenOnce'
  <2>1. QueuedOnce' /\ Queued' = Queued
    BY <1>3, ZenonT(60) DEF QueuedOnce, Queued
  <2>2. QueuedByRun' /\ Busy'
    BY <1>1, <1>3, <2>1, ZenonT(60) DEF QueuedByRun, Busy
  <2>3. WithOne'
    BY <1>2, <1>3, <2>1, ZenonT(60) DEF WithOne
  <2> QED BY <2>1, <2>2, <2>3, ZenonT(60)
<1>4. CASE UNCHANGED vars
  <2>1. UNCHANGED <<queue, wtask, rpc, wpc>>
    BY <1>4, ZenonT(60) DEF vars, workerVars
  <2> QED BY <1>3, <2>1, ZenonT(60)
<1>5. ASSUME NEW t \in Task, RunPush(t) PROVE TakenOnce'
  <2>1. UNCHANGED <<wtask, wpc>> /\ rpc[t] = "new" /\ rpc'[t] # "new" /\ \A s \in Task : s # t => rpc'[s] = rpc[s]
    BY <1>5, ZenonT(60) DEF RunPush, workerVars, QueueTypes
  <2>2. CASE queue' = queue
    BY <1>3, <2>1, <2>2, ZenonT(60)
  <2>3. CASE queue' = Append(queue, t)
    <3>1. /\ Len(queue) \in Nat /\ Len(queue') = Len(queue) + 1 /\ queue'[Len(queue) + 1] = t
          /\ \A i \in 1..Len(queue) : queue'[i] = queue[i]
      BY <2>3 DEF QueueTypes
    <3>2. t \notin Queued
      BY <2>1, ZenonT(60) DEF QueuedByRun
    <3>3. \A i \in 1..Len(queue) : queue[i] # t
      BY <3>2, ZenonT(60) DEF Queued
    <3>4. QueuedOnce'
      BY <3>1, <3>3, SMT DEF QueuedOnce
    <3>5. Queued' = Queued \cup {t}
      BY <3>1, SMT DEF Queued
    <3>6. QueuedByRun' /\ Busy'
      BY <1>1, <2>1, <3>5, ZenonT(60) DEF QueuedByRun, Busy
    <3>7. WithOne'
      BY <1>2, <2>1, <3>5, ZenonT(60) DEF WithOne
    <3> QED BY <3>4, <3>6, <3>7, ZenonT(60)
  <2> QED BY <1>5, <2>2, <2>3, ZenonT(60) DEF RunPush
<1>6. ASSUME NEW t \in Task, RunSchedule(t) \/ Detach(t) PROVE TakenOnce'
  <2>1. \A s \in Task : rpc[s] # "new" => rpc'[s] # "new"
    BY <1>6, ZenonT(60) DEF RunSchedule, Detach, QueueTypes
  <2>2. \A v \in Worker : wpc'[v] \in {"hand", "exec"} <=> wpc[v] \in {"hand", "exec"}
    BY <1>6, ScheduleSteady, ZenonT(60)
  <2> QED BY <1>3, <1>6, <2>1, <2>2, ScheduleSteady, ZenonT(60)
<1>7. ASSUME NEW w \in Worker, WorkerStep(w) PROVE TakenOnce'
  <2>1. rpc' = rpc /\ wpc \in [Worker -> {"unborn", "check", "pop", "hand", "exec", "leave", "gone"}]
    BY <1>7, ZenonT(60) DEF WorkerStep, CheckDetached, PopTask, Handover, ExecDone,
         RemoveWorker, SlotInv, SlotTypes
  <2>2. \A v \in Worker : v # w => wpc'[v] = wpc[v]
    BY <1>7, <2>1, ZenonT(60)
       DEF WorkerStep, CheckDetached, PopTask, Handover, ExecDone, RemoveWorker
  <2>3. CASE CheckDetached(w) \/ Handover(w) \/ RemoveWorker(w) \/ (PopTask(w) /\ queue = <<>>)
    <3>1. UNCHANGED <<queue, wtask>>
      BY <2>3, ZenonT(60) DEF CheckDetached, Handover, RemoveWorker, PopTask
    <3>2. wpc'[w] \in {"hand", "exec"} <=> wpc[w] \in {"hand", "exec"}
      BY <2>1, <2>3, ZenonT(60) DEF CheckDetached, Handover, RemoveWorker, PopTask
    <3> QED BY <1>3, <2>1, <2>2, <3>1, <3>2, ZenonT(60)
  <2>4. CASE ExecDone(w)
    <3>1. /\ queue' = queue /\ wpc'[w] = "check" /\ wtask'[w] = NoTask
          /\ \A v \in Worker : v # w => wtask'[v] = wtask[v]
      BY <2>1, <2>4, ZenonT(60) DEF ExecDone, QueueTypes
    <3>2. QueuedOnce' /\ Queued' = Queued
      BY <3>1, ZenonT(60) DEF QueuedOnce, Queued
    <3>3. QueuedByRun' /\ Busy'
      BY <2>1, <2>2, <3>1, <3>2, ZenonT(60) DEF QueuedByRun, Busy
    <3>4. WithOne'
      BY <2>1, <3>1, <3>2, ZenonT(60) DEF WithOne
    <3> QED BY <3>2, <3>3, <3>4, ZenonT(60)
  <2>5. CASE PopTask(w) /\ queue # <<>>
    <3>1. /\ queue' = Tail(queue) /\ wtask'[w] = Head(queue) /\ \A v \in Worker : v # w => wtask'[v] = wtask[v]
          /\ wpc[w] = "pop" /\ wpc'[w] \in {"hand", "exec"}
      BY <2>1, <2>5, ZenonT(60) DEF PopTask, QueueTypes
    <3>2. /\ Len(queue) \in Nat /\ Len(queue') = Len(queue) - 1
          /\ Head(queue) = queue[1] /\ 1 \in 1..Len(queue)
          /\ \A i \in 1..Len(queue') : i + 1 \in 1..Len(queue) /\ queue'[i] = queue[i + 1]
      BY <2>5, <3>1 DEF QueueTypes
    <3>3. QueuedOnce' /\ \A i \in 1..Len(queue') : queue'[i] # queue[1]
      BY <3>2, SMT DEF QueuedOnce
    <3>4. Head(queue) \in Queued /\ Head(queue) \notin Queued' /\ Queued' \subseteq Queued
      BY <3>2, <3>3, ZenonT(60) DEF Queued
    <3>5. Head(queue) \in Task /\ Head(queue) # NoTask
      BY <1>1, <3>4, WorkerManAssumption, ZenonT(60)
    <3>6. QueuedByRun'
      BY <2>1, <3>4, ZenonT(60) DEF QueuedByRun
    <3>7. Busy'
      BY <2>2, <3>1, <3>5, ZenonT(60) DEF Busy
    <3>8. WithOne'
      <4>1. rpc[Head(queue)] # "new"
        BY <3>4, ZenonT(60) DEF QueuedByRun
      <4>2. \A v \in Worker : wtask[v] # Head(queue)
        BY <3>4, <3>5, ZenonT(60) DEF WithOne
      <4> QED BY <2>1, <3>1, <3>4, <4>1, <4>2, ZenonT(60) DEF WithOne
    <3> QED BY <3>3, <3>6, <3>7, <3>8, ZenonT(60)
  <2> QED BY <1>7, <2>3, <2>4, <2>5, ZenonT(60) DEF WorkerStep
<1> QED BY <1>4, <1>5, <1>6, <1>7, ZenonT(60) DEF Next

\* A task that is popped is in no other place: no request is handled by two
\* workers, whichever of them are detached and replaced meanwhile.
THEOREM TaskTakenOnce == Spec => []TakenOnce
<1>1. Init => TakenOnce
  <2> SUFFICES ASSUME Init PROVE TakenOnce
    OBVIOUS
  <2>1. Queued = {} /\ QueuedOnce
    BY DEF Init, Queued, QueuedOnce
  <2> QED BY <2>1, ZenonT(60) DEF Init, TakenOnce, Busy, QueuedByRun, WithOne
<1>2. ManagerInv /\ TakenOnce /\ [Next]_vars => TakenOnce'
  BY StepTaken, ZenonT(60) DEF ManagerInv
<1> QED BY <1>1, <1>2, ManagerInvariance, PTL DEF Spec

-----------------------------------------------------------------------------
(***************************************************************************)
(* The steps of a request's goroutine and of the workers' loops.           *)
(***************************************************************************)

\* Workers that execute a callback go on, and callers know no other worker.
Steady ==
  /\ \A v \in Worker : wpc[v] = "exec" => wpc'[v] = "exec" /\ wtask'[v] = wtask[v]
  /\ \A t \in Task : known'[t] = known[t] \/ known'[t] = 0

\* The tasks of the workers are requests.
LEMMA TaskOfWorker ==
  ASSUME QueueTypes, TakenOnce, HInv, NEW w \in Worker
  PROVE  /\ wpc[w] = "exec" => wtask[w] \in Task
         /\ wstep[w] # "begin" => wpc[w] = "exec" /\ wtask[w] \in Task
BY ZenonT(60) DEF QueueTypes, TakenOnce, Busy, HInv, InCallback

\* The steps of the manager but for Handover and ExecDone are steady.
LEMMA ManagerSteady ==
  ASSUME SlotInv, QueueTypes, TakenOnce,
         \/ \E t \in Task : RunPush(t) \/ RunSchedule(t) \/ Detach(t)
         \/ \E w \in Worker : CheckDetached(w) \/ PopTask(w) \/ RemoveWorker(w)
         \/ UNCHANGED vars
  PROVE  Steady
<1>1. CASE UNCHANGED vars
  BY <1>1, ZenonT(60) DEF vars, workerVars, Steady
<1>2. ASSUME NEW t \in Task, RunPush(t) PROVE Steady
  BY <1>2, ZenonT(60) DEF RunPush, workerVars, Steady
<1>3. ASSUME NEW t \in Task, RunSchedule(t) \/ Detach(t) PROVE Steady
  <2>1. \A s \in Task : known'[s] = known[s] \/ known'[s] = 0
    BY <1>3, ZenonT(60) DEF RunSchedule, Detach, SlotInv, SlotTypes
  <2> QED BY <1>3, <2>1, ScheduleSteady, ZenonT(60) DEF Steady
<1>4. ASSUME NEW w \in Worker, CheckDetached(w) \/ PopTask(w) \/ RemoveWorker(w) PROVE Steady
  <2>1. /\ wpc[w] # "exec" /\ known' = known
        /\ \A v \in Worker : v # w => wpc'[v] = wpc[v] /\ wtask'[v] = wtask[v]
    BY <1>4, ZenonT(60) DEF CheckDetached, PopTask, RemoveWorker, SlotInv, SlotTypes, QueueTypes
  <2> QED BY <2>1, ZenonT(60) DEF Steady
<1> QED BY <1>1, <1>2, <1>3, <1>4, ZenonT(60)

\* What a step of the request's goroutine may do to the channels.
FromOutside ==
  /\ HTypes' /\ UNCHANGED <<wstep, panicked, crashed>>
  /\ \A t \in Task : isClosed[t] => isClosed'[t]
  /\ \A t \in Task : closed'[t] \/ hpc'[t] = "shut" => isClosed'[t]
  /\ \A t \in Task : hpc'[t] = "wait" =>
       hpc[t] = "wait" /\ isClosed'[t] = isClosed[t] /\ closed'[t] = closed[t]

\* Such a step disturbs no callback and hides no worker from who waits.
LEMMA OutsideStep ==
  ASSUME SlotInv, QueueTypes, TakenOnce, HInv, Steady, FromOutside
  PROVE  HInv'
<1>1. \A w \in Worker : wstep[w] # "begin" =>
        wpc[w] = "exec" /\ wpc'[w] = "exec" /\ wtask[w] \in Task /\ wtask'[w] = wtask[w]
  BY TaskOfWorker, ZenonT(60) DEF Steady
<1>2. MarkFirst'
  BY <1>1, ZenonT(60) DEF FromOutside, HInv, MarkFirst, Marked
<1>3. InCallback'
  BY <1>1, ZenonT(60) DEF FromOutside, InCallback
<1>4. ErrorQuiet'
  BY <1>1, ZenonT(60) DEF FromOutside, HInv, ErrorQuiet, Sends, Errs
<1>5. OwnWorker'
  <2> SUFFICES ASSUME NEW t \in Task, hpc'[t] = "wait", ~closed'[t]
      PROVE  /\ known'[t] # 0 => Runs(known[t], t)'
             /\ isClosed'[t] => \E w \in Worker : Runs(w, t)' /\ wstep'[w] \in Marked
    BY ZenonT(60) DEF OwnWorker
  <2>1. /\ known[t] # 0 => Runs(known[t], t)
        /\ isClosed[t] => \E w \in Worker : Runs(w, t) /\ wstep[w] \in Marked
    BY ZenonT(60) DEF FromOutside, HInv, OwnWorker
  <2>2. known[t] # 0 => known[t] \in Worker
    BY ZenonT(60) DEF SlotInv, SlotTypes
  <2>3. \A w \in Worker : Runs(w, t) => Runs(w, t)'
    BY ZenonT(60) DEF Runs, Steady
  <2>4. known'[t] # 0 => known'[t] = known[t]
    BY ZenonT(60) DEF Steady
  <2>5. known'[t] # 0 => Runs(known[t], t)'
    BY <2>1, <2>2, <2>4, ZenonT(60) DEF Runs, Steady
  <2> QED BY <2>1, <2>3, <2>5, ZenonT(60) DEF FromOutside
<1> QED BY <1>2, <1>3, <1>4, <1>5, ZenonT(60) DEF HInv, FromOutside

\* The goroutine of a request leaves the other requests' channels alone.
LEMMA RequestPreserves ==
  ASSUME SlotInv, QueueTypes, TakenOnce, HInv, NEW t \in Task, RequestStep(t) \/ Deadline(t)
  PROVE  HInv'
<1>1. Steady
  <2>1. RunPush(t) \/ RunSchedule(t) \/ Detach(t) \/ UNCHANGED vars
    BY ZenonT(60)
       DEF RequestStep, Deadline, Submit, TimeoutQueued, TimeoutRunning, ResponseEnded,
      ReplyTimeout, CloseTest, CloseMark, CloseShut
  <2> QED BY <2>1, ManagerSteady, ZenonT(60)
<1>2. FromOutside
  <2> USE DEF FromOutside, HInv, HTypes, MarkFirst
  <2>1. CASE Submit(t) \/ Deadline(t)
    BY <2>1, ZenonT(60) DEF Submit, Deadline, httpVars
  <2>2. CASE TimeoutQueued(t) \/ TimeoutRunning(t) \/ ResponseEnded(t) \/ ReplyTimeout(t)
    <3>1. PICK to \in {"reply", "died", "close"} :
            hpc' = [hpc EXCEPT ![t] = to] /\ UNCHANGED <<expired, isClosed, closed, wstep, panicked, crashed>>
      BY <2>2, ZenonT(60) DEF TimeoutQueued, TimeoutRunning, ResponseEnded, ReplyTimeout
    <3> QED BY <3>1, ZenonT(60)
  <2>3. CASE CloseTest(t)
    BY <2>3, ZenonT(60) DEF CloseTest
  <2>4. CASE CloseMark(t)
    BY <2>4, ZenonT(60) DEF CloseMark
  <2>5. CASE CloseShut(t)
    BY <2>5, ZenonT(60) DEF CloseShut
  <2> QED BY <2>1, <2>2, <2>3, <2>4, <2>5, ZenonT(60) DEF RequestStep
<1> QED BY <1>1, <1>2, OutsideStep, ZenonT(60)

\* A worker between two tasks touches no request.
LEMMA LoopPreserves ==
  ASSUME SlotInv, QueueTypes, TakenOnce, HInv, NEW w \in Worker, LoopStep(w)
  PROVE  HInv'
<1>1. Steady
  BY ManagerSteady, ZenonT(60) DEF LoopStep
<1>2. FromOutside
  BY ZenonT(60) DEF LoopStep, httpVars, FromOutside, HInv, HTypes, MarkFirst
<1> QED BY <1>1, <1>2, OutsideStep, ZenonT(60)

-----------------------------------------------------------------------------
(***************************************************************************)
(* The steps of a callback.                                                *)
(***************************************************************************)

\* A worker w goes on in its callback for t, and may mark or close the channels.
Inside(w, t) ==
  /\ wpc[w] = "exec" /\ wtask[w] = t
  /\ HTypes' /\ hpc' = hpc
  /\ \A s \in Task : s # t => isClosed'[s] = isClosed[s] /\ closed'[s] = closed[s]
  /\ isClosed[t] => isClosed'[t]
  /\ closed[t] => closed'[t]
  /\ closed'[t] => isClosed'[t]
  /\ \A v \in Worker : v # w => wstep'[v] = wstep[v]
  /\ wstep'[w] \in Marked => isClosed'[t]
  /\ ~panicked' => ~panicked /\ ~crashed'

\* The end of the callback, unless the worker has marked the channels and goes
\* on: they are closed, or were marked by somebody else before.
Seen(w, t) == closed'[t] \/ (isClosed[t] /\ wstep[w] \notin Marked)

\* A worker that marks the channels goes on to close them.
LEMMA WorkerGoes ==
  ASSUME SlotInv, QueueTypes, TakenOnce, HInv, NEW w \in Worker, NEW t \in Task, Inside(w, t),
         UNCHANGED vars,
         isClosed'[t] => wstep'[w] \in Marked \/ Seen(w, t),
         ~panicked' => wstep'[w] \notin Sends /\ (wstep'[w] \in Errs => isClosed'[t])
  PROVE  HInv'
<1>1. UNCHANGED <<wpc, wtask, known>>
  BY ZenonT(60) DEF vars, workerVars
<1>2. \A v \in Worker : v # w /\ wstep[v] # "begin" => wtask[v] \in Task /\ wtask[v] # t
  BY TaskOfWorker, ZenonT(60) DEF TakenOnce, WithOne, Inside, Busy
<1>3. MarkFirst'
  BY <1>1, <1>2, ZenonT(60) DEF Inside, HInv, MarkFirst, Marked
<1>4. InCallback'
  BY <1>1, ZenonT(60) DEF Inside, HInv, InCallback
<1>5. ErrorQuiet'
  BY <1>1, <1>2, ZenonT(60) DEF Inside, HInv, ErrorQuiet, Sends, Errs
<1>6. OwnWorker'
  <2> SUFFICES ASSUME NEW s \in Task, hpc'[s] = "wait", ~closed'[s]
      PROVE  /\ known'[s] # 0 => Runs(known[s], s)'
             /\ isClosed'[s] => \E v \in Worker : Runs(v, s)' /\ wstep'[v] \in Marked
    BY ZenonT(60) DEF OwnWorker
  <2>1. hpc[s] = "wait" /\ ~closed[s]
    BY ZenonT(60) DEF Inside
  <2>2. /\ known[s] # 0 => Runs(known[s], s)
        /\ isClosed[s] => \E v \in Worker : Runs(v, s) /\ wstep[v] \in Marked
    BY <2>1, ZenonT(60) DEF HInv, OwnWorker
  <2>3. CASE s # t
    BY <1>1, <2>2, <2>3, ZenonT(60) DEF Inside, Runs
  <2>4. CASE s = t
    <3>1. \A v \in Worker : Runs(v, t) => v = w
      BY WorkerManAssumption, ZenonT(60) DEF Inside, Runs, TakenOnce, WithOne
    <3>2. isClosed'[t] => wstep'[w] \in Marked
      BY <2>2, <2>4, <3>1, ZenonT(60) DEF Seen
    <3> QED BY <1>1, <2>2, <2>4, <3>2, ZenonT(60) DEF Inside, Runs
  <2> QED BY <2>3, <2>4, ZenonT(60)
<1> QED BY <1>3, <1>4, <1>5, <1>6, ZenonT(60) DEF HInv, Inside

\* The task is over: who waits for it finds the channels closed.
LEMMA WorkerEnds ==
  ASSUME SlotInv, QueueTypes, TakenOnce, HInv, NEW w \in Worker, NEW t \in Task, Inside(w, t),
         TaskOver(w), Seen(w, t)
  PROVE  HInv'
<1>1. /\ known' = known /\ wstep'[w] = "begin"
      /\ \A v \in Worker : v # w => wpc'[v] = wpc[v] /\ wtask'[v] = wtask[v]
  BY ZenonT(60) DEF TaskOver, ExecDone, SlotInv, SlotTypes, QueueTypes, HInv, HTypes
<1>2. \A v \in Worker : v # w /\ wstep[v] # "begin" => wtask[v] \in Task /\ wtask[v] # t
  BY TaskOfWorker, ZenonT(60) DEF TakenOnce, WithOne, Inside, Busy
<1>3. MarkFirst'
  <2>1. \A s \in Task : closed'[s] \/ hpc'[s] = "shut" => isClosed'[s]
    BY ZenonT(60) DEF Inside, HInv, MarkFirst
  <2>2. \A v \in Worker : wstep'[v] \in Marked => isClosed'[wtask'[v]]
    BY <1>1, <1>2, ZenonT(60) DEF Inside, HInv, MarkFirst, Marked
  <2> QED BY <2>1, <2>2, ZenonT(60) DEF MarkFirst
<1>4. InCallback'
  BY <1>1, ZenonT(60) DEF Inside, HInv, InCallback
<1>5. ErrorQuiet'
  BY <1>1, <1>2, ZenonT(60) DEF Inside, HInv, ErrorQuiet, Sends, Errs
<1>6. OwnWorker'
  <2> SUFFICES ASSUME NEW s \in Task, hpc'[s] = "wait", ~closed'[s]
      PROVE  /\ known'[s] # 0 => Runs(known[s], s)'
             /\ isClosed'[s] => \E v \in Worker : Runs(v, s)' /\ wstep'[v] \in Marked
    BY ZenonT(60) DEF OwnWorker
  <2>1. hpc[s] = "wait" /\ ~closed[s]
    BY ZenonT(60) DEF Inside
  <2>2. /\ known[s] # 0 => Runs(known[s], s)
        /\ isClosed[s] => \E v \in Worker : Runs(v, s) /\ wstep[v] \in Marked
    BY <2>1, ZenonT(60) DEF HInv, OwnWorker
  <2>3. s # t
    <3>1. \A v \in Worker : Runs(v, t) => v = w
      BY WorkerManAssumption, ZenonT(60) DEF Inside, Runs, TakenOnce, WithOne
    <3> QED BY <2>2, <3>1, ZenonT(60) DEF Seen
  <2>4. \A v \in Worker : Runs(v, s) => v # w
    BY <2>3, ZenonT(60) DEF Runs, Inside
  <2>5. known[s] # 0 => known[s] \in Worker
    BY ZenonT(60) DEF SlotInv, SlotTypes
  <2>6. known'[s] # 0 => Runs(known[s], s)'
    BY <1>1, <2>2, <2>4, <2>5, ZenonT(60) DEF Runs
  <2>7. isClosed'[s] => \E v \in Worker : Runs(v, s)' /\ wstep'[v] \in Marked
    BY <1>1, <2>2, <2>3, <2>4, ZenonT(60) DEF Runs, Inside
  <2> QED BY <2>6, <2>7, ZenonT(60)
<1> QED BY <1>3, <1>4, <1>5, <1>6, ZenonT(60) DEF HInv, Inside

\* The request is told of its worker.
LEMMA WorkerReceived ==
  ASSUME SlotInv, QueueTypes, TakenOnce, HInv, NEW w \in Worker, wtask[w] # NoTask, ReceiveWorker(w)
  PROVE  HInv'
<1>1. PICK t \in Task : t = wtask[w]
  BY ZenonT(60) DEF QueueTypes
<1>2. /\ UNCHANGED <<hpc, isClosed, closed, panicked, crashed, wtask>> /\ wpc[w] = "hand" /\ HTypes'
      /\ wpc'[w] = "exec" /\ wstep'[w] = "begin"
      /\ \A v \in Worker : v # w => wpc'[v] = wpc[v] /\ wstep'[v] = wstep[v]
      /\ known'[t] = w /\ \A s \in Task : s # t => known'[s] = known[s]
  BY <1>1, ZenonT(60) DEF ReceiveWorker, Handover, SlotInv, SlotTypes, HInv, HTypes
<1>3. wstep[w] = "begin"
  BY <1>2, ZenonT(60) DEF HInv, InCallback
<1>4. wstep' = wstep
  BY <1>3, ZenonT(60) DEF ReceiveWorker, HInv, HTypes
<1>5. MarkFirst' /\ InCallback' /\ ErrorQuiet'
  BY <1>2, <1>3, <1>4, ZenonT(60) DEF HInv, MarkFirst, InCallback, ErrorQuiet
<1>6. OwnWorker'
  <2>1. \A v \in Worker, s \in Task : Runs(v, s) => v # w /\ Runs(v, s)' /\ wtask'[v] = s /\ wpc'[v] = "exec"
    BY <1>2, ZenonT(60) DEF Runs
  <2>2. \A s \in Task : known[s] # 0 => known[s] \in Worker
    BY ZenonT(60) DEF SlotInv, SlotTypes
  <2>3. \A s \in Task : hpc[s] = "wait" /\ ~closed[s] /\ known'[s] # 0 => Runs(known[s], s)'
    <3>1. Runs(known[t], t)'
      BY <1>1, <1>2, ZenonT(60) DEF Runs
    <3>2. ASSUME NEW s \in Task, s # t, hpc[s] = "wait", ~closed[s], known'[s] # 0  PROVE Runs(known[s], s)'
      <4>1. known'[s] = known[s] /\ Runs(known[s], s)
        BY <1>2, <3>2, ZenonT(60) DEF HInv, OwnWorker
      <4>2. wtask'[known[s]] = s /\ wpc'[known[s]] = "exec"
        BY <2>1, <2>2, <3>2, <4>1, ZenonT(60)
      <4> QED BY <4>1, <4>2, ZenonT(60) DEF Runs
    <3> QED BY <3>1, <3>2, ZenonT(60)
  <2> QED BY <1>2, <1>4, <2>1, <2>3, ZenonT(60) DEF HInv, OwnWorker
<1> QED BY <1>2, <1>5, <1>6, ZenonT(60) DEF HInv

\* Every step of the callback.
LEMMA CallbackPreserves ==
  ASSUME SlotInv, QueueTypes, TakenOnce, HInv, NEW w \in Worker, CallbackStep(w)
  PROVE  HInv'
<1>1. CASE ReceiveWorker(w)
  BY <1>1, WorkerReceived, ZenonT(60) DEF CallbackStep
<1>2. CASE ~ReceiveWorker(w)
  <2>1. PICK t \in Task : t = wtask[w]
    BY ZenonT(60) DEF CallbackStep, QueueTypes
  <2>2. wpc[w] = "exec" /\ hpc' = hpc /\ expired' = expired
    BY <1>2, ZenonT(60) DEF CallbackStep, Begin, HandlerWrite, HandlerReturn, HandlerPanic,
         Send, SendPanic, ErrorWrite,
      WorkerCloseTest, WorkerCloseMark, WorkerCloseShut, Goes, TaskOver, ExecDone
  <2>3. /\ HTypes /\ (closed[t] => isClosed[t]) /\ (wstep[w] \in Marked => isClosed[t])
        /\ ~panicked => ~crashed /\ wstep[w] \notin Sends /\ (wstep[w] \in Errs => isClosed[t])
    BY <2>1, ZenonT(60) DEF HInv, MarkFirst, ErrorQuiet
  <2> USE DEF Marked, Sends, Errs
  <2>4. ASSUME NEW to \in {"handler", "send", "close", "mark", "errHead", "errHeadSend", "errBody", "errBodySend",
                           "errClose", "errMark"},
               Goes(w, wstep[w], to), UNCHANGED <<isClosed, closed, crashed>>, panicked' \in BOOLEAN,
               wstep[w] \in Marked => closed[t],
               ~panicked' => ~panicked /\ to \notin Sends /\ (to \in Errs => isClosed[t])
        PROVE  HInv'
    <3>1. wstep' = [wstep EXCEPT ![w] = to] /\ wstep'[w] = to /\ UNCHANGED vars
      BY <2>3, <2>4, ZenonT(60) DEF Goes, HTypes
    <3>2. HTypes'
      BY <2>2, <2>3, <2>4, <3>1, ZenonT(60) DEF HTypes
    <3>3. Inside(w, t)
      BY <2>1, <2>2, <2>3, <2>4, <3>1, <3>2, ZenonT(60) DEF Inside, HTypes
    <3>4. isClosed'[t] => Seen(w, t)
      BY <2>4, ZenonT(60) DEF Seen
    <3> QED BY <2>4, <3>1, <3>3, <3>4, WorkerGoes, ZenonT(60)
  <2>5. CASE Begin(w) \/ HandlerWrite(w) \/ HandlerReturn(w) \/ HandlerPanic(w)
    <3>1. PICK to \in {"handler", "send", "close", "errHead"} :
            /\ Goes(w, wstep[w], to) /\ UNCHANGED <<isClosed, closed, crashed>> /\ wstep[w] \notin Marked
            /\ (panicked' = panicked /\ to # "errHead") \/ panicked' = TRUE
      BY <2>5, ZenonT(60) DEF Begin, HandlerWrite, HandlerReturn, HandlerPanic, Goes
    <3>2. panicked' \in BOOLEAN
      BY <2>3, <3>1, ZenonT(60) DEF HTypes
    <3>3. ASSUME ~panicked'  PROVE ~panicked /\ to \notin Sends /\ to \notin Errs
      BY <3>1, <3>3
    <3> QED BY <2>4, <3>1, <3>2, <3>3, ZenonT(60)
  <2>6. CASE Send(w) \/ (SendPanic(w) /\ wstep[w] = "send")
    <3>1. PICK to \in {"handler", "errHead", "errBody", "errClose"} :
            /\ Goes(w, wstep[w], to) /\ UNCHANGED <<isClosed, closed, crashed, panicked>> /\ wstep[w] \notin Marked
            /\ to \in Errs => closed[t] \/ wstep[w] \in Sends
      BY <2>1, <2>6, ZenonT(60) DEF Send, SendPanic, Goes
    <3> QED BY <2>3, <2>4, <3>1, ZenonT(60) DEF HTypes
  <2>7. CASE ErrorWrite(w)
    <3>1. PICK to \in {"errHeadSend", "errBody", "errBodySend", "errClose"} :
            /\ Goes(w, wstep[w], to) /\ UNCHANGED <<isClosed, closed, crashed, panicked>>
            /\ wstep[w] \in Errs /\ (isClosed[t] => to \in Errs)
      BY <2>1, <2>7, ZenonT(60) DEF ErrorWrite, Goes
    <3> QED BY <2>3, <2>4, <3>1, ZenonT(60) DEF HTypes
  <2>8. CASE SendPanic(w) /\ wstep[w] # "send"
    <3>1. /\ Goes(w, wstep[w], wstep[w]) /\ wstep[w] \in Sends \ Marked
          /\ UNCHANGED <<isClosed, closed, panicked>> /\ crashed'
      BY <2>8, ZenonT(60) DEF SendPanic, Goes
    <3>2. panicked /\ wstep' = wstep /\ UNCHANGED vars /\ crashed' = TRUE
      BY <2>3, <2>8, <3>1, ZenonT(60) DEF Goes, HTypes, SendPanic
    <3>3. HTypes'
      BY <2>2, <2>3, <3>1, <3>2, ZenonT(60) DEF HTypes
    <3>4. Inside(w, t)
      BY <2>1, <2>2, <2>3, <3>1, <3>2, <3>3, ZenonT(60) DEF Inside
    <3>5. isClosed'[t] => Seen(w, t)
      BY <3>1, ZenonT(60) DEF Seen
    <3> QED BY <3>1, <3>2, <3>4, <3>5, WorkerGoes, ZenonT(60)
  <2>9. CASE WorkerCloseTest(w)
    <3>1. CASE TaskOver(w) /\ wstep[w] \notin Marked /\ isClosed[t]
      <4>1. wstep' = [wstep EXCEPT ![w] = "begin"] /\ UNCHANGED <<isClosed, closed, panicked, crashed>>
        BY <2>9, <3>1, ZenonT(60) DEF WorkerCloseTest, TaskOver
      <4>2. HTypes' /\ wstep'[w] = "begin"
        BY <2>2, <2>3, <4>1, ZenonT(60) DEF HTypes
      <4>3. Inside(w, t)
        BY <2>1, <2>2, <2>3, <4>1, <4>2, ZenonT(60) DEF Inside, HTypes
      <4> QED BY <3>1, <4>3, WorkerEnds, ZenonT(60) DEF Seen
    <3>2. CASE ~isClosed[t] /\ (Goes(w, "close", "mark") \/ Goes(w, "errClose", "errMark"))
      <4>1. PICK to \in {"mark", "errMark"} :
              Goes(w, wstep[w], to) /\ (wstep[w] \in Errs \/ to = "mark") /\ wstep[w] \notin Marked
        BY <3>2, ZenonT(60) DEF Goes
      <4>2. UNCHANGED <<isClosed, closed, crashed, panicked>>
        BY <2>9, ZenonT(60) DEF WorkerCloseTest
      <4> QED BY <2>3, <2>4, <3>2, <4>1, <4>2, ZenonT(60) DEF HTypes
    <3> QED BY <2>1, <2>9, <3>1, <3>2, ZenonT(60) DEF WorkerCloseTest
  <2>10. CASE WorkerCloseMark(w)
    <3>1. PICK to \in Marked : Goes(w, wstep[w], to) /\ (to = "errShut" => wstep[w] \in Sends)
      BY <2>10, ZenonT(60) DEF WorkerCloseMark, Goes
    <3>2. /\ isClosed' = [isClosed EXCEPT ![t] = TRUE] /\ UNCHANGED <<closed, panicked, crashed>>
          /\ wstep' = [wstep EXCEPT ![w] = to] /\ UNCHANGED vars
      BY <2>1, <2>10, <3>1, ZenonT(60) DEF WorkerCloseMark, Goes
    <3>3. HTypes' /\ wstep'[w] = to /\ isClosed'[t]
      BY <2>2, <2>3, <3>2, ZenonT(60) DEF HTypes
    <3>4. Inside(w, t)
      BY <2>1, <2>2, <2>3, <3>2, <3>3, ZenonT(60) DEF Inside, HTypes
    <3> QED BY <2>3, <3>1, <3>2, <3>3, <3>4, WorkerGoes, ZenonT(60)
  <2>11. CASE WorkerCloseShut(w)
    <3>1. closed' = [closed EXCEPT ![t] = TRUE] /\ UNCHANGED <<isClosed, panicked>>
      BY <2>1, <2>11, ZenonT(60) DEF WorkerCloseShut
    <3>2. isClosed[t] /\ closed'[t]
      BY <2>1, <2>3, <2>11, <3>1, ZenonT(60) DEF WorkerCloseShut, HTypes, Goes
    <3>3. CASE TaskOver(w) /\ UNCHANGED crashed
      <4>1. wstep' = [wstep EXCEPT ![w] = "begin"]
        BY <3>3, ZenonT(60) DEF TaskOver
      <4>2. HTypes' /\ wstep'[w] = "begin"
        BY <2>2, <2>3, <3>1, <3>3, <4>1, ZenonT(60) DEF HTypes
      <4>3. Inside(w, t)
        BY <2>1, <2>2, <2>3, <3>1, <3>2, <3>3, <4>1, <4>2, ZenonT(60) DEF Inside, HTypes
      <4> QED BY <3>2, <3>3, <4>3, WorkerEnds, ZenonT(60) DEF Seen
    <3>4. CASE Goes(w, "shut", "errHead") /\ UNCHANGED crashed
      <4>1. wstep' = [wstep EXCEPT ![w] = "errHead"] /\ UNCHANGED vars
        BY <3>4, ZenonT(60) DEF Goes
      <4>2. HTypes' /\ wstep'[w] = "errHead"
        BY <2>2, <2>3, <3>1, <3>4, <4>1, ZenonT(60) DEF HTypes
      <4>3. Inside(w, t)
        BY <2>1, <2>2, <2>3, <3>1, <3>2, <3>4, <4>1, <4>2, ZenonT(60) DEF Inside, HTypes
      <4> QED BY <3>1, <3>2, <4>1, <4>2, <4>3, WorkerGoes, ZenonT(60) DEF Seen
    <3>5. CASE Goes(w, "errShut", "errShut") /\ crashed' = TRUE
      <4>1. wstep' = wstep /\ panicked /\ UNCHANGED vars
        BY <2>3, <3>5, ZenonT(60) DEF Goes, HTypes
      <4>2. HTypes'
        BY <2>2, <2>3, <3>1, <3>5, <4>1, ZenonT(60) DEF HTypes
      <4>3. Inside(w, t)
        BY <2>1, <2>2, <2>3, <3>1, <3>2, <4>1, <4>2, ZenonT(60) DEF Inside, HTypes
      <4> QED BY <3>1, <3>2, <4>1, <4>3, WorkerGoes, ZenonT(60) DEF Seen
    <3> QED BY <2>11, <3>3, <3>4, <3>5, ZenonT(60) DEF WorkerCloseShut
  <2>12. \/ Begin(w) \/ HandlerWrite(w) \/ HandlerReturn(w) \/ HandlerPanic(w) \/ Send(w) \/ SendPanic(w)
         \/ ErrorWrite(w) \/ WorkerCloseTest(w) \/ WorkerCloseMark(w) \/ WorkerCloseShut(w)
    BY <1>2, ZenonT(60) DEF CallbackStep
  <2> HIDE DEF Marked, Sends, Errs
  <2> QED BY <2>5, <2>6, <2>7, <2>8, <2>9, <2>10, <2>11, <2>12, ZenonT(60)
<1> QED BY <1>1, <1>2, ZenonT(60)

-----------------------------------------------------------------------------
(***************************************************************************)
(* What requests can rely on.                                              *)
(***************************************************************************)
LEMMA ServeInvariance == HSpec => []HInv
<1>1. HInit => HInv
  <2> SUFFICES ASSUME HInit PROVE HInv
    OBVIOUS
  <2>1. HTypes
    BY ZenonT(60) DEF HInit, HTypes
  <2>2. MarkFirst /\ InCallback /\ ErrorQuiet
    BY ZenonT(60) DEF HInit, MarkFirst, InCallback, ErrorQuiet, Marked, Sends, Errs
  <2>3. OwnWorker
    BY ZenonT(60) DEF HInit, Init, OwnWorker
  <2> QED BY <2>1, <2>2, <2>3, ZenonT(60) DEF HInv
<1>2. ManagerInv /\ TakenOnce /\ HInv /\ [HNext]_hvars => HInv'
  <2> SUFFICES ASSUME ManagerInv, TakenOnce, HInv, [HNext]_hvars PROVE HInv'
    OBVIOUS
  <2>1. SlotInv /\ QueueTypes
    BY ZenonT(60) DEF ManagerInv
  <2>2. CASE UNCHANGED hvars
    <3>1. Steady
      BY <2>1, <2>2, ManagerSteady, ZenonT(60) DEF hvars
    <3>2. FromOutside
      BY <2>2, ZenonT(60) DEF hvars, httpVars, FromOutside, HInv, HTypes, MarkFirst
    <3> QED BY <2>1, <3>1, <3>2, OutsideStep, ZenonT(60)
  <2>3. ASSUME NEW t \in Task, RequestStep(t) \/ Deadline(t) PROVE HInv'
    BY <2>1, <2>3, RequestPreserves, ZenonT(60)
  <2>4. ASSUME NEW w \in Worker, CallbackStep(w) \/ LoopStep(w) PROVE HInv'
    BY <2>1, <2>4, CallbackPreserves, LoopPreserves, ZenonT(60)
  <2> QED BY <2>2, <2>3, <2>4, ZenonT(60) DEF HNext
<1> QED BY <1>1, <1>2, UsesWorkerManager, ManagerInvariance, TaskTakenOnce, PTL DEF HSpec

\* Every state of the requests and of the worker manager they share is well
\* typed.
THEOREM RequestsTyped == HSpec => []HTypeOK
<1>1. TypeOK /\ HInv => HTypeOK
  BY ZenonT(60) DEF HInv, HTypes, HTypeOK
<1> QED BY <1>1, UsesWorkerManager, WorkersTyped, ServeInvariance, PTL

\* A deadline that passes before the response is complete detaches the worker
\* that runs the handler of this request, never one that has gone on to another
\* (defaultHandle, and Detach of the worker it received).
THEOREM KnownWorker == HSpec => []KnownWorkerIsOwn
<1>1. ManagerInv /\ HInv => KnownWorkerIsOwn
  BY ZenonT(60) DEF HInv, OwnWorker, Runs, KnownWorkerIsOwn, Waiting
<1> QED BY <1>1, UsesWorkerManager, ManagerInvariance, ServeInvariance, PTL

\* Deadlines, late writes and closes on both sides never end the process: the
\* panics they cause are recovered, and onError then finds the channels closed.
THEOREM CrashCause == HSpec => []CrashNeedsHandlerPanic
<1>1. HInv => CrashNeedsHandlerPanic
  BY ZenonT(60) DEF HInv, ErrorQuiet, CrashNeedsHandlerPanic
<1> QED BY <1>1, ServeInvariance, PTL
=============================================================================
