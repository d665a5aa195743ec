------------------------------ MODULE TaskMan ------------------------------
(***************************************************************************)
(* The task manager of pkg/cloudcommon/db/taskman: long operations as      *)
(* tasks, kept in the database, that go from stage to stage.  A run of a   *)
(* task fetches it, finds the method named after its stage, locks the      *)
(* object of the task and calls the method.  A task that ends records its  *)
(* result with its parent, and the parent is run again when no subtask of  *)
(* its current stage is left in its initial state.                         *)
(*                                                                         *)
(* The task table and the subtask table are shared; a run keeps the copy   *)
(* of the stage it fetched (self.Stage).  Task parameters, and with them   *)
(* SaveRequestContext, are left out: stages do not depend on them.  The    *)
(* methods of the tasks are those of the module that extends this one.     *)
(***************************************************************************)
EXTENDS Integers, FiniteSets

CONSTANTS
  Task, NoTask,
  ParentOf,    \* the parent task of a task, or NoTask
  Stage,       \* the stages with a method, besides "complete" and "failed"
  InitStage,   \* "on_init"
  Method,      \* <<task, stage, failed>>: the methods there are
  MaxRuns      \* bound of the model: runs ever scheduled

ASSUME TaskManAssumption ==
  /\ NoTask \notin Task
  /\ ParentOf \in [Task -> Task \cup {NoTask}]
  /\ InitStage \in Stage
  /\ {"none", "complete", "failed"} \cap Stage = {}
  /\ MaxRuns \in Nat \ {0}

VARIABLES
  stage,              \* STask.Stage in the table; "none" without a row
  subStage,           \* SSubTask.Stage of the row of a subtask; "none" without
  subStatus,          \* SSubTask.Status
  exists,             \* the object of a task is there
  lockedBy,           \* the run that has the object of a task locked, or 0
  rawLock,            \* the same for the lock "tasks" of a parent task
  nrun, run, rpc,     \* the runs: task and data, and where they are
  rstage,             \* self.Stage, the run's copy
  rfailed,            \* what the run reports to the parent task
  rseen               \* the parent's stage as the run fetched it

tables == <<stage, subStage, subStatus>>
locks == <<lockedBy, rawLock>>
schedule == <<nrun, run>>
copies == <<rstage, rfailed, rseen>>
taskVars == <<tables, exists, locks, schedule, rpc, copies>>

Run == 1..MaxRuns
Stages == Stage \cup {"none", "complete", "failed"}
Closed == {"complete", "failed"}
Place == {"unused", "queued", "fetched", "lock", "body", "more",
          "save", "notify", "check", "end", "done"}

TaskTypeOK ==
  /\ stage \in [Task -> Stages]
  /\ subStage \in [Task -> Stages]
  /\ subStatus \in [Task -> {"init", "succ", "fail"}]
  /\ exists \in [Task -> BOOLEAN]
  /\ lockedBy \in [Task -> Run \cup {0}]
  /\ rawLock \in [Task -> Run \cup {0}]
  /\ nrun \in 0..MaxRuns
  /\ run \in [Run -> [task : Task \cup {NoTask}, failed : BOOLEAN]]
  /\ rpc \in [Run -> Place]
  /\ rstage \in [Run -> Stages]
  /\ rfailed \in [Run -> BOOLEAN]
  /\ rseen \in [Run -> Stages]

\* No subtask yet, and no run has begun.
NoSubtasks ==
  /\ subStage = [t \in Task |-> "none"]
  /\ subStatus = [t \in Task |-> "init"]
  /\ lockedBy = [t \in Task |-> 0]
  /\ rawLock = [t \in Task |-> 0]
  /\ rstage = [r \in Run |-> "none"]
  /\ rfailed = [r \in Run |-> FALSE]
  /\ rseen = [r \in Run |-> "none"]

-----------------------------------------------------------------------------
(***************************************************************************)
(* What the methods of tasks call.  pcs is where the runs are afterwards.  *)
(***************************************************************************)

\* ScheduleRun: one more run in the queue of the workers.
ScheduleRun(t, failed, pcs) ==
  /\ nrun < MaxRuns
  /\ nrun' = nrun + 1
  /\ run' = [run EXCEPT ![nrun'] = [task |-> t, failed |-> failed]]
  /\ rpc' = [pcs EXCEPT ![nrun'] = "queued"]

\* NewTask inserts the task, and the subtask with the parent's current stage.
InsertTask(t) == stage' = [stage EXCEPT ![t] = InitStage]

\* Mistake: the subtask is filed under the first stage of the parent.
InsertSubTaskFirst(t) ==
  /\ subStage' = [subStage EXCEPT ![t] = InitStage]
  /\ subStatus' = [subStatus EXCEPT ![t] = "init"]

InsertSubTask(t) ==
  /\ subStage' = [subStage EXCEPT ![t] = stage[ParentOf[t]]]
  /\ subStatus' = [subStatus EXCEPT ![t] = "init"]

SetStage(r, s) ==
  /\ stage' = [stage EXCEPT ![run[r].task] = s]
  /\ rstage' = [rstage EXCEPT ![r] = s]

\* Where a run goes on when its task has ended: to the parent, if any.
AfterEnd(r) == IF ParentOf[run[r].task] = NoTask THEN "end" ELSE "save"

SetStageComplete(r) ==
  /\ SetStage(r, "complete")
  /\ rfailed' = [rfailed EXCEPT ![r] = FALSE]
  /\ rpc' = [rpc EXCEPT ![r] = AfterEnd(r)]

SetStageFailed(r) ==
  \/ /\ rstage[r] = "failed"
     /\ rpc' = [rpc EXCEPT ![r] = "end"]
     /\ UNCHANGED <<stage, rstage, rfailed>>
  \/ /\ rstage[r] # "failed"
     /\ SetStage(r, "failed")
     /\ rfailed' = [rfailed EXCEPT ![r] = TRUE]
     /\ rpc' = [rpc EXCEPT ![r] = AfterEnd(r)]

-----------------------------------------------------------------------------
(***************************************************************************)
(* A run, up to the call of the method.                                    *)
(***************************************************************************)

\* execTask reads the task; the object is not locked yet.
FetchTask(r) ==
  /\ rpc[r] = "queued"
  /\ rstage' = [rstage EXCEPT ![r] = stage[run[r].task]]
  /\ rpc' = [rpc EXCEPT ![r] = "fetched"]
  /\ UNCHANGED <<tables, exists, locks, schedule, rfailed, rseen>>

HasMethod(r) == <<run[r].task, rstage[r], run[r].failed>> \in Method

\* No method for the stage, or no object: the task fails.
CannotExec(r) ==
  /\ rpc[r] = "fetched"
  /\ ~HasMethod(r) \/ ~exists[run[r].task]
  /\ SetStageFailed(r)
  /\ UNCHANGED <<subStage, subStatus, exists, locks, schedule, rseen>>

FetchObject(r) ==
  /\ rpc[r] = "fetched"
  /\ HasMethod(r) /\ exists[run[r].task]
  /\ rpc' = [rpc EXCEPT ![r] = "lock"]
  /\ UNCHANGED <<tables, exists, locks, schedule, copies>>

LockObject(r) ==
  /\ rpc[r] = "lock"
  /\ lockedBy[run[r].task] = 0
  /\ lockedBy' = [lockedBy EXCEPT ![run[r].task] = r]
  /\ rpc' = [rpc EXCEPT ![r] = "body"]
  /\ UNCHANGED <<tables, exists, rawLock, schedule, copies>>

\* In the method named after stage s.
InMethod(r, t, s, failed) ==
  /\ rpc[r] = "body"
  /\ run[r] = [task |-> t, failed |-> failed]
  /\ rstage[r] = s

-----------------------------------------------------------------------------
(***************************************************************************)
(* NotifyParentTaskComplete, and the end of a run.                         *)
(***************************************************************************)
SaveResults(r) ==
  LET t == run[r].task IN
  /\ rpc[r] = "save"
  /\ subStatus' = IF subStage[t] = "none" THEN subStatus
                  ELSE [subStatus EXCEPT ![t] = IF rfailed[r] THEN "fail" ELSE "succ"]
  /\ rpc' = [rpc EXCEPT ![r] = "notify"]
  /\ UNCHANGED <<stage, subStage, exists, locks, schedule, copies>>

FetchParent(r) ==
  LET p == ParentOf[run[r].task] IN
  /\ rpc[r] = "notify"
  /\ rawLock[p] = 0
  /\ rawLock' = [rawLock EXCEPT ![p] = r]
  /\ rseen' = [rseen EXCEPT ![r] = stage[p]]
  /\ rpc' = [rpc EXCEPT ![r] = "check"]
  /\ UNCHANGED <<tables, exists, lockedBy, schedule, rstage, rfailed>>

Subtasks(p, s) == {c \in Task : ParentOf[c] = p /\ subStage[c] = s}

\* Mistake: one subtask that has ended is enough.
IsCurrentStageStarted(p, s) ==
  \E c \in Subtasks(p, s) : subStatus[c] # "init"

IsCurrentStageComplete(p, s) ==
  /\ Subtasks(p, s) # {}
  /\ \A c \in Subtasks(p, s) : subStatus[c] # "init"

\* Mistake: the failure of a subtask is not passed on.
WakeParentAsSuccess(r) ==
  LET p == ParentOf[run[r].task]
      pcs == [rpc EXCEPT ![r] = "end"]
  IN
  /\ rpc[r] = "check"
  /\ \/ /\ IsCurrentStageComplete(p, rseen[r])
        /\ ScheduleRun(p, FALSE, pcs)
     \/ /\ ~IsCurrentStageComplete(p, rseen[r])
        /\ rpc' = pcs
        /\ UNCHANGED schedule
  /\ rawLock' = [rawLock EXCEPT ![p] = 0]
  /\ UNCHANGED <<tables, exists, lockedBy, copies>>

\* The parent is run with what this subtask reports.
WakeParent(r) ==
  LET p == ParentOf[run[r].task]
      pcs == [rpc EXCEPT ![r] = "end"]
  IN
  /\ rpc[r] = "check"
  /\ \/ /\ IsCurrentStageComplete(p, rseen[r])
        /\ ScheduleRun(p, rfailed[r], pcs)
     \/ /\ ~IsCurrentStageComplete(p, rseen[r])
        /\ rpc' = pcs
        /\ UNCHANGED schedule
  /\ rawLock' = [rawLock EXCEPT ![p] = 0]
  /\ UNCHANGED <<tables, exists, lockedBy, copies>>

EndRun(r) ==
  /\ rpc[r] = "end"
  /\ rpc' = [rpc EXCEPT ![r] = "done"]
  /\ lockedBy' = [t \in Task |-> IF lockedBy[t] = r THEN 0 ELSE lockedBy[t]]
  /\ UNCHANGED <<tables, exists, rawLock, schedule, copies>>

TaskManStep(r) ==
  \/ FetchTask(r) \/ CannotExec(r) \/ FetchObject(r) \/ LockObject(r)
  \/ SaveResults(r) \/ FetchParent(r) \/ WakeParent(r) \/ EndRun(r)
=============================================================================
