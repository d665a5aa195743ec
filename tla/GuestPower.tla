---------------------------- MODULE GuestPower ----------------------------
(***************************************************************************)
(* The life of one KVM server between the region service and its host: the *)
(* handlers of the API (pkg/compute/models/guest_actions.go), the tasks    *)
(* they start (pkg/compute/tasks), the requests of the KVM driver, and the *)
(* host agent of KvmHost, which answers by calling the task again and      *)
(* reports changes of the status by itself.                                *)
(*                                                                         *)
(* A handler, a run of a task and a report each fetch the row of the       *)
(* server first and lock the server then.  Everything that changes the     *)
(* row holds that lock, so each is two steps here: the fetch, and the rest *)
(* with the copy that was fetched.  The lock, the subtask table and the    *)
(* queue of the task manager are those of LockMan, TaskMan and WorkerMan.  *)
(*                                                                         *)
(* The server has one host, which is enabled, no elastic IP, no detachable *)
(* disk, and is not deleted by its own shutdown.  The removal of its disks *)
(* is one subtask that completes or fails.                                 *)
(***************************************************************************)
EXTENDS KvmHost, Sequences

CONSTANTS
  Op,           \* requests of the API
  Kinds         \* the kinds of requests that come in

VARIABLES
  status,       \* SGuest.Status in the database
  pending,      \* SGuest.PendingDeleted
  gone,         \* SGuest.Deleted
  tasks,        \* the task table
  runs,         \* the runs of tasks that have fetched task and server
  ops,          \* the requests
  lost,         \* history: tasks the host agent will not call any more
  odd           \* history: what has gone out of the ordinary, see Oddity

server == <<status, pending, gone>>
vars == <<hostVars, server, tasks, runs, ops, lost, odd>>

Statuses ==
  {"ready", "running", "start_start", "starting", "start_fail", "start_stop",
   "stopping", "stop_fail", "suspend", "suspending", "suspend_failed",
   "sync_config", "sync_fail", "syncing_status", "unknown", "start_delete",
   "deleting", "delete_fail", "detach_disk_fail"}

\* The statuses in which a handler does not refuse.
AcceptedIn ==
  [start         |-> {"ready", "start_fail", "suspend"},       \* and save_disk_fail
   stop          |-> {"running", "stop_fail"},
   force_stop    |-> Statuses,
   restart       |-> {"running", "stop_fail"},                 \* reset with is_hard likewise
   force_restart |-> {"running", "stop_fail", "stopping"},
   suspend       |-> {"running"},
   sync          |-> {"ready", "running"},
   syncstatus    |-> Statuses,
   delete        |-> Statuses,
   real_delete   |-> Statuses,                                 \* override_pending_delete
   cancel_delete |-> Statuses]

\* The task a handler starts and the status it sets before; a restart sets none.
TaskFor ==
  [start |-> "start", stop |-> "stop", force_stop |-> "stop", restart |-> "reset",
   force_restart |-> "reset", suspend |-> "suspend", sync |-> "sync",
   syncstatus |-> "syncstatus", delete |-> "delete", real_delete |-> "delete"]
StatusFor ==
  [start |-> "start_start", stop |-> "start_stop", force_stop |-> "start_stop",
   suspend |-> "suspend", sync |-> "sync_config", syncstatus |-> "syncing_status",
   delete |-> "start_delete", real_delete |-> "start_delete"]

\* The methods of the tasks, as execITask looks them up: the stage, and
\* whether the task is called to hear of a failure.  A GuestRestartTask runs
\* the OnInit of the GuestHardResetTask it embeds, which stops the server by
\* the StopServer of the latter.
Methods ==
  LET OnSuccess(k, S) == {<<k, s, FALSE>> : s \in S}
      OnFailure(k, S) == {<<k, s, TRUE>> : s \in S}
  IN UNION
     {OnSuccess("start", {"OnInit", "OnStartComplete", "OnGuestSyncstatusAfterStart"}),
      OnFailure("start", {"OnStartComplete"}),
      OnSuccess("stop", {"OnInit", "OnMasterStopTaskComplete"}),
      OnFailure("stop", {"OnMasterStopTaskComplete"}),
      OnSuccess("syncstatus", {"OnInit"}),
      OnSuccess("reset", {"OnInit", "OnServerStopComplete", "OnServerStartComplete"}),
      OnSuccess("suspend", {"OnInit", "on_suspend_complete"}),
      OnFailure("suspend", {"on_suspend_complete"}),
      OnSuccess("sync", {"OnInit", "on_sync_complete", "on_disk_sync_complete",
                         "on_sync_status_complete"}),
      OnFailure("sync", {"on_sync_complete", "on_disk_sync_complete",
                         "on_sync_status_complete"}),
      OnSuccess("delete", {"OnInit", "OnGuestStopComplete", "OnSyncConfigComplete",
                           "on_pending_delete_complete", "on_sync_guest_conf_complete",
                           "OnGuestDetachDisksComplete", "on_guest_delete_complete"}),
      OnFailure("delete", {"OnGuestStopComplete", "OnSyncConfigComplete",
                           "on_sync_guest_conf_complete", "OnGuestDetachDisksComplete",
                           "on_guest_delete_complete"}),
      OnSuccess("undeploy", {"OnInit", "OnGuestUndeployComplete"}),
      OnSuccess("detach", {"OnInit"})}

Ended == {"complete", "failed"}

Task(kind, parent, pstage, opt) ==
  [kind |-> kind, parent |-> parent, pstage |-> pstage, stage |-> "OnInit", opt |-> opt]

--------------------------------------------------------------------------
(* What the methods of tasks are made of.                                  *)

\* SetStatus on a copy of the row: nothing is written when the copy has the
\* status already.
SetStatus(copy, s) == status' = IF copy = s THEN status ELSE s

\* Mistake: the parent hears of success only.
NotifyParentOfSuccess(tt, t, failed) ==
  IF tt[t].parent # 0 /\ tt[tt[t].parent].stage = tt[t].pstage /\ ~failed
  THEN {Call(tt[t].parent, failed, "none")} ELSE {}

\* The calls that NotifyParentTaskComplete makes in task table tt: the parent
\* is run when the stage it is in is the one this subtask belongs to.
NotifyParent(tt, t, failed) ==
  IF tt[t].parent # 0 /\ tt[tt[t].parent].stage = tt[t].pstage
  THEN {Call(tt[t].parent, failed, "none")} ELSE {}

SetStage(r, s) ==
  /\ tasks' = [tasks EXCEPT ![r.task].stage = s]
  /\ UNCHANGED calls

SetStageComplete(r) ==
  /\ tasks' = [tasks EXCEPT ![r.task].stage = "complete"]
  /\ calls' = calls \cup NotifyParent(tasks, r.task, FALSE)

\* No method runs in stage "failed"; FetchTask has the test for it.
SetStageFailed(r) ==
  /\ tasks' = [tasks EXCEPT ![r.task].stage = "failed"]
  /\ calls' = calls \cup NotifyParent(tasks, r.task, TRUE)

\* SetStage, then NewTask and ScheduleRun of a subtask of that stage.
Subtask(r, s, kind, opt) ==
  /\ tasks' = Append([tasks EXCEPT ![r.task].stage = s], Task(kind, r.task, s, opt))
  /\ calls' = calls \cup {Call(Len(tasks) + 1, FALSE, "none")}

Method(r, kind, stage, failed) ==
  tasks[r.task].kind = kind /\ r.stage = stage /\ r.failed = failed

NoRequest == UNCHANGED <<agent, machine, faults>>

--------------------------------------------------------------------------
(* The tasks.  A run that has the server locked goes through one method.   *)

GuestStartTask(r) ==
  \/ /\ Method(r, "start", "OnInit", FALSE)                         \* RequestStart
     /\ \E a \in Answers :
          /\ Request("start", r.task, a)
          /\ CASE a = "ok" ->
                    SetStage(r, "OnStartComplete") /\ SetStatus(r.copy, "starting")
               [] a = "running" ->                                  \* OnStartComplete
                    /\ Subtask(r, "OnGuestSyncstatusAfterStart", "syncstatus", FALSE)
                    /\ SetStatus(r.copy, "starting")
               [] OTHER ->
                    SetStageFailed(r) /\ status' = "start_fail"
  \/ /\ Method(r, "start", "OnStartComplete", FALSE)
     /\ Subtask(r, "OnGuestSyncstatusAfterStart", "syncstatus", FALSE)
     /\ UNCHANGED status /\ NoRequest
  \/ /\ Method(r, "start", "OnStartComplete", TRUE)
     /\ SetStatus(r.copy, "start_fail")
     /\ SetStageFailed(r) /\ NoRequest
  \/ /\ Method(r, "start", "OnGuestSyncstatusAfterStart", FALSE)
     /\ SetStageComplete(r)
     /\ UNCHANGED status /\ NoRequest

\* Mistake: the status is left to the report of the host agent.
GuestStopTaskSilent(r) ==
  /\ \/ /\ Method(r, "stop", "OnInit", FALSE)
        /\ \E a \in Answers :
             /\ Request("stop", r.task, a)
             /\ IF a = "ok" THEN SetStage(r, "OnMasterStopTaskComplete") ELSE SetStageFailed(r)
     \/ /\ Method(r, "stop", "OnMasterStopTaskComplete", FALSE)
        /\ SetStageComplete(r) /\ NoRequest
  /\ UNCHANGED status

\* As a subtask it leaves the status alone, unless it fails.
GuestStopTask(r) ==
  LET isSubtask == tasks[r.task].parent # 0 IN
  \/ /\ Method(r, "stop", "OnInit", FALSE)                          \* stopGuest
     /\ \E a \in Answers :
          /\ Request("stop", r.task, a)
          /\ IF a = "ok"
             THEN /\ SetStage(r, "OnMasterStopTaskComplete")
                  /\ IF isSubtask THEN UNCHANGED status ELSE SetStatus(r.copy, "stopping")
             ELSE /\ SetStageFailed(r)
                  /\ IF isSubtask THEN SetStatus(r.copy, "stop_fail") ELSE status' = "stop_fail"
  \/ /\ Method(r, "stop", "OnMasterStopTaskComplete", FALSE)
     /\ IF isSubtask THEN UNCHANGED status ELSE SetStatus(r.copy, "ready")
     /\ SetStageComplete(r) /\ NoRequest
  \/ /\ Method(r, "stop", "OnMasterStopTaskComplete", TRUE)
     /\ SetStatus(r.copy, "stop_fail")
     /\ SetStageFailed(r) /\ NoRequest

\* The host is asked for the status and answers at once.
GuestSyncstatusTask(r) ==
  /\ Method(r, "syncstatus", "OnInit", FALSE)
  /\ \/ /\ SetStatus(r.copy, CASE StatusAtHost = "running" -> "running"
                               [] StatusAtHost = "stopped" -> "ready"
                               [] OTHER -> "unknown")
        /\ UNCHANGED faults
     \/ /\ Fault
        /\ SetStatus(r.copy, "unknown")
  /\ SetStageComplete(r)
  /\ UNCHANGED <<agent, machine>>

\* GuestHardResetTask and GuestRestartTask
GuestResetTask(r) ==
  /\ \/ /\ Method(r, "reset", "OnInit", FALSE)                      \* StopServer
        /\ SetStatus(r.copy, "stopping")
        /\ Subtask(r, "OnServerStopComplete", "stop", FALSE)
     \/ /\ Method(r, "reset", "OnServerStopComplete", FALSE)        \* StartServer
        /\ SetStatus(r.copy, "start_start")
        /\ Subtask(r, "OnServerStartComplete", "start", FALSE)
     \/ /\ Method(r, "reset", "OnServerStartComplete", FALSE)
        /\ SetStageComplete(r)
        /\ UNCHANGED status
  /\ NoRequest

\* The host agent accepts the request, does nothing and calls nobody.
GuestSuspendTask(r) ==
  /\ Method(r, "suspend", "OnInit", FALSE)
  /\ SetStage(r, "on_suspend_complete")
  /\ \E a \in Answers :
       /\ Request("suspend", r.task, a)
       /\ IF a = "ok" THEN SetStatus(r.copy, "suspending") ELSE status' = "suspend_failed"

\* The option is without_sync_status.
GuestSyncConfTask(r) ==
  LET DiskSyncComplete ==
        IF tasks[r.task].opt
        THEN SetStageComplete(r)
        ELSE Subtask(r, "on_sync_status_complete", "syncstatus", FALSE)
  IN
  \/ /\ Method(r, "sync", "OnInit", FALSE)
     /\ \E a \in Answers :
          /\ Request("sync", r.task, a)
          /\ IF a = "ok" THEN SetStage(r, "on_sync_complete") ELSE SetStageFailed(r)
     /\ UNCHANGED status
  \/ /\ Method(r, "sync", "on_sync_complete", FALSE)
     /\ IF r.data = "task" THEN SetStage(r, "on_disk_sync_complete") ELSE DiskSyncComplete
     /\ UNCHANGED status /\ NoRequest
  \/ /\ Method(r, "sync", "on_sync_complete", TRUE)
     /\ SetStatus(r.copy, "sync_fail")
     /\ SetStageFailed(r) /\ NoRequest
  \/ /\ Method(r, "sync", "on_disk_sync_complete", FALSE)
     /\ DiskSyncComplete
     /\ UNCHANGED status /\ NoRequest
  \/ /\ Method(r, "sync", "on_sync_status_complete", FALSE)
     /\ SetStageComplete(r)
     /\ UNCHANGED status /\ NoRequest

\* The option is override_pending_delete; failures to stop and to sync are
\* ignored.
GuestDeleteTask(r) ==
  /\ \/ /\ Method(r, "delete", "OnInit", FALSE)                     \* RequestStopGuestForDelete
        /\ Subtask(r, "OnGuestStopComplete", "stop", FALSE)
        /\ UNCHANGED server
     \/ /\ \E f \in BOOLEAN : Method(r, "delete", "OnGuestStopComplete", f)
        /\ Subtask(r, "OnSyncConfigComplete", "sync", TRUE)
        /\ UNCHANGED server
     \/ /\ \E f \in BOOLEAN : Method(r, "delete", "OnSyncConfigComplete", f)
        /\ ~tasks[r.task].opt
        /\ IF r.pcopy
           THEN SetStageComplete(r) /\ UNCHANGED pending
           ELSE /\ Subtask(r, "on_pending_delete_complete", "syncstatus", FALSE)
                /\ pending' = TRUE                                  \* DoPendingDelete
        /\ UNCHANGED <<status, gone>>
     \/ /\ Method(r, "delete", "on_pending_delete_complete", FALSE)
        /\ SetStatus(r.copy, "sync_config")
        /\ Subtask(r, "on_sync_guest_conf_complete", "sync", FALSE)
        /\ UNCHANGED <<pending, gone>>
     \/ /\ Method(r, "delete", "on_sync_guest_conf_complete", FALSE)
        /\ SetStageComplete(r)
        /\ UNCHANGED server
     \/ /\ \E f \in BOOLEAN : Method(r, "delete", "OnSyncConfigComplete", f)
        /\ tasks[r.task].opt                                        \* doStartDeleteGuest
        /\ SetStatus(r.copy, "deleting")
        /\ Subtask(r, "OnGuestDetachDisksComplete", "detach", FALSE)
        /\ UNCHANGED <<pending, gone>>
     \/ /\ Method(r, "delete", "OnGuestDetachDisksComplete", FALSE)
        /\ Subtask(r, "on_guest_delete_complete", "undeploy", FALSE)
        /\ UNCHANGED server
     \/ /\ Method(r, "delete", "on_guest_delete_complete", FALSE)
        /\ SetStageComplete(r)
        /\ gone' = TRUE                                             \* RealDelete
        /\ UNCHANGED <<status, pending>>
     \/ /\ \E s \in {"on_sync_guest_conf_complete", "OnGuestDetachDisksComplete",
                     "on_guest_delete_complete"} : Method(r, "delete", s, TRUE)
        /\ SetStatus(r.copy, "delete_fail")                         \* OnFailed
        /\ SetStageFailed(r)
        /\ UNCHANGED <<pending, gone>>
  /\ NoRequest

GuestUndeployTask(r) ==
  \/ /\ Method(r, "undeploy", "OnInit", FALSE)
     /\ \E a \in Answers :
          /\ Request("delete", r.task, a)
          /\ CASE a = "ok" -> SetStage(r, "OnGuestUndeployComplete")
               [] a = "notfound" -> SetStageComplete(r)
               [] OTHER -> SetStageFailed(r)
     /\ UNCHANGED status
  \/ /\ Method(r, "undeploy", "OnGuestUndeployComplete", FALSE)
     /\ SetStageComplete(r)
     /\ UNCHANGED status /\ NoRequest

\* GuestDetachAllDisksTask with the GuestDetachDiskTasks it starts.
GuestDetachAllDisksTask(r) ==
  /\ Method(r, "detach", "OnInit", FALSE)
  /\ \/ SetStageComplete(r) /\ UNCHANGED <<status, faults>>
     \/ Fault /\ SetStageFailed(r) /\ SetStatus(r.copy, "detach_disk_fail")
  /\ UNCHANGED <<agent, machine>>

\* For the history: a request the host has accepted and whose task has heard
\* of an error; the end of a stop that is heard of when QEMU runs again; a
\* server the host did not know when it was to delete it; the delete of a
\* server that is pending deletion already.
Oddity(r) ==
  CASE jobs' # jobs /\ tasks'[r.task].stage = "failed" -> {"unanswered"}
    [] Method(r, "stop", "OnMasterStopTaskComplete", FALSE) /\ IsRunning -> {"late answer"}
    [] Method(r, "undeploy", "OnInit", FALSE) /\ tasks'[r.task].stage = "complete" ->
         {"unknown to host"}
    [] Method(r, "delete", "OnSyncConfigComplete", FALSE) /\ tasks'[r.task].stage = "complete" ->
         {"deleted again"}
    [] OTHER -> {}

RunTask(r) ==
  /\ \/ GuestDeleteTask(r)
     \/ /\ \/ GuestStartTask(r) \/ GuestStopTask(r) \/ GuestSyncstatusTask(r)
           \/ GuestResetTask(r) \/ GuestSuspendTask(r) \/ GuestSyncConfTask(r)
           \/ GuestUndeployTask(r) \/ GuestDetachAllDisksTask(r)
        /\ UNCHANGED <<pending, gone>>
  /\ runs' = runs \ {r}
  /\ odd' = odd \cup Oddity(r)
  /\ UNCHANGED <<reports, ops, lost>>

\* execITask up to the lock: the task, its method and the server are looked
\* up.  Without the method or the server the task fails.
FetchTask(c) ==
  LET t == tasks[c.task]
      r == [task |-> c.task, failed |-> c.failed, data |-> c.data, stage |-> t.stage,
            copy |-> status, pcopy |-> pending]
  IN /\ c \in calls
     /\ IF gone \/ <<t.kind, t.stage, c.failed>> \notin Methods
        THEN /\ IF t.stage = "failed"
                THEN calls' = calls \ {c} /\ UNCHANGED tasks
                ELSE /\ tasks' = [tasks EXCEPT ![c.task].stage = "failed"]
                     /\ calls' = (calls \ {c}) \cup NotifyParent(tasks, c.task, TRUE)
             /\ UNCHANGED runs
        ELSE /\ runs' = runs \cup {r}
             /\ calls' = calls \ {c}
             /\ UNCHANGED tasks
     /\ UNCHANGED <<agent, machine, reports, faults, server, ops, lost, odd>>

--------------------------------------------------------------------------
(* The handlers of the API.                                                *)

FetchServer(o, k) ==
  /\ ops[o].pc = "idle" /\ ~gone
  /\ ops' = [ops EXCEPT ![o] = [pc |-> "fetched", kind |-> k, copy |-> status, pcopy |-> pending]]
  /\ UNCHANGED <<hostVars, server, tasks, runs, lost, odd>>

Answered(o) == ops' = [ops EXCEPT ![o] = [pc |-> "done", kind |-> "none", copy |-> "none", pcopy |-> FALSE]]

PerformAction(o) ==
  LET k == ops[o].kind
      copy == ops[o].copy
  IN /\ ops[o].pc = "fetched"
     /\ \/ /\ copy \in AcceptedIn[k] /\ k # "cancel_delete"
           /\ IF k \in DOMAIN StatusFor THEN SetStatus(copy, StatusFor[k]) ELSE UNCHANGED status
           /\ tasks' = Append(tasks, Task(TaskFor[k], 0, "none", k = "real_delete"))
           /\ calls' = calls \cup {Call(Len(tasks) + 1, FALSE, "none")}
           /\ UNCHANGED pending
        \/ /\ k = "cancel_delete"
           /\ pending' = IF ops[o].pcopy THEN FALSE ELSE pending
           /\ UNCHANGED <<status, tasks, calls>>
        \/ /\ copy \notin AcceptedIn[k]
           /\ UNCHANGED <<status, pending, tasks, calls>>
     /\ Answered(o)
     /\ UNCHANGED <<agent, machine, reports, faults, gone, runs, lost, odd>>

\* A report of the host agent is the action "status" of the API.
FetchReport(r) ==
  /\ r.copy = "none"
  /\ reports' = IF gone THEN reports \ {r}
                ELSE (reports \ {r}) \cup {[r EXCEPT !.copy = status]}
  /\ UNCHANGED <<agent, machine, calls, faults, server, tasks, runs, ops, lost, odd>>

PerformStatus(r) ==
  /\ r.copy # "none"
  /\ SetStatus(r.copy, r.status)
  /\ reports' = reports \ {r}
  /\ odd' = odd \cup IF (r.status = "running") # IsRunning THEN {"late report"} ELSE {}
  /\ UNCHANGED <<agent, machine, calls, faults, pending, gone, tasks, runs, ops, lost>>

--------------------------------------------------------------------------
(* The system.                                                             *)

\* Tasks that lose the last work done for them without being called.
Forgotten ==
  {j.task : j \in jobs} \ ({0} \cup {j.task : j \in jobs'} \cup {c.task : c \in calls' \ calls})

Serving == {x.task : x \in calls \cup runs}

\* For the history: a QEMU that comes up while its files are being removed,
\* one that ends by itself while no monitor is connected to it, the second
\* call of a sync task that comes before the first one has been served, and
\* the import of a running guest that is pending deletion, which is left alone.
HostOddity ==
  CASE qemu # "up" /\ qemu' = "up" /\ (\E j \in jobs : j.kind = "delete" /\ j.phase = "rm") ->
         {"started in delete"}
    [] qemu = "up" /\ qemu' = "dead" /\ mon # "live" /\ faults' # faults -> {"unwatched exit"}
    [] calls' # calls /\ (\E j \in jobs \ jobs' : j.phase = "exec" /\ j.task \in Serving) ->
         {"overtaken"}
    [] booting /\ ~booting' /\ pending /\ IsRunning -> {"unwatched"}
    [] OTHER -> {}

Host(A) ==
  /\ A
  /\ lost' = lost \cup Forgotten
  /\ odd' = odd \cup HostOddity
  /\ UNCHANGED <<server, tasks, runs, ops>>

HostStep ==
  \/ Host(HostWork(Serving)) \/ Host(QemuExit)
  \/ Host(AgentRestart) \/ Host(Import(pending, gone))

Init ==
  \E running \in BOOLEAN :
    /\ HostInit(running)
    /\ status = IF running THEN "running" ELSE "ready"
    /\ pending = FALSE /\ gone = FALSE
    /\ tasks = <<>> /\ runs = {} /\ lost = {} /\ odd = {}
    /\ ops = [o \in Op |-> [pc |-> "idle", kind |-> "none", copy |-> "none", pcopy |-> FALSE]]

Region ==
  \/ \E c \in calls : FetchTask(c)
  \/ \E r \in runs : RunTask(r)
  \/ \E o \in Op : PerformAction(o)
  \/ \E r \in reports : FetchReport(r) \/ PerformStatus(r)

Next ==
  \/ Region
  \/ HostStep
  \/ \E o \in Op, k \in Kinds : FetchServer(o, k)

TypeOK ==
  /\ HostTypeOK
  /\ status \in Statuses /\ pending \in BOOLEAN /\ gone \in BOOLEAN
  /\ \A t \in 1..Len(tasks) : tasks[t].parent \in 0..(t - 1)
  /\ \A r \in runs : r.task \in 1..Len(tasks)
  /\ lost \subseteq 1..Len(tasks)

\* The services have workers for their queues and goroutines are scheduled;
\* an agent that has come up imports its guests.  Requests of the API, faults
\* and the end of QEMU need not come.
Fairness ==
  /\ WF_vars(Region)
  /\ WF_vars(Host(HostWork(Serving)))
  /\ WF_vars(Host(Import(pending, gone)))

Spec == Init /\ [][Next]_vars /\ Fairness

--------------------------------------------------------------------------
(* Properties.                                                             *)

\* Nothing is under way, neither at the region nor at the host.
Quiet ==
  /\ calls = {} /\ runs = {} /\ jobs = {} /\ reports = {} /\ ~booting
  /\ \A o \in Op : ops[o].pc # "fetched"

Open(t) == tasks[t].stage \notin Ended

\* The statuses a server has while somebody works on it.
Transient ==
  {"start_start", "starting", "start_stop", "stopping", "suspending", "sync_config",
   "syncing_status", "start_delete", "deleting"}

\* Once everything is at rest the status in the database tells whether QEMU
\* runs, after any interleaving of tasks, reports, crashes of QEMU and
\* restarts of the agent: the reports of onMonitorDisConnect and ImportServer
\* make up for what the tasks do not see.  What can break it is named: a
\* report or the end of a stop that was overtaken on its way by a change at the
\* host (PerformStatus and GuestStopTask write it all the same), a request whose
\* answer was lost while the host went on with it, a QEMU that ends by itself
\* before the agent has a monitor connection to it, a sync task called twice at
\* the same time, and an agent that comes up and leaves alone a running guest
\* because it is pending deletion.
StatusAgrees ==
  /\ Quiet /\ ~gone
  /\ odd \cap {"late report", "late answer", "unanswered", "unwatched exit", "unwatched",
               "overtaken"} = {}
  => (status = "running" => IsRunning) /\ (status = "ready" => ~IsRunning)

\* A task that is open when everything is at rest is one the host agent has
\* forgotten (it restarted, or the goroutine that was to call the task ended),
\* a suspend, which ExecSuspendTask never answers, or it waits for such a one;
\* if only no sync task has had its two calls served at the same time.
OpenOnlyIfForgotten ==
  Quiet /\ "overtaken" \notin odd =>
    \A t \in 1..Len(tasks) : Open(t) =>
      \/ t \in lost
      \/ tasks[t].kind = "suspend"
      \/ \E c \in 1..Len(tasks) :
           Open(c) /\ tasks[c].parent = t /\ tasks[c].pstage = tasks[t].stage

\* A server whose tasks have all ended is not left in a status that says that
\* work is going on, which would refuse it the next start or stop for ever.
\* The code has two exceptions: a GuestSyncConfTask whose request fails, and
\* a second delete of a server that is pending deletion.
NotLeftTransient ==
  /\ Quiet /\ ~gone /\ "deleted again" \notin odd
  /\ \A t \in 1..Len(tasks) :
       ~Open(t) /\ ~(tasks[t].kind = "sync" /\ tasks[t].stage = "failed")
  => status \notin Transient

\* When the row of the server is deleted, no QEMU of it runs and no file of
\* it is left on the host.  The exceptions: an agent that was still coming up
\* said it knew no such server (GuestUndeployTask takes that for success), a
\* start script that ran between the kill and the removal of the files, and a
\* sync subtask that ended twice and so called the delete task twice.
DeletedIsGone ==
  gone /\ odd \cap {"unknown to host", "started in delete", "overtaken"} = {}
  => ~dir /\ qemu # "up"

\* A task that has ended stays as it ended, though calls of it may still come
\* in, from the host and from its subtasks.  The one way to end it twice is the
\* second call of a sync task by the host agent, a second after the first, when
\* that has not been served yet.
EndIsFinal ==
  [][\A t \in 1..Len(tasks) :
       ~Open(t) /\ "overtaken" \notin odd => tasks'[t].stage = tasks[t].stage]_vars

\* All the calls, goroutines, reports and imports that a request or a fault
\* sets off come to an end, restarts by onMonitorTimeout included.
Settles == <>[]Quiet

=============================================================================
