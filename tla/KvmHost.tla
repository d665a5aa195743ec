------------------------------ MODULE KvmHost ------------------------------
(***************************************************************************)
(* The host agent (pkg/hostman) for one KVM guest: the guest manager, the  *)
(* start, stop, sync and delete work it does in goroutines of its own      *)
(* after it has answered the request, the QEMU process, its pid file and   *)
(* its QMP monitor, the status the agent reports on its own account, and   *)
(* what the agent does when it comes up again.                             *)
(*                                                                         *)
(* The work of a request ends with a call of the task that sent it         *)
(* (hostutils.TaskComplete, hostutils.TaskFailed).  Task 0 stands for work *)
(* no task has asked for.  The guest has no backup host, no migration is   *)
(* under way, and a new description changes no disk and no network card.   *)
(***************************************************************************)
EXTENDS Integers, FiniteSets

CONSTANTS
  MaxFaults     \* bound of the model: faults of the environment

ASSUME KvmHostAssumption == MaxFaults \in Nat

VARIABLES
  known,        \* the guest is in manager.Servers
  booting,      \* the agent has come up and has not imported the guest yet
  dir,          \* HomeDir() is there, with the pid file and the scripts
  qemu,         \* the process: "down", "up", or "dead" with its pid file left
  mon,          \* s.Monitor: "none", "live", or "lost" once its QEMU is gone
  jobs,         \* the goroutines and timers at work for the guest
  reports,      \* UpdateServerStatus calls under way
  calls,        \* calls of tasks under way
  faults        \* faults so far

agent == <<known, booting, jobs, mon>>
machine == <<dir, qemu>>
hostVars == <<agent, machine, reports, calls, faults>>

Job(kind, t, phase) == [kind |-> kind, task |-> t, phase |-> phase]
Call(t, failed, data) == [task |-> t, failed |-> failed, data |-> data]

\* The phases of the work of each kind.
Phases ==
  [start   |-> {"script", "script2", "script3", "connect", "resume"},
   restart |-> {"script", "script2", "script3", "connect", "resume"},   \* onMonitorTimeout
   stop    |-> {"begin", "powerdown", "wait"},
   sync    |-> {"begin", "exec"},
   delete  |-> {"kill", "rm"},
   status  |-> {"timer"},               \* AddTimeout(..., s.SyncStatus)
   disconnect |-> {"stop", "report"}]   \* onMonitorDisConnect

Fault == faults < MaxFaults /\ faults' = faults + 1

Becomes(j, S) == jobs' = (jobs \ {j}) \cup S
At(j, phase) == [j EXCEPT !.phase = phase]

Complete(t, data) == IF t = 0 THEN {} ELSE {Call(t, FALSE, data)}
Failed(t) == IF t = 0 THEN {} ELSE {Call(t, TRUE, "none")}

\* A report in flight; ids keep two reports of the same status apart.
Report(s) ==
  LET id == CHOOSE i \in 1..(Cardinality(reports) + 1) : \A r \in reports : r.id # i
  IN  [id |-> id, status |-> s, copy |-> "none"]
Reports(s) == reports' = reports \cup {Report(s)}

\* A monitor that is closed before its reader has seen the end of the
\* connection calls nobody back.
Unnoticed == {j \in jobs : mon = "lost" /\ j.kind = "disconnect" /\ j.phase = "stop"}

\* The stop script kills the process of the pid file and removes the file.
ScriptStop == IF dir THEN "down" ELSE qemu

\* The end of a QEMU that has a monitor is noticed by the monitor's reader.
Killed == IF qemu = "up" /\ mon = "live" THEN {Job("disconnect", 0, "stop")} ELSE {}
MonitorAfterKill == IF qemu = "up" /\ mon = "live" THEN "lost" ELSE mon

\* ForceStop kills a running QEMU and removes its files.
ForceStop == IF dir /\ qemu = "up" THEN "down" ELSE qemu

\* GetPid() > 0
IsRunning == dir /\ qemu = "up"

IsMonitorAlive == mon = "live" \/ (mon = "lost" /\ Unnoticed # {})

\* manager.Status
StatusAtHost ==
  CASE ~known -> "notfound" [] known /\ IsRunning -> "running" [] OTHER -> "stopped"

--------------------------------------------------------------------------
(* Requests.  The agent answers a request before the work is done.  The    *)
(* answer gets lost, or the request does, at the price of a fault.         *)

FirstPhase == [start |-> "script", stop |-> "begin", sync |-> "begin", delete |-> "kill"]

\* The work that request k of task t starts.
Accept(k, t) ==
  /\ known
  /\ jobs' = IF k = "suspend" THEN jobs ELSE jobs \cup {Job(k, t, FirstPhase[k])}
  /\ known' = (k # "delete")
  /\ UNCHANGED <<booting, mon, machine>>

\* What task t is told: "ok", "running", "notfound" or "error".
Request(k, t, answer) ==
  \/ /\ answer = "notfound" /\ ~known
     /\ UNCHANGED <<agent, machine, faults>>
  \/ /\ answer = "error" /\ Fault
     /\ UNCHANGED <<agent, machine>>
  \/ /\ answer = "running" /\ known /\ k = "start" /\ IsRunning
     /\ UNCHANGED <<agent, machine, faults>>
  \/ /\ ~(k = "start" /\ IsRunning)
     /\ Accept(k, t)
     /\ \/ answer = "ok" /\ UNCHANGED faults
        \/ answer = "error" /\ Fault

Answers == {"ok", "running", "notfound", "error"}

--------------------------------------------------------------------------
(* The agent crashes, or is restarted: its work is gone.  It finds the     *)
(* directories of the guests it has, asks the region which of them belong  *)
(* to this host and imports those.                                         *)

Crash ==
  /\ known' = FALSE
  /\ booting' = TRUE
  /\ jobs' = {}
  /\ mon' = "none"

AgentRestart ==
  /\ Fault
  /\ Crash
  /\ UNCHANGED <<machine, reports, calls>>

\* VerifyExistingGuests and ImportServer; pending and gone are the region's
\* view of the guest.
Import(pending, gone) ==
  /\ booting
  /\ booting' = FALSE
  /\ known' = (dir /\ ~gone)
  /\ CASE known' /\ qemu = "dead" /\ ~pending ->
            jobs' = jobs \cup {Job("start", 0, "script")} /\ UNCHANGED reports
       [] known' /\ qemu = "up" ->
            /\ jobs' = IF pending THEN jobs ELSE jobs \cup {Job("start", 0, "connect")}
            /\ UNCHANGED reports
       [] known' /\ qemu # "up" /\ (qemu = "dead" => pending) ->
            Reports("ready") /\ UNCHANGED jobs
       [] ~known' -> UNCHANGED <<jobs, reports>>
  /\ UNCHANGED <<mon, machine, calls, faults>>

--------------------------------------------------------------------------
(* Starting: the script, up to three times, then the monitor, then QEMU is *)
(* asked whether it runs.                                                  *)

Starting == {"start", "restart"}
Scripts == {"script", "script2", "script3"}
NextTry == [script |-> "script2", script2 |-> "script3"]

\* Nobody hears of a failure of the script that onMonitorTimeout has run.
StartGivesUp(j) ==
  /\ Becomes(j, {Job("status", 0, "timer")} \cup Killed)
  /\ calls' = calls \cup IF j.kind = "start" THEN Failed(j.task) ELSE {}

\* A QEMU that finds its pid file locked by another one does not start.
\* scriptStart then runs the stop script, which kills the other one.
ScriptStart(j) ==
  /\ j.kind \in Starting /\ j.phase \in Scripts
  /\ \/ /\ dir /\ qemu # "up"
        /\ qemu' = "up"
        /\ Becomes(j, {At(j, "connect")})
        /\ UNCHANGED <<mon, calls, faults>>
     \/ /\ IsRunning
        /\ qemu' = ScriptStop
        /\ mon' = MonitorAfterKill
        /\ IF j.phase = "script3"
           THEN StartGivesUp(j)
           ELSE Becomes(j, {At(j, NextTry[j.phase])} \cup Killed) /\ UNCHANGED calls
        /\ UNCHANGED faults
     \/ /\ IF dir THEN Fault ELSE UNCHANGED faults
        /\ qemu' = ScriptStop
        /\ mon' = MonitorAfterKill
        /\ StartGivesUp(j)
  /\ UNCHANGED <<known, booting, dir, reports>>

\* Mistake: delayStartMonitor tries until there is a QEMU to connect to.
MonitorConnectForEver(j) ==
  /\ j.kind \in Starting /\ j.phase = "connect"
  /\ IsRunning
  /\ mon' = "live"
  /\ Becomes(j, {At(j, "resume")})
  /\ UNCHANGED <<known, booting, machine, reports, calls, faults>>

\* delayStartMonitor: without a running QEMU there is no port to connect to,
\* and nothing happens any more.  A QEMU that has a monitor connection
\* already does not greet another one.
MonitorConnect(j) ==
  /\ j.kind \in Starting /\ j.phase = "connect"
  /\ \/ /\ IsRunning
        /\ mon' = "live"
        /\ Becomes(j, {At(j, "resume")})
        /\ UNCHANGED <<qemu, faults>>
     \/ /\ ~IsRunning
        /\ Becomes(j, {})
        /\ UNCHANGED <<qemu, mon, faults>>
     \/ /\ IsRunning
        /\ IF mon = "live" THEN UNCHANGED faults ELSE Fault
        /\ qemu' = ForceStop
        /\ mon' = "none"
        /\ Becomes(j, {Job("restart", j.task, "script")} \cup Killed)
  /\ UNCHANGED <<known, booting, dir, reports, calls>>

\* Mistake: the callback that ends the start is registered twice.
ResumeGuestTwice(j) ==
  /\ j.kind \in Starting /\ j.phase = "resume"
  /\ Becomes(j, {})
  /\ calls' = calls \cup Complete(j.task, "none") \cup Complete(j.task, "task")
  /\ Reports("running")
  /\ UNCHANGED <<known, booting, mon, machine, faults>>

\* SGuestResumeTask, which uses s.Monitor again after a pause.  The answer of
\* a monitor that has been closed never comes.
ResumeGuest(j) ==
  /\ j.kind \in Starting /\ j.phase = "resume"
  /\ \/ /\ IsRunning /\ mon = "live"                       \* onStartRunning
        /\ Becomes(j, {})
        /\ calls' = calls \cup Complete(j.task, "none")
        /\ Reports("running")
        /\ UNCHANGED <<known, booting, mon, qemu, faults>>
     \/ /\ IsRunning /\ mon = "live"                       \* taskFailed
        /\ Fault
        /\ qemu' = ForceStop
        /\ mon' = "none"
        /\ Becomes(j, {})
        /\ calls' = calls \cup Failed(j.task)
        /\ IF j.task = 0 THEN Reports("ready") ELSE UNCHANGED reports
        /\ UNCHANGED <<known, booting>>
     \/ /\ ~(IsRunning /\ mon = "live")
        /\ Becomes(j, {})
        /\ UNCHANGED <<known, booting, mon, qemu, reports, calls, faults>>
     \/ /\ mon = "none"                                    \* a nil s.Monitor
        /\ Crash
        /\ UNCHANGED <<qemu, reports, calls, faults>>
  /\ UNCHANGED dir

--------------------------------------------------------------------------
(* Stopping: the guest is asked to shut down and given some time; then, or *)
(* at once when there is no monitor, QEMU is killed.                       *)

StopBegin(j) ==
  /\ j.kind = "stop" /\ j.phase = "begin"
  /\ IsRunning /\ IsMonitorAlive
  /\ Becomes(j, {At(j, "powerdown")})
  /\ UNCHANGED <<known, booting, mon, machine, reports, calls, faults>>

OnPowerdownGuest(j) ==
  /\ j.kind = "stop" /\ j.phase = "powerdown"
  /\ IF IsRunning /\ mon = "live"
     THEN /\ mon' = "none"
          /\ Becomes(j, {At(j, "wait")})
     ELSE /\ Becomes(j, {})                                \* no answer comes
          /\ UNCHANGED mon
  /\ UNCHANGED <<known, booting, machine, reports, calls, faults>>

StopGuest(j) ==
  /\ j.kind = "stop"
  /\ \/ j.phase = "wait"
     \/ j.phase = "begin" /\ ~(IsRunning /\ IsMonitorAlive)
  /\ qemu' = ScriptStop
  /\ mon' = "none"
  /\ jobs' = jobs \ ({j} \cup Unnoticed)
  /\ calls' = calls \cup Complete(j.task, "none")
  /\ UNCHANGED <<known, booting, dir, reports, faults>>

\* QEMU comes to an end: a guest that shuts down as it was asked to, or one
\* that shuts down or breaks down by itself.
QemuExit ==
  /\ qemu = "up"
  /\ \/ UNCHANGED faults /\ \E j \in jobs : j.kind = "stop" /\ j.phase = "wait"
     \/ Fault
  /\ qemu' = IF dir THEN "dead" ELSE "down"
  /\ mon' = MonitorAfterKill
  /\ jobs' = jobs \cup Killed
  /\ UNCHANGED <<known, booting, dir, reports, calls>>

\* Mistake: the end of QEMU is cleaned up after and not reported.
DisConnectUnreported(j) ==
  /\ j.kind = "disconnect" /\ j.phase = "stop"
  /\ qemu' = ScriptStop
  /\ mon' = "none"
  /\ Becomes(j, Killed)
  /\ UNCHANGED <<known, booting, dir, reports, calls, faults>>

\* onMonitorDisConnect: the stop script, the report, s.Monitor = nil.
OnMonitorDisConnect(j) ==
  /\ j.kind = "disconnect"
  /\ \/ /\ j.phase = "stop"
        /\ qemu' = ScriptStop
        /\ mon' = MonitorAfterKill
        /\ Becomes(j, {At(j, "report")} \cup Killed)
        /\ UNCHANGED <<known, booting, reports>>
     \/ /\ j.phase = "report"
        /\ IF IsRunning /\ mon = "none"
           THEN Crash /\ UNCHANGED reports
           ELSE /\ Becomes(j, {})
                /\ mon' = "none"
                /\ IF IsRunning
                   THEN IF mon = "live" THEN Reports("running") ELSE UNCHANGED reports
                   ELSE Reports("ready")
                /\ UNCHANGED <<known, booting>>
        /\ UNCHANGED qemu
  /\ UNCHANGED <<dir, calls, faults>>

\* The timer of asyncScriptStart; a nil s.Monitor ends it, and only it.
SyncStatus(j) ==
  /\ j.kind = "status"
  /\ Becomes(j, {})
  /\ CASE ~IsRunning -> Reports("ready")
       [] IsRunning /\ mon = "live" -> Reports("running")
       [] OTHER -> UNCHANGED reports
  /\ UNCHANGED <<known, booting, mon, machine, calls, faults>>

--------------------------------------------------------------------------
(* A new description, and the end of the guest.                            *)

\* GuestSync and SyncConfig.  For a running guest the task is called twice,
\* the second time after a second.  It is a fault when the first call has
\* not been served by then; serving are the tasks that have calls to serve.
SyncConfig(j, serving) ==
  /\ j.kind = "sync"
  /\ \/ /\ j.phase = "begin"
        /\ calls' = calls \cup
             CASE ~known -> Failed(j.task)                 \* a nil guest
               [] known /\ IsRunning -> Complete(j.task, "task")
               [] OTHER -> Complete(j.task, "none")
        /\ Becomes(j, IF known /\ IsRunning THEN {At(j, "exec")} ELSE {})
        /\ UNCHANGED faults
     \/ /\ j.phase = "exec"
        /\ IF j.task \in serving THEN Fault ELSE UNCHANGED faults
        /\ calls' = calls \cup Complete(j.task, "none")
        /\ Becomes(j, {})
  /\ UNCHANGED <<known, booting, mon, machine, reports>>

\* Mistake: the files go without a look at QEMU.
CleanGuestAtOnce(j) ==
  /\ j.kind = "delete"
  /\ dir' = FALSE
  /\ calls' = calls \cup Complete(j.task, "none")
  /\ Becomes(j, {})
  /\ UNCHANGED <<known, booting, mon, qemu, reports, faults>>

\* StartDelete kills QEMU until it does not run, then the files go.
CleanGuest(j) ==
  /\ j.kind = "delete"
  /\ \/ /\ j.phase = "kill" /\ IsRunning
        /\ qemu' = ForceStop
        /\ mon' = "none"
        /\ jobs' = jobs \ Unnoticed
        /\ UNCHANGED <<dir, calls>>
     \/ /\ j.phase = "kill" /\ ~IsRunning
        /\ Becomes(j, {At(j, "rm")})
        /\ UNCHANGED <<qemu, mon, dir, calls>>
     \/ /\ j.phase = "rm"
        /\ dir' = FALSE
        /\ qemu' = IF qemu = "dead" THEN "down" ELSE qemu
        /\ calls' = calls \cup Complete(j.task, "none")
        /\ Becomes(j, {})
        /\ UNCHANGED mon
  /\ UNCHANGED <<known, booting, reports, faults>>

HostWork(serving) ==
  \E j \in jobs :
    \/ ScriptStart(j) \/ MonitorConnect(j) \/ ResumeGuest(j)
    \/ StopBegin(j) \/ OnPowerdownGuest(j) \/ StopGuest(j)
    \/ OnMonitorDisConnect(j) \/ SyncStatus(j)
    \/ SyncConfig(j, serving) \/ CleanGuest(j)

HostInit(running) ==
  /\ known = TRUE /\ booting = FALSE /\ dir = TRUE
  /\ qemu = IF running THEN "up" ELSE "down"
  /\ mon = IF running THEN "live" ELSE "none"
  /\ jobs = {} /\ reports = {} /\ calls = {} /\ faults = 0

HostTypeOK ==
  /\ known \in BOOLEAN /\ booting \in BOOLEAN /\ dir \in BOOLEAN
  /\ qemu \in {"down", "dead", "up"}
  /\ mon \in {"none", "live", "lost"}
  /\ \A j \in jobs : j.kind \in DOMAIN Phases /\ j.phase \in Phases[j.kind] /\ j.task \in Nat
  /\ \A c \in calls : c.task \in Nat /\ c.failed \in BOOLEAN /\ c.data \in {"none", "task"}
  /\ faults \in 0..MaxFaults

=============================================================================
