--------------------------- MODULE AccountDelete ---------------------------
(***************************************************************************)
(* The deletion of a cloud account (pkg/compute/tasks): the task of the    *)
(* account starts one subtask for each of its cloud providers and deletes  *)
(* the account in the stage OnAllCloudProviderDeleteComplete.  It is the   *)
(* pattern of every task with several subtasks in one stage.               *)
(***************************************************************************)
EXTENDS TaskMan

CONSTANTS Account, Provider   \* the tasks that delete them

OnInit == "OnInit"
OnAllComplete == "OnAllCloudProviderDeleteComplete"

AccountTasks == {Account} \cup Provider
AccountParents == [t \in AccountTasks |-> IF t = Account THEN NoTask ELSE Account]
AccountStages == {OnInit, OnAllComplete}
AccountMethods ==
  {<<t, OnInit, FALSE>> : t \in AccountTasks}
  \cup {<<Account, OnAllComplete, failed>> : failed \in BOOLEAN}

ASSUME AccountDeleteAssumption ==
  /\ Account \notin Provider
  /\ Task = AccountTasks
  /\ ParentOf = AccountParents
  /\ Stage = AccountStages
  /\ InitStage = OnInit
  /\ Method = AccountMethods

VARIABLES
  todo,      \* the providers whose subtasks OnInit has still to start
  early,     \* history: the account's task was woken while some were left
  rewoken    \* history: it was woken more than once

vars == <<taskVars, todo, early, rewoken>>

TypeOK ==
  /\ TaskTypeOK
  /\ todo \in SUBSET Provider
  /\ early \in BOOLEAN
  /\ rewoken \in BOOLEAN

\* StartCloudaccountDeleteTask has made the task and scheduled it; the account
\* has some of the providers.
Init ==
  /\ NoSubtasks
  /\ \E owned \in SUBSET Provider : exists = [t \in Task |-> t \in owned \cup {Account}]
  /\ stage = [t \in Task |-> IF t = Account THEN OnInit ELSE "none"]
  /\ nrun = 1
  /\ run = [r \in Run |-> [task |-> IF r = 1 THEN Account ELSE NoTask, failed |-> FALSE]]
  /\ rpc = [r \in Run |-> IF r = 1 THEN "queued" ELSE "unused"]
  /\ todo = {}
  /\ early = FALSE
  /\ rewoken = FALSE

-----------------------------------------------------------------------------
(***************************************************************************)
(* CloudAccountDeleteTask.                                                 *)
(***************************************************************************)

\* RealDelete of the account, after which SetStageComplete is left to do.
DeleteAccount(r) ==
  /\ exists' = [exists EXCEPT ![Account] = FALSE]
  /\ rpc' = [rpc EXCEPT ![r] = "more"]
  /\ UNCHANGED <<tables, locks, schedule, copies, todo, early, rewoken>>

LiveProviders == {p \in Provider : exists[p]}

OnInitNoProviders(r) ==
  /\ InMethod(r, Account, OnInit, FALSE)
  /\ LiveProviders = {}
  /\ DeleteAccount(r)

OnInitStart(r) ==
  /\ InMethod(r, Account, OnInit, FALSE)
  /\ LiveProviders # {}
  /\ SetStage(r, OnAllComplete)
  /\ todo' = LiveProviders
  /\ rpc' = [rpc EXCEPT ![r] = "more"]
  /\ UNCHANGED <<subStage, subStatus, exists, locks, schedule, rfailed, rseen, early, rewoken>>

\* StartCloudproviderDeleteTask: NewTask and ScheduleRun.
StartProvider(r, p) ==
  /\ rpc[r] = "more" /\ run[r].task = Account /\ p \in todo
  /\ lockedBy[p] = 0
  /\ InsertTask(p)
  /\ InsertSubTask(p)
  /\ todo' = todo \ {p}
  /\ ScheduleRun(p, FALSE, IF todo = {p} THEN [rpc EXCEPT ![r] = "end"] ELSE rpc)
  /\ UNCHANGED <<exists, locks, copies, early, rewoken>>

\* NewTask fails, before or after the task is inserted: the loop is left.
StartProviderFails(r, p) ==
  /\ rpc[r] = "more" /\ run[r].task = Account /\ p \in todo
  /\ lockedBy[p] = 0
  /\ \E inserted \in BOOLEAN :
       stage' = [stage EXCEPT ![p] = IF inserted THEN OnInit ELSE @, ![Account] = "failed"]
  /\ rstage' = [rstage EXCEPT ![r] = "failed"]
  /\ todo' = {}
  /\ rpc' = [rpc EXCEPT ![r] = "end"]
  /\ UNCHANGED <<subStage, subStatus, exists, locks, schedule, rfailed, rseen, early, rewoken>>

OnAllCloudProviderDeleteComplete(r) ==
  /\ InMethod(r, Account, OnAllComplete, FALSE)
  /\ DeleteAccount(r)

AccountComplete(r) ==
  /\ rpc[r] = "more" /\ run[r].task = Account /\ todo = {}
  /\ SetStageComplete(r)
  /\ UNCHANGED <<subStage, subStatus, exists, locks, schedule, rseen, todo, early, rewoken>>

OnAllCloudProviderDeleteCompleteFailed(r) ==
  /\ InMethod(r, Account, OnAllComplete, TRUE)
  /\ SetStageFailed(r)
  /\ UNCHANGED <<subStage, subStatus, exists, locks, schedule, rseen, todo, early, rewoken>>

-----------------------------------------------------------------------------
(***************************************************************************)
(* CloudProviderDeleteTask: RealDelete fails or not.                       *)
(***************************************************************************)
ProviderDeleted(r, p) ==
  /\ InMethod(r, p, OnInit, FALSE)
  /\ exists' = [exists EXCEPT ![p] = FALSE]
  /\ SetStageComplete(r)
  /\ UNCHANGED <<subStage, subStatus, locks, schedule, rseen, todo, early, rewoken>>

\* Mistake: the method goes on after SetStageFailed.
ProviderDeleteGoesOn(r, p) ==
  /\ InMethod(r, p, OnInit, FALSE)
  /\ stage' = [stage EXCEPT ![p] = "failed"]
  /\ UNCHANGED <<subStage, subStatus, exists, locks, schedule, rpc, copies, todo, early, rewoken>>

ProviderDeleteFails(r, p) ==
  /\ InMethod(r, p, OnInit, FALSE)
  /\ SetStageFailed(r)
  /\ UNCHANGED <<subStage, subStatus, exists, locks, schedule, rseen, todo, early, rewoken>>

-----------------------------------------------------------------------------
Woken == {r \in 2..nrun : run[r].task = Account}

\* A step of the task manager, with the wake-ups recorded.
ManagerStep(r) ==
  /\ TaskManStep(r)
  /\ early' = (early \/ (nrun' # nrun /\ todo # {}))
  /\ rewoken' = (rewoken \/ (nrun' # nrun /\ Woken # {}))
  /\ UNCHANGED todo

RunStep(r) ==
  \/ ManagerStep(r)
  \/ OnInitNoProviders(r) \/ OnInitStart(r)
  \/ OnAllCloudProviderDeleteComplete(r) \/ AccountComplete(r)
  \/ OnAllCloudProviderDeleteCompleteFailed(r)
  \/ \E p \in Provider :
       \/ StartProvider(r, p) \/ StartProviderFails(r, p)
       \/ ProviderDeleted(r, p) \/ ProviderDeleteFails(r, p)

Next == \E r \in Run : RunStep(r)

Spec == Init /\ [][Next]_vars

-----------------------------------------------------------------------------
(***************************************************************************)
(* Properties.                                                             *)
(***************************************************************************)
Deleted == ~exists[Account]
Ended(p) == ~exists[p] \/ stage[p] = "failed"

\* The stage that deletes the account runs when all providers' subtasks have
\* ended, unless the account's task was woken by its first subtasks while
\* OnInit was still starting the others.
DeletedAfterAllUnlessEarly ==
  Deleted /\ ~early => \A p \in Provider : Ended(p)

\* The account is not deleted when every subtask has failed: the success that
\* a subtask reports to NotifyParentTaskComplete is its own.
KeptIfAllFail ==
  Deleted /\ (\E p \in Provider : exists[p]) =>
    \E p \in Provider : stage[p] = "complete"

\* A task that has ended is not changed any more, unless it was woken twice or
\* early: a second run finds no method for the stage "complete" and fails the
\* task, or goes on with the stage it fetched before it had the lock.
EndIsFinal ==
  [][~(early' \/ rewoken') =>
       \A t \in Task : stage[t] \in Closed => stage'[t] = stage[t]]_vars

Idle == \A r \in Run : rpc[r] \in {"unused", "done"}

\* No wake-up is lost: when no run is left, the account's task has ended.  Of
\* the subtasks that end together, the last to record its result sees that
\* nothing is left and wakes the parent.
IdleMeansEnded == Idle => stage[Account] \in Closed
=============================================================================
