------------------------- MODULE AccountDeleteSteps -------------------------
(***************************************************************************)
(* The inductive invariant of AccountDelete, and the steps of the tasks of *)
(* the providers and of the runs that wake the task of the account: each   *)
(* of them keeps the invariant, for any number of providers and runs.      *)
(***************************************************************************)
EXTENDS AccountDelete, TLAPS

\* Provers: the default time limits, then longer ones.
USE SMT, Zenon, SMTT(60), ZenonT(60)

USE DEF OnInit, OnAllComplete, Closed

-----------------------------------------------------------------------------
(***************************************************************************)
(* The inductive invariant.                                                *)
(***************************************************************************)
Over == {"end", "done"}
Begun == {OnAllComplete, "complete", "failed"}

\* Runs are numbered in the order they are scheduled; the first is the account's.
Numbered ==
  /\ 1 \in Run /\ nrun >= 1
  /\ run[1].task = Account /\ ~run[1].failed
  /\ \A r \in Run : r <= nrun <=> rpc[r] # "unused"
  /\ \A r \in Run : rpc[r] # "unused" <=> run[r].task # NoTask

\* No other run was scheduled.
Alone == \A r \in Run : r # 1 => run[r].task = NoTask

\* The one run of a provider's task.
Subtask(r) ==
  /\ ~run[r].failed
  /\ subStage[run[r].task] = OnAllComplete
  /\ rpc[r] # "more"
  /\ rpc[r] \in {"queued", "fetched", "lock", "body"} =>
       /\ stage[run[r].task] = OnInit
       /\ exists[run[r].task]
       /\ rpc[r] # "queued" => rstage[r] = OnInit
  /\ rpc[r] \notin {"queued", "fetched", "lock", "body"} =>
       /\ stage[run[r].task] \in Closed
       /\ stage[run[r].task] = "complete" => ~exists[run[r].task]
       /\ ~rfailed[r] => stage[run[r].task] = "complete"
  /\ subStatus[run[r].task] # "init" <=> rpc[r] \in {"notify", "check", "end", "done"}
  /\ \A q \in Run : run[q].task = run[r].task => q = r

Subtasked == \A r \in Run : run[r].task \in Provider => Subtask(r)

\* A provider whose subtask is not registered has no run.
Unstarted ==
  \A p \in Provider : subStage[p] = "none" =>
    /\ subStatus[p] = "init"
    /\ stage[p] \in {"none", OnInit}
    /\ \A r \in Run : run[r].task # p

Registered == \A p \in Provider : subStage[p] # "none" => \E r \in Run : run[r].task = p

ToStart == \A p \in todo : p \in Provider /\ subStage[p] = "none" /\ exists[p]

\* A run that wakes the account's task.
Again(r) == r # 1 /\ run[r].task = Account

Wakes(r) ==
  /\ rpc[r] # "queued" => rstage[r] \in Begun
  /\ rpc[r] # "queued" /\ rstage[r] \in Closed => stage[Account] \in Closed
  /\ rpc[r] \in {"lock", "body", "more"} => rstage[r] = OnAllComplete
  /\ rpc[r] \in Over => stage[Account] \in Closed
  /\ rpc[r] \notin {"save", "notify", "check"}
  /\ ~run[r].failed => \E p \in Provider : stage[p] = "complete"

AllWake == \A r \in Run : Again(r) => Wakes(r)

\* A method runs with the lock of its object.
Locked == \A r \in Run : rpc[r] \in {"body", "more"} => lockedBy[run[r].task] = r

\* The first run: before OnInit, while it starts subtasks, when it has deleted
\* an account without providers, and after.
Beginning ==
  /\ rpc[1] \in {"queued", "fetched", "lock", "body"}
  /\ rpc[1] # "queued" => rstage[1] = OnInit
  /\ Alone /\ stage[Account] = OnInit /\ todo = {} /\ exists[Account]
  /\ \A p \in Provider : subStage[p] = "none"

Starting ==
  /\ rpc[1] = "more" /\ todo # {} /\ exists[Account] /\ stage[Account] = OnAllComplete
  /\ \A r \in Run : Again(r) => rpc[r] \in {"queued", "fetched", "lock"}
  /\ \A p \in Provider : exists[p] => p \in todo \/ subStage[p] # "none"

Empty ==
  /\ rpc[1] = "more" /\ todo = {} /\ Alone /\ stage[Account] = OnInit
  /\ \A p \in Provider : ~exists[p] /\ subStage[p] = "none"

Started == rpc[1] \in Over /\ todo = {} /\ stage[Account] \in Begun

First == Beginning \/ Starting \/ Empty \/ Started

\* The stage of the parent that a subtask has fetched.
Checking ==
  \A r \in Run : rpc[r] = "check" =>
    /\ rseen[r] \in Begun
    /\ stage[Account] = OnAllComplete => rseen[r] = OnAllComplete

\* Somebody is on their way as long as the account's task is not over.
OnTheWay ==
  stage[Account] = OnAllComplete /\ rpc[1] \in Over =>
    \E r \in Run : rpc[r] \notin Over \cup {"unused"}

\* OnInit could not start all subtasks.
Aborted ==
  /\ stage[Account] = "failed" /\ exists[Account]
  /\ \A r \in Run : Again(r) => rpc[r] = "queued" \/ rstage[r] = "failed"

InTime ==
  ~early =>
    /\ todo # {} => \A r \in Run : ~Again(r)
    /\ rpc[1] \in Over => Aborted \/ \A p \in Provider : exists[p] => subStage[p] # "none"
    /\ (\E r \in Run : Again(r)) => Aborted \/ \A p \in Provider : Ended(p)
    /\ Deleted => \A p \in Provider : Ended(p)

WokenOnce ==
  ~early /\ ~rewoken =>
    /\ \A q, r \in Run : Again(q) /\ Again(r) => q = r
    /\ stage[Account] = "complete" => Alone \/ \E r \in Run : Again(r)
    /\ \A r \in Run : Again(r) /\ rpc[r] \notin Over =>
         /\ stage[Account] # "complete"
         /\ rpc[r] # "queued" => stage[Account] = rstage[r]

AInv ==
  /\ TypeOK /\ Numbered
  /\ Subtasked /\ Unstarted /\ Registered /\ ToStart
  /\ AllWake /\ Locked /\ First /\ Checking /\ OnTheWay
  /\ InTime /\ WokenOnce /\ KeptIfAllFail

-----------------------------------------------------------------------------
(***************************************************************************)
(* The constants, types and the numbering of runs.                         *)
(***************************************************************************)

\* The tasks, their parents and their methods, as AccountDelete sets them.
LEMMA Constants ==
  /\ Account \in Task /\ Account \notin Provider /\ NoTask \notin Task
  /\ \A p \in Provider : p \in Task
  /\ \A t \in Task : t = Account \/ t \in Provider
  /\ ParentOf[Account] = NoTask
  /\ \A p \in Provider : ParentOf[p] = Account
  /\ \A t \in Task : ParentOf[t] \in Task \cup {NoTask}
BY AccountDeleteAssumption, TaskManAssumption DEF AccountTasks, AccountParents

\* The stages of the two kinds of task.
LEMMA StageNames ==
  Stages = {"OnInit", "OnAllCloudProviderDeleteComplete", "none", "complete", "failed"} /\ InitStage = "OnInit"
BY AccountDeleteAssumption DEF Stages, AccountStages

\* The methods of the two kinds of task.
LEMMA Methods ==
  \A t, s, f : <<t, s, f>> \in Method <=>
    \/ t \in Task /\ s = OnInit /\ f = FALSE
    \/ t = Account /\ s = OnAllComplete /\ f \in BOOLEAN
BY AccountDeleteAssumption DEF AccountTasks, AccountMethods

\* Where a run is tells whose it is.
LEMMA Places ==
  ASSUME AInv, NEW r \in Run, rpc[r] # "unused"
  PROVE  /\ run[r].task \in Task
         /\ run[r].task = Account => r = 1 \/ Again(r)
         /\ rpc[r] \in {"save", "notify", "check"} => run[r].task \in Provider
<1>1. run[r].task \in Task BY Constants DEF AInv, TypeOK, TaskTypeOK, Numbered
<1>2. run[r].task = Account => r = 1 \/ Again(r) BY DEF Again
<1>3. ASSUME rpc[r] \in {"save", "notify", "check"}, run[r].task \notin Provider PROVE FALSE
  <2>1. r = 1 \/ Again(r) BY <1>1, <1>2, <1>3, Constants
  <2>2. r # 1 BY <1>3 DEF AInv, First, Beginning, Starting, Empty, Started, Over
  <2>3. QED BY <1>3, <2>1, <2>2 DEF AInv, AllWake, Wakes
<1>4. QED BY <1>1, <1>2, <1>3

\* SetStageFailed leaves a task that the run has seen failed as it is.
Fails(r) ==
  /\ \A q \in Run : q # r => rpc'[q] = rpc[q] /\ rstage'[q] = rstage[q] /\ rfailed'[q] = rfailed[q]
  /\ \A t \in Task : t # run[r].task => stage'[t] = stage[t]
  /\ rstage[r] = "failed" => stage'[run[r].task] = stage[run[r].task] /\ rpc'[r] = "end"
  /\ rstage[r] # "failed" => stage'[run[r].task] = "failed" /\ rpc'[r] = AfterEnd(r) /\ rfailed'[r]
  /\ rstage'[r] = "failed"

\* What SetStageFailed changes.
LEMMA FailedEffect ==
  ASSUME TypeOK, NEW r \in Run, run[r].task \in Task, SetStageFailed(r)
  PROVE  /\ stage' \in [Task -> Stages]
         /\ rstage' \in [Run -> Stages]
         /\ rfailed' \in [Run -> BOOLEAN]
         /\ rpc' \in [Run -> Place]
         /\ Fails(r)
<1> USE DEF TypeOK, TaskTypeOK
<1>1. CASE rstage[r] = "failed"
  <2>1. rpc' = [rpc EXCEPT ![r] = "end"] /\ stage' = stage /\ rstage' = rstage /\ rfailed' = rfailed
    BY <1>1, ZenonT(60) DEF SetStageFailed
  <2>2. rpc' \in [Run -> Place] /\ rpc'[r] = "end" /\ \A q \in Run : q # r => rpc'[q] = rpc[q]
    BY <2>1 DEF Place
  <2>3. QED BY <1>1, <2>1, <2>2, ZenonT(60) DEF Fails
<1>2. CASE rstage[r] # "failed"
  <2>1. /\ stage' = [stage EXCEPT ![run[r].task] = "failed"]
        /\ rstage' = [rstage EXCEPT ![r] = "failed"]
        /\ rpc' = [rpc EXCEPT ![r] = AfterEnd(r)]
        /\ rfailed' = [rfailed EXCEPT ![r] = TRUE]
    BY <1>2, ZenonT(60) DEF SetStageFailed, SetStage
  <2>2. rfailed' \in [Run -> BOOLEAN] /\ rfailed'[r] /\ \A q \in Run : q # r => rfailed'[q] = rfailed[q]
    BY <2>1, ZenonT(60)
  <2>3. AfterEnd(r) \in Place BY DEF AfterEnd, Place
  <2>4. rpc' \in [Run -> Place] /\ rpc'[r] = AfterEnd(r) /\ \A q \in Run : q # r => rpc'[q] = rpc[q]
    BY <2>1, <2>3, ZenonT(60)
  <2>5. rstage' \in [Run -> Stages] /\ rstage'[r] = "failed" /\ \A q \in Run : q # r => rstage'[q] = rstage[q]
    BY <2>1, StageNames
  <2>6. /\ stage' \in [Task -> Stages]
        /\ stage'[run[r].task] = "failed"
        /\ \A t \in Task : t # run[r].task => stage'[t] = stage[t]
    BY <2>1, StageNames
  <2>7. QED BY <1>2, <2>2, <2>4, <2>5, <2>6, ZenonT(60) DEF Fails
<1>3. QED BY <1>1, <1>2, ZenonT(60)

\* SetStageComplete ends the task in any case.
Completes(r) ==
  /\ \A q \in Run : q # r => rpc'[q] = rpc[q] /\ rstage'[q] = rstage[q] /\ rfailed'[q] = rfailed[q]
  /\ \A t \in Task : t # run[r].task => stage'[t] = stage[t]
  /\ stage'[run[r].task] = "complete" /\ rpc'[r] = AfterEnd(r) /\ ~rfailed'[r]
  /\ rstage'[r] = "complete"

\* What SetStageComplete changes.
LEMMA CompleteEffect ==
  ASSUME TypeOK, NEW r \in Run, run[r].task \in Task, SetStageComplete(r)
  PROVE  Completes(r)
BY ZenonT(60) DEF TypeOK, TaskTypeOK, SetStageComplete, SetStage, Completes

\* ScheduleRun uses the next number.
LEMMA ScheduleEffect ==
  ASSUME TypeOK, NEW t \in Task, NEW failed \in BOOLEAN, NEW pcs \in [Run -> Place],
         ScheduleRun(t, failed, pcs)
  PROVE  /\ nrun' \in 0..MaxRuns
         /\ run' \in [Run -> [task : Task \cup {NoTask}, failed : BOOLEAN]]
         /\ rpc' \in [Run -> Place]
         /\ nrun + 1 \in Run
         /\ nrun' = nrun + 1
         /\ run'[nrun + 1].task = t
         /\ run'[nrun + 1].failed = failed
         /\ rpc'[nrun + 1] = "queued"
         /\ \A q \in Run : q # nrun + 1 => run'[q] = run[q] /\ rpc'[q] = pcs[q]
<1> USE TaskManAssumption DEF TypeOK, TaskTypeOK, ScheduleRun, Run
<1>1. nrun' \in 0..MaxRuns /\ nrun + 1 \in Run /\ nrun' = nrun + 1 OBVIOUS
<1>2. rpc' \in [Run -> Place] /\ rpc'[nrun + 1] = "queued" /\ \A q \in Run : q # nrun + 1 => rpc'[q] = pcs[q]
  BY <1>1 DEF Place
<1>3. /\ run' \in [Run -> [task : Task \cup {NoTask}, failed : BOOLEAN]]
      /\ \A q \in Run : q # nrun + 1 => run'[q] = run[q]
      /\ run'[nrun + 1] = [task |-> t, failed |-> failed]
  BY <1>1
<1>4. run'[nrun + 1].task = t /\ run'[nrun + 1].failed = failed BY <1>3
<1>5. QED BY <1>1, <1>2, <1>3, <1>4, ZenonT(60)

\* Every step keeps the types.
LEMMA Typed == ASSUME AInv, [Next]_vars PROVE TypeOK'
<1> USE Constants, StageNames DEF TypeOK, TaskTypeOK, Place, tables, locks, schedule, copies
<1>0. TypeOK BY DEF AInv
<1>1. CASE UNCHANGED vars BY <1>0, <1>1 DEF vars, taskVars
<1>2. ASSUME NEW r \in Run, RunStep(r) PROVE TypeOK'
  <2>0. rpc[r] # "unused" => run[r].task \in Task BY Places
  <2>12. rpc[r] \in {"save", "notify", "check"} => run[r].task \in Provider BY Places
  <2>1. CASE ManagerStep(r)
    <3>1. CASE FetchTask(r) BY <1>0, <2>0, <2>12, <2>1, <3>1 DEF ManagerStep, FetchTask
    <3>2. CASE CannotExec(r) BY FailedEffect, <1>0, <2>0, <2>12, <2>1, <3>2 DEF ManagerStep, CannotExec
    <3>3. CASE FetchObject(r) BY <1>0, <2>0, <2>12, <2>1, <3>3 DEF ManagerStep, FetchObject
    <3>4. CASE LockObject(r) BY <1>0, <2>0, <2>12, <2>1, <3>4 DEF ManagerStep, LockObject
    <3>5. CASE SaveResults(r) BY <1>0, <2>0, <2>12, <2>1, <3>5 DEF ManagerStep, SaveResults
    <3>6. CASE FetchParent(r) BY <1>0, <2>0, <2>12, <2>1, <3>6 DEF ManagerStep, FetchParent
    <3>7. CASE WakeParent(r)
      <4> DEFINE pcs == [rpc EXCEPT ![r] = "end"]
      <4>1. ParentOf[run[r].task] = Account /\ pcs \in [Run -> Place] BY <1>0, <2>12, <3>7 DEF WakeParent
      <4>2. CASE ScheduleRun(Account, rfailed[r], pcs)
        <5>1. /\ nrun' \in 0..MaxRuns
              /\ run' \in [Run -> [task : Task \cup {NoTask}, failed : BOOLEAN]]
              /\ rpc' \in [Run -> Place]
          <6>1. rfailed[r] \in BOOLEAN BY <1>0
          <6> HIDE DEF pcs, TypeOK
          <6>2. QED BY <1>0, <4>1, <4>2, <6>1, ScheduleEffect, Constants, ZenonT(60)
        <5>2. QED BY <1>0, <2>1, <3>7, <4>1, <5>1 DEF ManagerStep, WakeParent
      <4>3. CASE rpc' = pcs /\ UNCHANGED schedule
        BY <1>0, <2>1, <3>7, <4>1, <4>3 DEF ManagerStep, WakeParent
      <4>4. QED BY <3>7, <4>1, <4>2, <4>3, ZenonT(60) DEF WakeParent
    <3>8. CASE EndRun(r) BY <1>0, <2>0, <2>12, <2>1, <3>8 DEF ManagerStep, EndRun
    <3>9. QED BY <2>1, <3>1, <3>2, <3>3, <3>4, <3>5, <3>6, <3>7, <3>8 DEF ManagerStep, TaskManStep
  <2>2. CASE OnInitNoProviders(r) BY <1>0, <2>0, <2>2 DEF OnInitNoProviders, DeleteAccount
  <2>3. CASE OnInitStart(r) BY <1>0, <2>0, <2>3 DEF OnInitStart, SetStage, LiveProviders
  <2>4. CASE OnAllCloudProviderDeleteComplete(r) BY <1>0, <2>0, <2>4 DEF OnAllCloudProviderDeleteComplete, DeleteAccount
  <2>5. CASE AccountComplete(r) BY <1>0, <2>0, <2>5 DEF AccountComplete, SetStageComplete, SetStage, AfterEnd
  <2>6. CASE OnAllCloudProviderDeleteCompleteFailed(r)
    BY <1>0, <2>0, <2>6, FailedEffect DEF OnAllCloudProviderDeleteCompleteFailed, InMethod
  <2>7. ASSUME NEW p \in Provider, StartProvider(r, p) PROVE TypeOK'
    <3> DEFINE pcs == IF todo = {p} THEN [rpc EXCEPT ![r] = "end"] ELSE rpc
    <3>1. pcs \in [Run -> Place] BY <1>0
    <3>2. /\ nrun' \in 0..MaxRuns
          /\ run' \in [Run -> [task : Task \cup {NoTask}, failed : BOOLEAN]]
          /\ rpc' \in [Run -> Place]
      <4>1. ScheduleRun(p, FALSE, pcs) BY <2>7 DEF StartProvider
      <4> HIDE DEF pcs
      <4>2. QED BY <1>0, <3>1, <4>1, ScheduleEffect, ZenonT(60)
    <3>3. QED BY <1>0, <2>7, <3>2 DEF StartProvider, InsertTask, InsertSubTask
  <2>8. ASSUME NEW p \in Provider, StartProviderFails(r, p) PROVE TypeOK' BY <1>0, <2>0, <2>8 DEF StartProviderFails
  <2>9. ASSUME NEW p \in Provider, ProviderDeleted(r, p) PROVE TypeOK'
    BY <1>0, <2>0, <2>9 DEF ProviderDeleted, SetStageComplete, SetStage, AfterEnd
  <2>10. ASSUME NEW p \in Provider, ProviderDeleteFails(r, p) PROVE TypeOK'
    BY <1>0, <2>0, <2>10, FailedEffect DEF ProviderDeleteFails, InMethod
  <2>11. QED
    BY <1>2, <2>1, <2>2, <2>3, <2>4, <2>5, <2>6, <2>7, <2>8, <2>9, <2>10, ZenonT(60) DEF RunStep
<1>3. QED BY <1>1, <1>2, ZenonT(60) DEF Next

-----------------------------------------------------------------------------
(***************************************************************************)
(* A step of one run that schedules no other.                              *)
(***************************************************************************)
Solo(r) ==
  /\ rpc[r] # "unused" /\ rpc'[r] # "unused"
  /\ nrun' = nrun /\ run' = run /\ subStage' = subStage
  /\ \A q \in Run : q # r =>
       rpc'[q] = rpc[q] /\ rstage'[q] = rstage[q] /\ rfailed'[q] = rfailed[q] /\ rseen'[q] = rseen[q]
  /\ \A p \in Provider : p # run[r].task =>
       stage'[p] = stage[p] /\ subStatus'[p] = subStatus[p] /\ exists'[p] = exists[p]

\* A step of one run schedules no other,
LEMMA SoloNumbered == ASSUME AInv, NEW r \in Run, Solo(r) PROVE Numbered'
BY ZenonT(60) DEF AInv, Numbered, Solo

\* registers no subtask,
LEMMA SoloRegistered == ASSUME AInv, NEW r \in Run, Solo(r) PROVE Registered'
BY ZenonT(60) DEF AInv, Registered, Solo

\* starts none that is not registered,
LEMMA SoloUnstarted == ASSUME AInv, NEW r \in Run, Solo(r) PROVE Unstarted'
<1>1. \A p \in Provider : subStage[p] = "none" => p # run[r].task
  BY ZenonT(60) DEF AInv, Unstarted
<1>2. QED BY <1>1, ZenonT(60) DEF AInv, Unstarted, Solo

\* adds none to those that OnInit has to start,
LEMMA SoloToStart == ASSUME AInv, NEW r \in Run, Solo(r), \A p \in todo' : p \in todo PROVE ToStart'
<1>1. \A p \in Provider : subStage[p] = "none" => p # run[r].task
  BY ZenonT(60) DEF AInv, Unstarted
<1>2. QED BY <1>1, ZenonT(60) DEF AInv, ToStart, Solo

\* and leaves the other subtasks as they are.
LEMMA SoloSubtasked ==
  ASSUME AInv, NEW r \in Run, Solo(r), run[r].task \in Provider => Subtask(r)' PROVE Subtasked'
<1> SUFFICES ASSUME NEW q \in Run, run[q].task \in Provider, q # r PROVE Subtask(q)'
  BY ZenonT(60) DEF Subtasked, Solo
<1>1. Subtask(q) BY ZenonT(60) DEF AInv, Subtasked
<1>2. run[q].task # run[r].task BY <1>1, ZenonT(60) DEF Subtask
<1>3. QED BY <1>1, <1>2, ZenonT(60) DEF Subtask, Solo

\* The locks that others hold are not taken away.
LEMMA SoloLocked ==
  ASSUME AInv, NEW r \in Run, Solo(r),
         \A t \in Task : lockedBy[t] \notin {0, r} => lockedBy'[t] = lockedBy[t],
         rpc'[r] \in {"body", "more"} => lockedBy'[run[r].task] = r
  PROVE  Locked'
<1> SUFFICES ASSUME NEW q \in Run, rpc[q] \in {"body", "more"}, q # r PROVE lockedBy'[run[q].task] = q
  BY ZenonT(60) DEF Locked, Solo
<1>1. lockedBy[run[q].task] = q BY ZenonT(60) DEF AInv, Locked
<1>2. run[q].task \in Task BY Places
<1>3. q # 0 BY DEF Run
<1>4. QED BY <1>1, <1>2, <1>3, ZenonT(60)

\* A step of a provider's run.
LEMMA ProviderStep ==
  ASSUME AInv, TypeOK', NEW r \in Run, Solo(r), NEW p \in Provider, p = run[r].task,
         Subtask(r)', Locked',
         stage'[Account] = stage[Account], exists'[Account] = exists[Account],
         todo' = todo, early' = early, rewoken' = rewoken,
         exists'[p] => exists[p],
         stage[p] \in Closed => stage'[p] = stage[p],
         rpc'[r] = "check" => rseen'[r] = stage[Account],
         rpc'[r] \in Over => rpc[r] \in Over \/ OnTheWay'
  PROVE  AInv'
<1>1. Numbered' /\ Registered' /\ Unstarted' /\ ToStart' /\ Subtasked'
  BY SoloNumbered, SoloRegistered, SoloUnstarted, SoloToStart, SoloSubtasked, ZenonT(60)
<1>2. r # 1 /\ run'= run BY Constants, ZenonT(60) DEF AInv, Numbered, Solo
<1>3. \A q : Again(q)' <=> Again(q) BY <1>2, ZenonT(60) DEF Again
<1>4. \A q \in Run : Again(q) => q # r BY Constants, ZenonT(60) DEF Again
<1>5. Alone' <=> Alone BY <1>2, ZenonT(60) DEF Alone
<1>6. ~Alone BY <1>2, Constants, ZenonT(60) DEF Alone
<1>7. \A c \in Provider : (exists'[c] => exists[c]) /\ (stage[c] \in Closed => stage'[c] = stage[c])
  BY ZenonT(60) DEF Solo
<1>8. AllWake'
  <2> SUFFICES ASSUME NEW q \in Run, Again(q) PROVE Wakes(q)' BY <1>3, ZenonT(60) DEF AllWake
  <2>1. Wakes(q) BY ZenonT(60) DEF AInv, AllWake
  <2>2. (\E c \in Provider : stage[c] = "complete") => \E c \in Provider : stage'[c] = "complete"
    BY <1>7, ZenonT(60)
  <2>3. QED BY <1>2, <1>4, <2>1, <2>2, ZenonT(60) DEF Wakes, Solo
<1>9. First'
  <2>1. rpc'[1] = rpc[1] /\ 1 \in Run BY <1>2, ZenonT(60) DEF AInv, Numbered, Solo
  <2>2. CASE Starting
    BY <1>3, <1>4, <1>7, <2>1, <2>2, ZenonT(60) DEF Starting, First, Solo
  <2>3. CASE Started BY <2>1, <2>3, ZenonT(60) DEF Started, First
  <2>4. QED BY <1>6, <2>2, <2>3, ZenonT(60) DEF AInv, First, Beginning, Empty
<1>10. Checking'
  <2>1. stage[Account] \in Begun
    BY <1>6, ZenonT(60) DEF AInv, First, Beginning, Starting, Empty, Started, Begun
  <2>2. QED BY <2>1, ZenonT(60) DEF AInv, Checking, Solo
<1>11. OnTheWay'
  BY <1>2, ZenonT(60) DEF AInv, OnTheWay, Numbered, Solo
<1>12. \A c \in Provider : Ended(c) => Ended(c)' BY <1>7, ZenonT(60) DEF Ended
<1>13. Aborted => Aborted'
  BY <1>3, <1>4, ZenonT(60) DEF Aborted, Solo
<1>14. InTime'
  BY <1>2, <1>3, <1>7, <1>12, <1>13, ZenonT(60) DEF AInv, InTime, Numbered, Solo, Deleted
<1>15. WokenOnce'
  <2>1. \A q \in Run : Again(q) => rpc'[q] = rpc[q] /\ rstage'[q] = rstage[q]
    BY <1>4, ZenonT(60) DEF Solo
  <2>2. QED BY <1>3, <1>5, <2>1, ZenonT(60) DEF AInv, WokenOnce
<1>16. KeptIfAllFail'
  BY <1>7, ZenonT(60) DEF AInv, KeptIfAllFail, Deleted
<1>17. QED BY <1>1, <1>8, <1>9, <1>10, <1>11, <1>14, <1>15, <1>16, ZenonT(60) DEF AInv

-----------------------------------------------------------------------------
(***************************************************************************)
(* The steps of the run of a provider's task.                              *)
(***************************************************************************)
LEMMA ProviderFetchTask ==
  ASSUME AInv, TypeOK', NEW r \in Run, run[r].task \in Provider, FetchTask(r), UNCHANGED <<todo, early, rewoken>>
  PROVE  AInv'
<1>1. rpc[r] = "queued" /\ rpc'[r] = "fetched" /\ rstage'[r] = stage[run[r].task] /\ Solo(r)
  BY DEF AInv, TypeOK, TaskTypeOK, FetchTask, Solo, tables, schedule
<1>2. Subtask(r) BY ZenonT(60) DEF AInv, Subtasked
<1>3. Subtask(r)' BY <1>1, <1>2 DEF Subtask, FetchTask, tables, schedule
<1>4. Locked' BY <1>1, SoloLocked, ZenonT(60) DEF FetchTask, locks
<1>5. QED BY <1>1, <1>3, <1>4, ProviderStep, ZenonT(60) DEF FetchTask, tables, Over

\* The run of a provider loads the provider,
LEMMA ProviderFetchObject ==
  ASSUME AInv, TypeOK', NEW r \in Run, run[r].task \in Provider, FetchObject(r), UNCHANGED <<todo, early, rewoken>>
  PROVE  AInv'
<1>1. rpc[r] = "fetched" /\ rpc'[r] = "lock" /\ rstage' = rstage /\ Solo(r)
  BY DEF AInv, TypeOK, TaskTypeOK, FetchObject, Solo, tables, schedule, copies
<1>2. Subtask(r) BY ZenonT(60) DEF AInv, Subtasked
<1>3. Subtask(r)' BY <1>1, <1>2 DEF Subtask, FetchObject, tables, schedule
<1>4. Locked' BY <1>1, SoloLocked, ZenonT(60) DEF FetchObject, locks
<1>5. QED BY <1>1, <1>3, <1>4, ProviderStep, ZenonT(60) DEF FetchObject, tables, Over

\* takes its lock,
LEMMA ProviderLockObject ==
  ASSUME AInv, TypeOK', NEW r \in Run, run[r].task \in Provider, LockObject(r), UNCHANGED <<todo, early, rewoken>>
  PROVE  AInv'
<1>1. rpc[r] = "lock" /\ rpc'[r] = "body" /\ rstage' = rstage /\ Solo(r)
  BY DEF AInv, TypeOK, TaskTypeOK, LockObject, Solo, tables, schedule, copies
<1>2. Subtask(r) BY ZenonT(60) DEF AInv, Subtasked
<1>3. Subtask(r)' BY <1>1, <1>2 DEF Subtask, LockObject, tables, schedule
<1>4. lockedBy'[run[r].task] = r /\ \A t \in Task : lockedBy[t] \notin {0, r} => lockedBy'[t] = lockedBy[t]
  BY Constants DEF AInv, TypeOK, TaskTypeOK, LockObject
<1>5. Locked' BY <1>1, <1>4, SoloLocked, ZenonT(60)
<1>6. QED BY <1>1, <1>3, <1>5, ProviderStep, ZenonT(60) DEF LockObject, tables, Over

\* reports to the row of its subtask,
LEMMA ProviderSaveResults ==
  ASSUME AInv, TypeOK', NEW r \in Run, run[r].task \in Provider, SaveResults(r), UNCHANGED <<todo, early, rewoken>>
  PROVE  AInv'
<1>1. rpc[r] = "save" /\ rpc'[r] = "notify" /\ rfailed' = rfailed /\ Solo(r)
  BY Constants DEF AInv, TypeOK, TaskTypeOK, SaveResults, Solo, schedule, copies
<1>2. Subtask(r) BY ZenonT(60) DEF AInv, Subtasked
<1>3. subStatus'[run[r].task] # "init"
  BY <1>2, Constants DEF AInv, TypeOK, TaskTypeOK, SaveResults, Subtask
<1>4. Subtask(r)' BY <1>1, <1>2, <1>3 DEF Subtask, SaveResults, schedule
<1>5. Locked' BY <1>1, SoloLocked, ZenonT(60) DEF SaveResults, locks
<1>6. QED BY <1>1, <1>4, <1>5, ProviderStep, ZenonT(60) DEF SaveResults, Over

\* loads the task of the account,
LEMMA ProviderFetchParent ==
  ASSUME AInv, TypeOK', NEW r \in Run, run[r].task \in Provider, FetchParent(r), UNCHANGED <<todo, early, rewoken>>
  PROVE  AInv'
<1>1. rpc[r] = "notify" /\ rpc'[r] = "check" /\ rseen'[r] = stage[Account] /\ Solo(r)
  BY Constants DEF AInv, TypeOK, TaskTypeOK, FetchParent, Solo, tables, schedule
<1>2. Subtask(r) BY ZenonT(60) DEF AInv, Subtasked
<1>3. Subtask(r)' BY <1>1, <1>2 DEF Subtask, FetchParent, tables, schedule
<1>4. Locked' BY <1>1, SoloLocked, ZenonT(60) DEF FetchParent
<1>5. QED BY <1>1, <1>3, <1>4, ProviderStep, ZenonT(60) DEF FetchParent, tables, Over

\* and gives its lock back.
LEMMA ProviderEndRun ==
  ASSUME AInv, TypeOK', NEW r \in Run, run[r].task \in Provider, EndRun(r), UNCHANGED <<todo, early, rewoken>>
  PROVE  AInv'
<1>1. rpc[r] = "end" /\ rpc'[r] = "done" /\ rfailed' = rfailed /\ Solo(r)
  BY Constants DEF AInv, TypeOK, TaskTypeOK, EndRun, Solo, tables, schedule, copies
<1>2. Subtask(r) BY ZenonT(60) DEF AInv, Subtasked
<1>3. Subtask(r)' BY <1>1, <1>2 DEF Subtask, EndRun, tables, schedule
<1>4. \A t \in Task : lockedBy[t] \notin {0, r} => lockedBy'[t] = lockedBy[t]
  BY DEF AInv, TypeOK, TaskTypeOK, EndRun
<1>5. Locked' BY <1>1, <1>4, SoloLocked, ZenonT(60)
<1>6. QED BY <1>1, <1>3, <1>5, ProviderStep, ZenonT(60) DEF EndRun, tables, Over

\* A subtask that leaves others of its stage: one of them is on its way.
LEMMA ProviderNoWake ==
  ASSUME AInv, TypeOK', NEW r \in Run, run[r].task \in Provider, rpc[r] = "check",
         ~IsCurrentStageComplete(Account, rseen[r]),
         rpc' = [rpc EXCEPT ![r] = "end"],
         UNCHANGED <<tables, exists, lockedBy, schedule, copies, todo, early, rewoken>>
  PROVE  AInv'
<1>1. rpc'[r] = "end" /\ Solo(r)
  BY DEF AInv, TypeOK, TaskTypeOK, Solo, tables, schedule, copies
<1>2. Subtask(r) BY ZenonT(60) DEF AInv, Subtasked
<1>3. Subtask(r)' BY <1>1, <1>2 DEF Subtask, tables, schedule, copies
<1>4. Locked' BY <1>1, SoloLocked, ZenonT(60)
<1>5. ASSUME stage[Account] = OnAllComplete PROVE \E q \in Run : rpc'[q] \notin Over \cup {"unused"}
  <2>1. rseen[r] = OnAllComplete BY <1>5, ZenonT(60) DEF AInv, Checking
  <2>2. run[r].task \in Subtasks(Account, OnAllComplete)
    BY <1>2, Constants, ZenonT(60) DEF Subtasks, Subtask
  <2>3. PICK c \in Subtasks(Account, OnAllComplete) : subStatus[c] = "init"
    BY <2>1, <2>2, ZenonT(60) DEF IsCurrentStageComplete
  <2>4. c \in Provider /\ subStage[c] = OnAllComplete
    BY Constants DEF Subtasks
  <2>5. PICK q \in Run : run[q].task = c BY <2>4 DEF AInv, Registered
  <2>6. Subtask(q) BY <2>4, <2>5, ZenonT(60) DEF AInv, Subtasked
  <2>7. rpc[q] \notin {"notify", "check", "end", "done"}
    BY <2>3, <2>5, <2>6, ZenonT(60) DEF Subtask
  <2>8. rpc[q] # "unused" BY <2>4, <2>5, Constants, ZenonT(60) DEF AInv, Numbered
  <2>9. rpc'[q] = rpc[q] BY <2>7, <1>1, ZenonT(60) DEF Solo
  <2>10. QED BY <2>7, <2>8, <2>9, ZenonT(60) DEF Over
<1>6. OnTheWay' BY <1>5, ZenonT(60) DEF OnTheWay, tables
<1>7. QED BY <1>1, <1>3, <1>4, <1>6, ProviderStep, ZenonT(60) DEF tables

\* Its method has deleted the provider, or failed to.
LEMMA ProviderEnds ==
  ASSUME AInv, TypeOK', NEW r \in Run, NEW p \in Provider,
         ProviderDeleted(r, p) \/ ProviderDeleteFails(r, p)
  PROVE  AInv'
<1>1. rpc[r] = "body" /\ run[r].task = p /\ rstage[r] = OnInit /\ AfterEnd(r) = "save"
  <2>1. InMethod(r, p, OnInit, FALSE) BY ZenonT(60) DEF ProviderDeleted, ProviderDeleteFails
  <2>2. QED BY <2>1, Constants DEF InMethod, AfterEnd
<1>2. Subtask(r) BY <1>1, ZenonT(60) DEF AInv, Subtasked
<1>3. /\ Solo(r) /\ rpc'[r] = "save" /\ stage'[p] \in Closed /\ stage'[Account] = stage[Account]
      /\ stage'[p] = "complete" => ~exists'[p]
      /\ ~rfailed'[r] => stage'[p] = "complete"
      /\ subStatus' = subStatus /\ subStage' = subStage
      /\ exists'[p] => exists[p]
      /\ exists'[Account] = exists[Account]
      /\ UNCHANGED <<lockedBy, todo, early, rewoken>>
  <2>1. CASE ProviderDeleted(r, p)
    <3>1. UNCHANGED <<subStage, subStatus, lockedBy, nrun, run, rseen, todo, early, rewoken>>
      BY <2>1, ZenonT(60) DEF ProviderDeleted, schedule, locks
    <3>2. Completes(r)
      BY <1>1, <2>1, Constants, CompleteEffect DEF AInv, ProviderDeleted
    <3>3. exists \in [Task -> BOOLEAN] /\ exists' = [exists EXCEPT ![p] = FALSE] /\ p \in Task
      BY <2>1, Constants, ZenonT(60) DEF AInv, TypeOK, TaskTypeOK, ProviderDeleted
    <3>4. ~exists'[p] /\ \A t \in Task : t # p => exists'[t] = exists[t] BY <3>3, ZenonT(60)
    <3>5. Solo(r) BY <1>1, <3>1, <3>2, <3>4, Constants, ZenonT(60) DEF Solo, Completes
    <3>6. QED BY <1>1, <3>1, <3>2, <3>4, <3>5, Constants, ZenonT(60) DEF Completes
  <2>2. CASE ProviderDeleteFails(r, p)
    <3>1. UNCHANGED <<subStage, subStatus, exists, lockedBy, nrun, run, rseen, todo, early, rewoken>>
      BY <2>2, ZenonT(60) DEF ProviderDeleteFails, schedule, locks
    <3>2. Fails(r)
      BY <1>1, <2>2, Constants, FailedEffect DEF AInv, ProviderDeleteFails
    <3>3. Solo(r) BY <1>1, <3>1, <3>2, Constants, ZenonT(60) DEF Solo, Fails
    <3>4. stage'[p] = "failed" /\ rpc'[r] = "save" /\ rfailed'[r] /\ stage'[Account] = stage[Account]
      BY <1>1, <3>2, Constants, ZenonT(60) DEF Fails
    <3>5. QED BY <3>1, <3>3, <3>4, ZenonT(60)
  <2>3. QED BY <2>1, <2>2, ZenonT(60)
<1>4. run' = run BY <1>3, ZenonT(60) DEF Solo
<1>5. Subtask(r)' BY <1>1, <1>2, <1>3, <1>4 DEF Subtask
<1>6. Locked' BY <1>3, SoloLocked, ZenonT(60)
<1>7. stage[p] = OnInit BY <1>1, <1>2, ZenonT(60) DEF Subtask
<1>8. QED BY <1>1, <1>3, <1>5, <1>6, <1>7, ProviderStep, ZenonT(60) DEF Over

-----------------------------------------------------------------------------
(***************************************************************************)
(* The steps of a run that wakes the account's task.                       *)
(***************************************************************************)
LEMMA AgainStep ==
  ASSUME AInv, TypeOK', NEW r \in Run, Solo(r), Again(r), Wakes(r)', Locked',
         todo' = todo, early' = early, rewoken' = rewoken,
         exists'[Account] => exists[Account],
         ~exists'[Account] /\ exists[Account] => ~run[r].failed,
         stage'[Account] = stage[Account] \/ stage'[Account] \in Closed,
         stage[Account] \in Closed => stage'[Account] \in Closed,
         Starting => /\ rpc'[r] \in {"queued", "fetched", "lock"}
                     /\ stage'[Account] = stage[Account] /\ exists'[Account],
         Aborted => stage'[Account] = stage[Account] /\ exists'[Account] /\ rstage'[r] = "failed",
         ~early /\ ~rewoken /\ rpc'[r] \notin Over =>
           stage'[Account] # "complete" /\ stage'[Account] = rstage'[r]
  PROVE  AInv'
<1>1. run' = run /\ run[r].task = Account /\ r # 1 BY ZenonT(60) DEF Again, Solo
<1>2. todo' = todo => \A p \in todo' : p \in todo OBVIOUS
<1>3. run[r].task \notin Provider BY <1>1, Constants, ZenonT(60)
<1>4. Numbered' /\ Registered' /\ Unstarted' /\ ToStart' /\ Subtasked'
  BY <1>2, <1>3, SoloNumbered, SoloRegistered, SoloUnstarted, SoloToStart, SoloSubtasked,
       ZenonT(60)
<1>5. \A q : Again(q)' <=> Again(q) BY <1>1, ZenonT(60) DEF Again
<1>6. ~Alone BY <1>1, Constants, ZenonT(60) DEF Alone
<1>7. \A p \in Provider : stage'[p] = stage[p] /\ exists'[p] = exists[p]
  BY <1>3, ZenonT(60) DEF Solo
<1>8. AllWake'
  <2> SUFFICES ASSUME NEW q \in Run, Again(q), q # r PROVE Wakes(q)'
    BY <1>5, ZenonT(60) DEF AllWake
  <2>1. Wakes(q) BY ZenonT(60) DEF AInv, AllWake
  <2>2. (\E c \in Provider : stage[c] = "complete") => \E c \in Provider : stage'[c] = "complete"
    BY <1>7, ZenonT(60)
  <2>3. QED BY <1>1, <2>1, <2>2, ZenonT(60) DEF Wakes, Solo
<1>9. 1 \in Run /\ rpc'[1] = rpc[1] BY <1>1, ZenonT(60) DEF AInv, Numbered, Solo
<1>10. stage[Account] \in Begun
  BY <1>6, ZenonT(60) DEF AInv, First, Beginning, Starting, Empty, Started, Begun
<1>11. stage'[Account] \in Begun BY <1>10, ZenonT(60) DEF Begun
<1>12. First'
  <2>1. CASE Starting
    <3>1. \A q \in Run : Again(q)' => rpc'[q] \in {"queued", "fetched", "lock"}
      BY <1>5, <2>1, ZenonT(60) DEF Starting, Solo
    <3>2. \A p \in Provider : exists'[p] => p \in todo' \/ subStage'[p] # "none"
      BY <1>7, <2>1, ZenonT(60) DEF Starting, Solo
    <3>3. QED BY <1>9, <2>1, <3>1, <3>2, ZenonT(60) DEF Starting, First
  <2>2. CASE Started BY <1>9, <1>11, <2>2, ZenonT(60) DEF Started, First
  <2>3. QED BY <1>6, <2>1, <2>2, ZenonT(60) DEF AInv, First, Beginning, Empty
<1>13. Checking'
  <2>1. rpc'[r] # "check" BY ZenonT(60) DEF Wakes
  <2>2. QED BY <2>1, ZenonT(60) DEF AInv, Checking, Solo
<1>14. OnTheWay'
  <2> SUFFICES ASSUME stage'[Account] = OnAllComplete, rpc'[1] \in Over
               PROVE  \E q \in Run : rpc'[q] \notin Over \cup {"unused"}
    BY ZenonT(60) DEF OnTheWay
  <2>1. stage[Account] = OnAllComplete OBVIOUS
  <2>2. PICK q \in Run : rpc[q] \notin Over \cup {"unused"}
    BY <1>9, <2>1, ZenonT(60) DEF AInv, OnTheWay
  <2>3. rpc'[r] \notin Over \cup {"unused"} BY ZenonT(60) DEF Wakes, Solo
  <2>4. QED BY <2>2, <2>3, ZenonT(60) DEF Solo
<1>15. \A c \in Provider : Ended(c)' <=> Ended(c) BY <1>7, ZenonT(60) DEF Ended
<1>16. Aborted => Aborted'
  BY <1>5, ZenonT(60) DEF Aborted, Solo
<1>17. InTime'
  <2> SUFFICES ASSUME ~early
      PROVE  /\ todo' # {} => \A q \in Run : ~Again(q)'
             /\ rpc'[1] \in Over => Aborted' \/ \A p \in Provider : exists'[p] => subStage'[p] # "none"
             /\ (\E q \in Run : Again(q)') => Aborted' \/ \A p \in Provider : Ended(p)'
             /\ Deleted' => \A p \in Provider : Ended(p)'
    BY ZenonT(60) DEF InTime
  <2>1. Aborted \/ \A p \in Provider : Ended(p) BY ZenonT(60) DEF AInv, InTime
  <2>2. ASSUME Deleted' PROVE \A p \in Provider : Ended(p)'
    BY <1>15, <2>1, <2>2, ZenonT(60) DEF Deleted
  <2>3. rpc'[1] \in Over => Aborted' \/ \A p \in Provider : exists'[p] => subStage'[p] # "none"
    BY <1>7, <1>9, <1>16, ZenonT(60) DEF AInv, InTime, Solo
  <2>4. todo' # {} => \A q \in Run : ~Again(q)' BY <1>5, ZenonT(60) DEF AInv, InTime
  <2>5. QED BY <1>15, <1>16, <2>1, <2>2, <2>3, <2>4, ZenonT(60)
<1>18. WokenOnce'
  <2> SUFFICES ASSUME ~early, ~rewoken
      PROVE  /\ \A q, s \in Run : Again(q)' /\ Again(s)' => q = s
             /\ \E q \in Run : Again(q)'
             /\ \A q \in Run : Again(q)' /\ rpc'[q] \notin Over =>
                  /\ stage'[Account] # "complete"
                  /\ stage'[Account] = rstage'[q]
    BY ZenonT(60) DEF WokenOnce
  <2>1. \A q, s \in Run : Again(q) /\ Again(s) => q = s BY ZenonT(60) DEF AInv, WokenOnce
  <2>2. QED BY <1>5, <2>1, ZenonT(60)
<1>19. KeptIfAllFail'
  <2>1. ~run[r].failed => \E p \in Provider : stage[p] = "complete"
    BY ZenonT(60) DEF AInv, AllWake, Wakes
  <2>2. QED BY <1>7, <2>1, ZenonT(60) DEF AInv, KeptIfAllFail, Deleted
<1>20. QED BY <1>4, <1>8, <1>12, <1>13, <1>14, <1>17, <1>18, <1>19, ZenonT(60) DEF AInv

\* A run that was woken loads the task of the account,
LEMMA AgainFetchTask ==
  ASSUME AInv, TypeOK', NEW r \in Run, Again(r), FetchTask(r), UNCHANGED <<todo, early, rewoken>>
  PROVE  AInv'
<1>1. rpc[r] = "queued" /\ rpc'[r] = "fetched" /\ rstage'[r] = stage[Account] /\ Solo(r)
  BY DEF AInv, TypeOK, TaskTypeOK, FetchTask, Solo, Again, tables, schedule
<1>2. Wakes(r) BY ZenonT(60) DEF AInv, AllWake
<1>3. stage[Account] \in Begun
  <2>1. ~Alone BY Constants, ZenonT(60) DEF Alone, Again
  <2>2. QED BY <2>1, ZenonT(60) DEF AInv, First, Beginning, Starting, Empty, Started, Begun
<1>4. Wakes(r)' BY <1>1, <1>2, <1>3 DEF Wakes, FetchTask, tables, schedule, Over
<1>5. Locked' BY <1>1, SoloLocked, ZenonT(60) DEF FetchTask, locks
<1>6. stage' = stage /\ exists' = exists BY ZenonT(60) DEF FetchTask, tables
<1>7. ~early /\ ~rewoken => stage[Account] # "complete"
  BY <1>1, ZenonT(60) DEF AInv, WokenOnce, Over
<1>8. QED BY <1>1, <1>4, <1>5, <1>6, <1>7, AgainStep, ZenonT(60) DEF Starting, Aborted

\* the account,
LEMMA AgainFetchObject ==
  ASSUME AInv, TypeOK', NEW r \in Run, Again(r), FetchObject(r), UNCHANGED <<todo, early, rewoken>>
  PROVE  AInv'
<1>1. rpc[r] = "fetched" /\ rpc'[r] = "lock" /\ rstage' = rstage /\ Solo(r)
  BY DEF AInv, TypeOK, TaskTypeOK, FetchObject, Solo, Again, tables, schedule, copies
<1>2. Wakes(r) BY ZenonT(60) DEF AInv, AllWake
<1>3. rstage[r] = OnAllComplete
  BY <1>1, <1>2, Methods DEF FetchObject, HasMethod, Again, Wakes, Begun
<1>4. Wakes(r)' BY <1>1, <1>2, <1>3 DEF Wakes, FetchObject, tables, schedule, Over
<1>5. Locked' BY <1>1, SoloLocked, ZenonT(60) DEF FetchObject, locks
<1>6. stage' = stage /\ exists' = exists BY ZenonT(60) DEF FetchObject, tables
<1>7. ~early /\ ~rewoken => stage[Account] # "complete" /\ stage[Account] = rstage[r]
  BY <1>1, ZenonT(60) DEF AInv, WokenOnce, Over
<1>8. QED BY <1>1, <1>4, <1>5, <1>6, <1>7, AgainStep, ZenonT(60) DEF Starting, Aborted

\* A run that holds the account, or waits for it, finds it not aborted.
LEMMA AgainNotAborted ==
  ASSUME AInv, NEW r \in Run, Again(r), rpc[r] \in {"lock", "body", "more"}
  PROVE  rstage[r] = OnAllComplete /\ ~Aborted
<1>1. rstage[r] = OnAllComplete BY ZenonT(60) DEF AInv, AllWake, Wakes
<1>2. QED BY <1>1, ZenonT(60) DEF Aborted

\* takes its lock,
LEMMA AgainLockObject ==
  ASSUME AInv, TypeOK', NEW r \in Run, Again(r), LockObject(r), UNCHANGED <<todo, early, rewoken>>
  PROVE  AInv'
<1>1. rpc[r] = "lock" /\ rpc'[r] = "body" /\ rstage' = rstage /\ Solo(r)
  BY DEF AInv, TypeOK, TaskTypeOK, LockObject, Solo, tables, schedule, copies
<1>2. Wakes(r) BY ZenonT(60) DEF AInv, AllWake
<1>3. rstage[r] = OnAllComplete /\ ~Aborted BY <1>1, AgainNotAborted
<1>4. Wakes(r)' BY <1>1, <1>2, <1>3 DEF Wakes, LockObject, tables, schedule, Over
<1>5. lockedBy'[run[r].task] = r /\ \A t \in Task : lockedBy[t] \notin {0, r} => lockedBy'[t] = lockedBy[t]
  BY Constants DEF AInv, TypeOK, TaskTypeOK, LockObject, Again
<1>6. Locked' BY <1>1, <1>5, SoloLocked, ZenonT(60)
<1>7. stage' = stage /\ exists' = exists BY ZenonT(60) DEF LockObject, tables
<1>8. ~Starting
  <2>1. SUFFICES ASSUME rpc[1] = "more" PROVE FALSE BY ZenonT(60) DEF Starting
  <2>2. lockedBy[Account] = 1 BY <2>1, ZenonT(60) DEF AInv, Locked, Numbered
  <2>3. lockedBy[Account] = 0 BY ZenonT(60) DEF LockObject, Again
  <2>4. QED BY <2>2, <2>3
<1>9. ~early /\ ~rewoken => stage[Account] # "complete" /\ stage[Account] = rstage[r]
  BY <1>1, ZenonT(60) DEF AInv, WokenOnce, Over
<1>10. QED BY <1>1, <1>3, <1>4, <1>6, <1>7, <1>8, <1>9, AgainStep, ZenonT(60)

\* gives it back at the end,
LEMMA AgainEndRun ==
  ASSUME AInv, TypeOK', NEW r \in Run, Again(r), EndRun(r), UNCHANGED <<todo, early, rewoken>>
  PROVE  AInv'
<1>1. rpc[r] = "end" /\ rpc'[r] = "done" /\ rstage' = rstage /\ Solo(r)
  BY DEF AInv, TypeOK, TaskTypeOK, EndRun, Solo, tables, schedule, copies
<1>2. Wakes(r) BY ZenonT(60) DEF AInv, AllWake
<1>3. Wakes(r)' BY <1>1, <1>2 DEF Wakes, EndRun, tables, schedule, Over
<1>4. \A t \in Task : lockedBy[t] \notin {0, r} => lockedBy'[t] = lockedBy[t]
  BY DEF AInv, TypeOK, TaskTypeOK, EndRun
<1>5. Locked' BY <1>1, <1>4, SoloLocked, ZenonT(60)
<1>6. stage' = stage /\ exists' = exists BY ZenonT(60) DEF EndRun, tables
<1>7. Aborted => rstage[r] = "failed" BY <1>1, ZenonT(60) DEF Aborted
<1>8. ~Starting BY <1>1, ZenonT(60) DEF Starting
<1>9. QED BY <1>1, <1>3, <1>5, <1>6, <1>7, <1>8, AgainStep, ZenonT(60) DEF Over, Aborted

\* and deletes the account.
LEMMA AgainDelete ==
  ASSUME AInv, TypeOK', NEW r \in Run, Again(r), OnAllCloudProviderDeleteComplete(r)
  PROVE  AInv'
<1>1. rpc[r] = "body" /\ rpc'[r] = "more" /\ rstage' = rstage /\ ~run[r].failed
  BY DEF AInv, TypeOK, TaskTypeOK, OnAllCloudProviderDeleteComplete, InMethod, DeleteAccount, copies
<1>2. ~exists'[Account] /\ (\A p \in Provider : exists'[p] = exists[p]) /\ stage' = stage
  <2>1. exists \in [Task -> BOOLEAN] /\ exists' = [exists EXCEPT ![Account] = FALSE] /\ stage' = stage
    BY ZenonT(60)
       DEF AInv, TypeOK, TaskTypeOK, OnAllCloudProviderDeleteComplete, DeleteAccount, tables
  <2>2. QED BY <2>1, Constants, ZenonT(60)
<1>3. Solo(r)
  <2>1. \A q \in Run : q # r => rpc'[q] = rpc[q]
    BY DEF AInv, TypeOK, TaskTypeOK, OnAllCloudProviderDeleteComplete, DeleteAccount
  <2>2. QED
    BY <1>1, <1>2, <2>1, ZenonT(60) DEF OnAllCloudProviderDeleteComplete, DeleteAccount, Solo,
    tables, schedule, copies
<1>4. Wakes(r) BY ZenonT(60) DEF AInv, AllWake
<1>5. rstage[r] = OnAllComplete /\ ~Aborted BY <1>1, AgainNotAborted
<1>6. Wakes(r)' BY <1>1, <1>2, <1>3, <1>4, <1>5 DEF Wakes, Solo, Over
<1>7. UNCHANGED <<lockedBy, todo, early, rewoken>>
  BY ZenonT(60) DEF OnAllCloudProviderDeleteComplete, DeleteAccount, locks
<1>8. lockedBy[run[r].task] = r BY <1>1, ZenonT(60) DEF AInv, Locked
<1>9. Locked' BY <1>3, <1>7, <1>8, SoloLocked, ZenonT(60)
<1>10. ~Starting BY <1>1, ZenonT(60) DEF Starting
<1>11. ~early /\ ~rewoken => stage[Account] # "complete" /\ stage[Account] = rstage[r]
  BY <1>1, ZenonT(60) DEF AInv, WokenOnce, Over
<1>12. QED BY <1>1, <1>2, <1>3, <1>5, <1>6, <1>7, <1>9, <1>10, <1>11, AgainStep, ZenonT(60)

\* A run that ends the account's task: in its method, without one, or without
\* the account.
LEMMA AgainEnds ==
  ASSUME AInv, TypeOK', NEW r \in Run, Again(r),
         \/ CannotExec(r) /\ UNCHANGED <<todo, early, rewoken>>
         \/ AccountComplete(r) \/ OnAllCloudProviderDeleteCompleteFailed(r)
  PROVE  AInv'
<1>1. run[r].task = Account /\ run[r].task \in Task /\ AfterEnd(r) = "end" /\ TypeOK
  BY Constants, ZenonT(60) DEF Again, AfterEnd, AInv
<1>2. Wakes(r) BY ZenonT(60) DEF AInv, AllWake
<1>3. /\ rpc[r] \in {"fetched", "body", "more"}
      /\ UNCHANGED <<subStage, subStatus, exists, lockedBy, nrun, run, rseen, todo, early, rewoken>>
  BY ZenonT(60) DEF CannotExec, AccountComplete, OnAllCloudProviderDeleteCompleteFailed,
       InMethod, locks, schedule
<1>4. /\ Solo(r) /\ rpc'[r] = "end" /\ stage'[Account] \in Closed /\ rstage'[r] \in Closed
      /\ \A p \in Provider : stage'[p] = stage[p]
      /\ rstage[r] = "failed" => stage'[Account] = stage[Account] /\ rstage'[r] = "failed"
  <2>1. CASE SetStageComplete(r) /\ rpc[r] = "more"
    <3>1. Completes(r) BY <1>1, <2>1, CompleteEffect
    <3>2. Solo(r) BY <1>1, <1>3, <3>1, Constants, ZenonT(60) DEF Solo, Completes
    <3>3. rstage[r] # "failed" BY <2>1, AgainNotAborted
    <3>4. QED BY <1>1, <3>1, <3>2, <3>3, Constants, ZenonT(60) DEF Completes
  <2>2. CASE SetStageFailed(r)
    <3>1. Fails(r) BY <1>1, <2>2, FailedEffect
    <3>2. Solo(r) BY <1>1, <1>3, <3>1, Constants, ZenonT(60) DEF Solo, Fails
    <3>3. rstage[r] = "failed" => stage[Account] \in Closed BY <1>2, <1>3, ZenonT(60) DEF Wakes
    <3>4. QED BY <1>1, <3>1, <3>2, <3>3, Constants, ZenonT(60) DEF Fails
  <2>3. QED
    BY <2>1, <2>2, ZenonT(60)
       DEF CannotExec, AccountComplete, OnAllCloudProviderDeleteCompleteFailed
<1>5. Wakes(r)'
  BY <1>2, <1>3, <1>4 DEF Wakes, Over, Begun
<1>6. Locked' BY <1>3, <1>4, SoloLocked, ZenonT(60)
<1>7. Aborted => rstage[r] = "failed" BY <1>3, ZenonT(60) DEF Aborted
<1>8. ~Starting
  <2>1. SUFFICES ASSUME Starting PROVE FALSE OBVIOUS
  <2>2. rpc[r] = "fetched" /\ stage[Account] = OnAllComplete /\ exists[Account]
    BY <1>3, <2>1, ZenonT(60) DEF Starting
  <2>3. rstage[r] = OnAllComplete BY <1>2, <2>2, ZenonT(60) DEF Wakes, Begun
  <2>4. run[r].failed \in BOOLEAN BY <1>1 DEF TypeOK, TaskTypeOK
  <2>5. HasMethod(r) BY <1>1, <2>3, <2>4, Methods, ZenonT(60) DEF HasMethod
  <2>6. QED
    BY <1>1, <2>2, <2>5, ZenonT(60)
       DEF CannotExec, AccountComplete, OnAllCloudProviderDeleteCompleteFailed, InMethod
<1>9. QED BY <1>3, <1>4, <1>5, <1>6, <1>7, <1>8, AgainStep, ZenonT(60) DEF Over, Aborted
=============================================================================
