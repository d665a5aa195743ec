------------------------ MODULE AccountDeleteProofs -------------------------
(***************************************************************************)
(* The deletion of an account, for any number of providers and runs: the   *)
(* steps of the first run and the wake-up of the parent, the invariant put *)
(* together, and what it implies: when the account is deleted or kept,     *)
(* that its task ends, and that ended tasks stay ended.                    *)
(***************************************************************************)
EXTENDS AccountDeleteSteps

\* Provers: the default time limits, then longer ones.
USE SMT, Zenon, SMTT(60), ZenonT(60)

USE DEF OnInit, OnAllComplete, Closed

-----------------------------------------------------------------------------
(***************************************************************************)
(* The steps of the first run.                                             *)
(***************************************************************************)

\* Before any other run.
LEMMA BeginningStep ==
  ASSUME AInv, TypeOK', Solo(1), Alone, First', ToStart', Locked',
         early' = early, rewoken' = rewoken,
         rpc'[1] # "check",
         rpc'[1] \in Over => stage'[Account] # OnAllComplete,
         ~exists'[Account] \/ rpc'[1] \in Over => \A p \in Provider : ~exists[p]
  PROVE  AInv'
<1>1. 1 \in Run /\ run[1].task = Account /\ run' = run BY ZenonT(60) DEF AInv, Numbered, Solo
<1>2. run[1].task \notin Provider BY <1>1, Constants, ZenonT(60)
<1>3. Numbered' /\ Registered' /\ Unstarted' /\ Subtasked'
  BY <1>1, <1>2, SoloNumbered, SoloRegistered, SoloUnstarted, SoloSubtasked, ZenonT(60)
<1>4. \A q \in Run : q # 1 => run'[q].task = NoTask /\ rpc'[q] = "unused"
  BY <1>1, ZenonT(60) DEF AInv, Numbered, Alone, Solo
<1>5. \A q \in Run : ~Again(q)' BY <1>1, <1>4, Constants, ZenonT(60) DEF Again
<1>6. \A p \in Provider : exists'[p] = exists[p] BY <1>2, ZenonT(60) DEF Solo
<1>7. AllWake' BY <1>5, ZenonT(60) DEF AllWake
<1>8. Checking' BY <1>4, ZenonT(60) DEF Checking
<1>9. OnTheWay' BY ZenonT(60) DEF OnTheWay
<1>10. InTime'
  <2>1. Deleted' => \A p \in Provider : Ended(p)' BY <1>6, ZenonT(60) DEF Deleted, Ended
  <2>2. QED BY <1>5, <1>6, <2>1, ZenonT(60) DEF InTime
<1>11. WokenOnce' BY <1>4, <1>5, ZenonT(60) DEF WokenOnce, Alone
<1>12. KeptIfAllFail' BY <1>6, ZenonT(60) DEF KeptIfAllFail, Deleted
<1>13. QED BY <1>3, <1>7, <1>8, <1>9, <1>10, <1>11, <1>12, ZenonT(60) DEF AInv

\* Up to OnInit nothing has happened yet.
LEMMA FirstBegins ==
  ASSUME AInv, rpc[1] \in {"queued", "fetched", "lock", "body"} PROVE Beginning
BY DEF AInv, First, Starting, Empty, Started, Over

\* The first run loads its task and its object and takes the lock.
LEMMA FirstFetches ==
  ASSUME AInv, TypeOK', FetchTask(1) \/ FetchObject(1) \/ LockObject(1), UNCHANGED <<todo, early, rewoken>>
  PROVE  AInv'
<1>1. 1 \in Run /\ run[1].task = Account BY ZenonT(60) DEF AInv, Numbered
<1>2. rpc[1] \in {"queued", "fetched", "lock"}
  BY ZenonT(60) DEF FetchTask, FetchObject, LockObject
<1>3. Beginning BY <1>2, FirstBegins
<1>4. UNCHANGED <<tables, exists, schedule>>
  BY ZenonT(60) DEF FetchTask, FetchObject, LockObject
<1>5. /\ Solo(1) /\ rpc'[1] \in {"fetched", "lock", "body"}
      /\ rstage'[1] = OnInit
  <2>1. CASE FetchTask(1)
    BY <1>1, <1>3, <2>1 DEF AInv, TypeOK, TaskTypeOK, FetchTask, Solo, Beginning, tables, schedule
  <2>2. CASE FetchObject(1)
    BY <1>1, <1>3, <2>2 DEF AInv, TypeOK, TaskTypeOK, FetchObject, Solo, Beginning, tables, schedule, copies
  <2>3. CASE LockObject(1)
    BY <1>1, <1>3, <2>3 DEF AInv, TypeOK, TaskTypeOK, LockObject, Solo, Beginning, tables, schedule, copies
  <2>4. QED BY <2>1, <2>2, <2>3
<1>6. First'
  BY <1>3, <1>4, <1>5, ZenonT(60) DEF First, Beginning, Alone, tables, schedule
<1>7. ToStart' BY <1>1, <1>5, SoloToStart, ZenonT(60)
<1>8. Locked'
  <2>1. /\ rpc'[1] \in {"body", "more"} => lockedBy'[run[1].task] = 1
        /\ \A t \in Task : lockedBy[t] \notin {0, 1} => lockedBy'[t] = lockedBy[t]
    BY <1>1, Constants DEF AInv, TypeOK, TaskTypeOK, FetchTask, FetchObject, LockObject, locks
  <2>2. QED BY <1>1, <1>5, <2>1, SoloLocked, ZenonT(60)
<1>9. QED BY <1>3, <1>4, <1>5, <1>6, <1>7, <1>8, BeginningStep, ZenonT(60) DEF Beginning, Over

\* The first run always finds its object and its method, OnInit.
LEMMA FirstHasMethod == ASSUME AInv, CannotExec(1) PROVE FALSE
<1>1. Beginning BY FirstBegins, ZenonT(60) DEF CannotExec
<1>2. rstage[1] = OnInit /\ exists[Account] /\ run[1].task = Account /\ run[1].failed = FALSE /\ Account \in Task
  BY <1>1, Constants DEF CannotExec, Beginning, AInv, Numbered, TypeOK, TaskTypeOK
<1>3. HasMethod(1) BY <1>2, Methods, ZenonT(60) DEF HasMethod
<1>4. QED BY <1>2, <1>3, ZenonT(60) DEF CannotExec

\* OnInit deletes an account without providers, or lists the providers.
LEMMA FirstInit ==
  ASSUME AInv, TypeOK', OnInitNoProviders(1) \/ OnInitStart(1) PROVE AInv'
<1>1. 1 \in Run /\ run[1].task = Account /\ rpc[1] = "body"
  BY ZenonT(60) DEF AInv, Numbered, OnInitNoProviders, OnInitStart, InMethod
<1>2. Beginning BY <1>1, FirstBegins
<1>3. UNCHANGED <<subStage, subStatus, lockedBy, nrun, run, rfailed, rseen, early, rewoken>>
  BY ZenonT(60)
     DEF OnInitNoProviders, OnInitStart, DeleteAccount, tables, locks, schedule, copies
<1>4. lockedBy[run[1].task] = 1 BY <1>1, ZenonT(60) DEF AInv, Locked
<1>5. CASE OnInitNoProviders(1)
  <2>1. \A p \in Provider : ~exists[p] BY <1>5, ZenonT(60) DEF OnInitNoProviders, LiveProviders
  <2>2. rpc'[1] = "more" /\ \A q \in Run : q # 1 => rpc'[q] = rpc[q]
    BY <1>1, <1>5 DEF AInv, TypeOK, TaskTypeOK, OnInitNoProviders, DeleteAccount
  <2>3. /\ exists \in [Task -> BOOLEAN] /\ exists' = [exists EXCEPT ![Account] = FALSE]
        /\ UNCHANGED <<stage, rstage, todo>>
    BY <1>5, ZenonT(60)
       DEF AInv, TypeOK, TaskTypeOK, OnInitNoProviders, DeleteAccount, tables, copies
  <2>4. \A p \in Provider : exists'[p] = exists[p] BY <2>3, Constants, ZenonT(60)
  <2>5. Solo(1) BY <1>1, <1>3, <2>2, <2>3, <2>4, ZenonT(60) DEF Solo
  <2>6. First'
    BY <1>2, <1>3, <2>1, <2>2, <2>3, <2>4, ZenonT(60) DEF First, Empty, Beginning, Alone
  <2>7. ToStart' BY <1>1, <2>3, <2>5, SoloToStart, ZenonT(60)
  <2>8. Locked' BY <1>1, <1>3, <1>4, <2>5, SoloLocked, ZenonT(60)
  <2>9. QED
    BY <1>2, <1>3, <2>1, <2>2, <2>5, <2>6, <2>7, <2>8, BeginningStep, ZenonT(60)
       DEF Beginning, Over
<1>6. CASE OnInitStart(1)
  <2>1. /\ rpc'[1] = "more" /\ \A q \in Run : q # 1 => rpc'[q] = rpc[q] /\ rstage'[q] = rstage[q]
    BY <1>1, <1>6 DEF AInv, TypeOK, TaskTypeOK, OnInitStart, SetStage
  <2>2. stage'[Account] = OnAllComplete /\ \A p \in Provider : stage'[p] = stage[p]
    BY <1>1, <1>6, Constants DEF AInv, TypeOK, TaskTypeOK, OnInitStart, SetStage
  <2>3. exists' = exists /\ todo' # {} /\ \A p : p \in todo' <=> p \in Provider /\ exists[p]
    BY <1>6, ZenonT(60) DEF OnInitStart, LiveProviders
  <2>4. Solo(1) BY <1>1, <1>3, <2>1, <2>2, <2>3, ZenonT(60) DEF Solo
  <2>5. \A q \in Run : ~Again(q)'
    BY <1>2, <1>3, Constants, ZenonT(60) DEF Again, Beginning, Alone
  <2>6. First'
    BY <1>2, <2>1, <2>2, <2>3, <2>5, ZenonT(60) DEF First, Starting, Beginning
  <2>7. ToStart' BY <1>2, <1>3, <2>3, ZenonT(60) DEF ToStart, Beginning
  <2>8. Locked' BY <1>1, <1>3, <1>4, <2>4, SoloLocked, ZenonT(60)
  <2>9. QED
    BY <1>2, <1>3, <2>1, <2>3, <2>4, <2>6, <2>7, <2>8, BeginningStep, ZenonT(60)
       DEF Beginning, Over
<1>7. QED BY <1>5, <1>6

\* The account had no providers, and its task is complete.
LEMMA FirstComplete ==
  ASSUME AInv, TypeOK', AccountComplete(1) PROVE AInv'
<1>1. 1 \in Run /\ run[1].task = Account /\ rpc[1] = "more" /\ todo = {}
  BY ZenonT(60) DEF AInv, Numbered, AccountComplete
<1>2. Empty BY <1>1 DEF AInv, First, Beginning, Starting, Started, Over
<1>3. UNCHANGED <<subStage, subStatus, exists, lockedBy, nrun, run, rseen, todo, early, rewoken>>
  BY ZenonT(60) DEF AccountComplete, locks, schedule
<1>4. Completes(1) BY <1>1, Constants, CompleteEffect DEF AccountComplete, AInv
<1>5. rpc'[1] = "end" /\ stage'[Account] = "complete"
  BY <1>1, <1>4, Constants, ZenonT(60) DEF Completes, AfterEnd
<1>6. Solo(1) BY <1>1, <1>3, <1>4, <1>5, Constants, ZenonT(60) DEF Solo, Completes
<1>7. First' BY <1>1, <1>3, <1>5, ZenonT(60) DEF First, Started, Over, Begun
<1>8. ToStart' BY <1>1, <1>3, <1>6, SoloToStart, ZenonT(60)
<1>9. Locked' BY <1>1, <1>3, <1>5, <1>6, SoloLocked, ZenonT(60)
<1>10. QED BY <1>2, <1>3, <1>5, <1>6, <1>7, <1>8, <1>9, BeginningStep, ZenonT(60) DEF Empty

\* The first run gives the lock back.
LEMMA FirstEndRun ==
  ASSUME AInv, TypeOK', EndRun(1), UNCHANGED <<todo, early, rewoken>> PROVE AInv'
<1>1. 1 \in Run /\ run[1].task = Account /\ rpc[1] = "end"
  BY ZenonT(60) DEF AInv, Numbered, EndRun
<1>2. Started BY <1>1 DEF AInv, First, Beginning, Starting, Empty
<1>3. UNCHANGED <<stage, subStage, subStatus, exists, nrun, run, rstage, rfailed, rseen>>
  BY ZenonT(60) DEF EndRun, tables, schedule, copies
<1>4. rpc'[1] = "done" /\ \A q \in Run : q # 1 => rpc'[q] = rpc[q]
  BY <1>1 DEF AInv, TypeOK, TaskTypeOK, EndRun
<1>5. Solo(1) BY <1>1, <1>3, <1>4, ZenonT(60) DEF Solo
<1>6. \A t \in Task : lockedBy[t] \notin {0, 1} => lockedBy'[t] = lockedBy[t]
  BY DEF AInv, TypeOK, TaskTypeOK, EndRun
<1>7. Locked' BY <1>1, <1>4, <1>5, <1>6, SoloLocked, ZenonT(60)
<1>8. run[1].task \notin Provider BY <1>1, Constants, ZenonT(60)
<1>9. Numbered' /\ Registered' /\ Unstarted' /\ ToStart' /\ Subtasked'
  BY <1>1, <1>5, <1>8, SoloNumbered, SoloRegistered, SoloUnstarted, SoloToStart, SoloSubtasked,
       ZenonT(60)
<1>10. \A q : Again(q)' <=> Again(q) BY <1>3, ZenonT(60) DEF Again
<1>11. \A q \in Run : Again(q) => rpc'[q] = rpc[q] /\ rstage'[q] = rstage[q]
  BY <1>3, <1>4, ZenonT(60) DEF Again
<1>12. AllWake' BY <1>3, <1>10, <1>11, ZenonT(60) DEF AInv, AllWake, Wakes
<1>13. First' BY <1>2, <1>3, <1>4, ZenonT(60) DEF First, Started, Over
<1>14. Checking' BY <1>3, <1>4, ZenonT(60) DEF AInv, Checking
<1>15. OnTheWay' BY <1>1, <1>3, <1>4, ZenonT(60) DEF AInv, OnTheWay, Over
<1>16. Aborted => Aborted' BY <1>3, <1>10, <1>11, ZenonT(60) DEF Aborted
<1>17. InTime' BY <1>1, <1>3, <1>10, <1>16, ZenonT(60) DEF AInv, InTime, Over, Deleted, Ended
<1>18. WokenOnce'
  BY <1>3, <1>10, <1>11, ZenonT(60) DEF AInv, WokenOnce, Alone
<1>19. KeptIfAllFail' BY <1>3, ZenonT(60) DEF AInv, KeptIfAllFail, Deleted
<1>20. QED BY <1>7, <1>9, <1>12, <1>13, <1>14, <1>15, <1>17, <1>18, <1>19, ZenonT(60) DEF AInv

\* Only the first run starts subtasks.
LEMMA OnlyFirstStarts ==
  ASSUME AInv, NEW r \in Run, rpc[r] = "more", run[r].task = Account, todo # {}
  PROVE  r = 1 /\ Starting
<1>1. Starting BY ZenonT(60) DEF AInv, First, Beginning, Empty, Started
<1>2. r = 1 BY <1>1, ZenonT(60) DEF Starting, Again
<1>3. QED BY <1>1, <1>2

\* OnInit cannot start a subtask and fails the task of the account.
LEMMA FirstFails ==
  ASSUME AInv, TypeOK', NEW p \in Provider, StartProviderFails(1, p) PROVE AInv'
<1>1. 1 \in Run /\ run[1].task = Account /\ rpc[1] = "more" /\ p \in todo
  BY ZenonT(60) DEF AInv, Numbered, StartProviderFails
<1>2. Starting BY <1>1, OnlyFirstStarts, ZenonT(60)
<1>3. UNCHANGED <<subStage, subStatus, exists, lockedBy, nrun, run, rfailed, rseen, early, rewoken>> /\ todo' = {}
  BY ZenonT(60) DEF StartProviderFails, locks, schedule
<1>4. rpc'[1] = "end" /\ \A q \in Run : q # 1 => rpc'[q] = rpc[q] /\ rstage'[q] = rstage[q]
  BY <1>1 DEF AInv, TypeOK, TaskTypeOK, StartProviderFails
<1>5. subStage[p] = "none" /\ subStatus[p] = "init" /\ stage[p] \in {"none", OnInit} /\ \A r \in Run : run[r].task # p
  BY <1>1, ZenonT(60) DEF AInv, ToStart, Unstarted
<1>6. /\ stage'[Account] = "failed" /\ stage'[p] \in {"none", OnInit}
      /\ \A c \in Provider : c # p => stage'[c] = stage[c]
  <2>1. PICK inserted \in BOOLEAN :
          stage' = [stage EXCEPT ![p] = IF inserted THEN OnInit ELSE @, ![Account] = "failed"]
    BY ZenonT(60) DEF StartProviderFails
  <2>2. stage \in [Task -> Stages] BY ZenonT(60) DEF AInv, TypeOK, TaskTypeOK
  <2>3. QED BY <1>5, <2>1, <2>2, Constants
<1>7. \A q : Again(q)' <=> Again(q) BY <1>3, ZenonT(60) DEF Again
<1>8. \A q \in Run : Again(q) => rpc'[q] = rpc[q] /\ rstage'[q] = rstage[q]
  BY <1>4, ZenonT(60) DEF Again
<1>9. Numbered' BY <1>1, <1>3, <1>4, ZenonT(60) DEF AInv, Numbered
<1>10. Subtasked'
  <2> SUFFICES ASSUME NEW q \in Run, run[q].task \in Provider PROVE Subtask(q)'
    BY <1>3, ZenonT(60) DEF Subtasked
  <2>1. Subtask(q) /\ q # 1 /\ run[q].task # p
    BY <1>1, <1>5, Constants, ZenonT(60) DEF AInv, Subtasked
  <2>2. QED BY <1>3, <1>4, <1>6, <2>1, ZenonT(60) DEF Subtask
<1>11. Unstarted' BY <1>3, <1>6, ZenonT(60) DEF AInv, Unstarted
<1>12. Registered' BY <1>3, ZenonT(60) DEF AInv, Registered
<1>13. ToStart' BY <1>3, ZenonT(60) DEF ToStart
<1>14. AllWake'
  <2> SUFFICES ASSUME NEW q \in Run, Again(q) PROVE Wakes(q)' BY <1>7, ZenonT(60) DEF AllWake
  <2>1. Wakes(q) BY ZenonT(60) DEF AInv, AllWake
  <2>2. (\E c \in Provider : stage[c] = "complete") => \E c \in Provider : stage'[c] = "complete"
    BY <1>5, <1>6
  <2>3. QED BY <1>3, <1>6, <1>8, <2>1, <2>2, ZenonT(60) DEF Wakes
<1>15. Locked' BY <1>1, <1>3, <1>4, ZenonT(60) DEF AInv, Locked
<1>16. First' BY <1>3, <1>4, <1>6, ZenonT(60) DEF First, Started, Over, Begun
<1>17. Checking' BY <1>3, <1>4, <1>6, ZenonT(60) DEF AInv, Checking
<1>18. OnTheWay' BY <1>6, ZenonT(60) DEF OnTheWay
<1>19. exists[Account] BY <1>2, ZenonT(60) DEF Starting
<1>20. ~early => \A q \in Run : ~Again(q)' BY <1>1, <1>7, ZenonT(60) DEF AInv, InTime
<1>21. InTime' BY <1>3, <1>6, <1>19, <1>20, ZenonT(60) DEF InTime, Aborted, Deleted
<1>22. WokenOnce' BY <1>3, <1>6, <1>20, ZenonT(60) DEF WokenOnce
<1>23. KeptIfAllFail' BY <1>3, <1>19, ZenonT(60) DEF KeptIfAllFail, Deleted
<1>24. QED
  BY <1>9, <1>10, <1>11, <1>12, <1>13, <1>14, <1>15, <1>16, <1>17, <1>18, <1>21, <1>22, <1>23,
       ZenonT(60) DEF AInv

-----------------------------------------------------------------------------
(***************************************************************************)
(* The steps that schedule a run.                                          *)
(***************************************************************************)
LEMMA ScheduleNumbered ==
  ASSUME AInv, NEW t \in Task, NEW failed \in BOOLEAN, NEW pcs \in [Run -> Place],
         ScheduleRun(t, failed, pcs),
         \A q \in Run : pcs[q] = "unused" <=> rpc[q] = "unused"
  PROVE  /\ Numbered'
         /\ nrun + 1 \in Run /\ nrun + 1 # 1 /\ nrun' # nrun
         /\ rpc[nrun + 1] = "unused" /\ run[nrun + 1].task = NoTask
<1>1. /\ nrun + 1 \in Run /\ nrun' = nrun + 1
      /\ run'[nrun + 1].task = t
      /\ rpc'[nrun + 1] = "queued"
      /\ \A q \in Run : q # nrun + 1 => run'[q] = run[q] /\ rpc'[q] = pcs[q]
  <2>1. TypeOK BY DEF AInv
  <2>2. QED BY <2>1, ScheduleEffect
<1>2. nrun \in Nat /\ Run \subseteq Nat /\ nrun >= 1 /\ 1 \in Run
  BY DEF AInv, TypeOK, TaskTypeOK, Numbered, Run
<1>3. nrun + 1 # 1 /\ nrun + 1 # nrun /\ nrun + 1 >= 1 /\ ~(nrun + 1 <= nrun) BY <1>2
<1>4. \A q \in Run : q <= nrun + 1 <=> q <= nrun \/ q = nrun + 1 BY <1>2
<1>5. rpc[nrun + 1] = "unused" /\ run[nrun + 1].task = NoTask
  BY <1>1, <1>3, ZenonT(60) DEF AInv, Numbered
<1>6. run'[1] = run[1] BY <1>1, <1>2, <1>3, ZenonT(60)
<1>7. \A q \in Run : q <= nrun' <=> rpc'[q] # "unused"
  BY <1>1, <1>4, ZenonT(60) DEF AInv, Numbered
<1>8. \A q \in Run : rpc'[q] # "unused" <=> run'[q].task # NoTask
  <2>1. t # NoTask BY Constants
  <2>2. QED BY <1>1, <2>1, ZenonT(60) DEF AInv, Numbered
<1>9. Numbered' BY <1>1, <1>2, <1>3, <1>6, <1>7, <1>8, ZenonT(60) DEF AInv, Numbered
<1>10. QED BY <1>1, <1>3, <1>5, <1>9, ZenonT(60)

\* OnInit starts the subtask of one provider.
LEMMA FirstStarts ==
  ASSUME AInv, TypeOK', NEW p \in Provider, StartProvider(1, p) PROVE AInv'
<1> DEFINE pcs == IF todo = {p} THEN [rpc EXCEPT ![1] = "end"] ELSE rpc
           k == nrun + 1
<1>1. 1 \in Run /\ run[1].task = Account /\ rpc[1] = "more" /\ p \in todo
  BY ZenonT(60) DEF AInv, Numbered, StartProvider
<1>2. Starting BY <1>1, OnlyFirstStarts, ZenonT(60)
<1>3. UNCHANGED <<exists, lockedBy, rstage, rfailed, rseen, early, rewoken>> /\ todo' = todo \ {p}
  BY ZenonT(60) DEF StartProvider, locks, copies
<1>4. /\ pcs \in [Run -> Place] /\ pcs[1] = (IF todo = {p} THEN "end" ELSE "more")
      /\ \A q \in Run : q # 1 => pcs[q] = rpc[q]
  BY <1>1 DEF AInv, TypeOK, TaskTypeOK, Place
<1>5. ScheduleRun(p, FALSE, pcs) BY ZenonT(60) DEF StartProvider
<1> HIDE DEF pcs
<1>6. p \in Task /\ TypeOK /\ FALSE \in BOOLEAN BY Constants, ZenonT(60) DEF AInv
<1>7. \A q \in Run : pcs[q] = "unused" <=> rpc[q] = "unused" BY <1>1, <1>4
<1>8. Numbered' /\ k \in Run /\ k # 1 /\ rpc[k] = "unused" /\ run[k].task = NoTask
  BY <1>4, <1>5, <1>6, <1>7, ScheduleNumbered, ZenonT(60)
<1>9. /\ run'[k].task = p /\ run'[k].failed = FALSE
      /\ rpc'[k] = "queued"
      /\ \A q \in Run : q # k => run'[q] = run[q] /\ rpc'[q] = pcs[q]
  BY <1>4, <1>5, <1>6, ScheduleEffect, ZenonT(60)
<1> HIDE DEF k
<1>10. subStage[p] = "none" /\ exists[p] /\ stage[p] \in {"none", OnInit} /\ \A r \in Run : run[r].task # p
  BY <1>1, ZenonT(60) DEF AInv, ToStart, Unstarted
<1>11. stage[Account] = OnAllComplete /\ exists[Account] BY <1>2, ZenonT(60) DEF Starting
<1>12. /\ stage'[p] = OnInit /\ stage'[Account] = OnAllComplete
       /\ \A c \in Provider : c # p => stage'[c] = stage[c]
  BY <1>6, <1>11, Constants, StageNames DEF TypeOK, TaskTypeOK, StartProvider, InsertTask
<1>13. /\ subStage'[p] = OnAllComplete /\ subStatus'[p] = "init"
       /\ \A c \in Provider : c # p => subStage'[c] = subStage[c] /\ subStatus'[c] = subStatus[c]
  BY <1>6, <1>11, Constants DEF TypeOK, TaskTypeOK, StartProvider, InsertSubTask
<1>32. Account # NoTask /\ p # Account /\ NoTask \notin Provider BY Constants, ZenonT(60)
<1>14. \A q \in Run : Again(q)' <=> Again(q)
  BY <1>8, <1>9, <1>32, ZenonT(60) DEF Again
<1>15. \A q \in Run : Again(q) => rpc'[q] = rpc[q] /\ run'[q] = run[q]
  BY <1>4, <1>8, <1>9, <1>32, ZenonT(60) DEF Again
<1>16. Subtasked'
  <2> SUFFICES ASSUME NEW q \in Run, run'[q].task \in Provider PROVE Subtask(q)'
    BY ZenonT(60) DEF Subtasked
  <2>1. CASE q = k
    <3>1. \A s \in Run : run'[s].task = p => s = k BY <1>9, <1>10, ZenonT(60)
    <3>2. QED BY <1>3, <1>9, <1>10, <1>12, <1>13, <2>1, <3>1, ZenonT(60) DEF Subtask
  <2>2. CASE q # k
    <3>1. run'[q] = run[q] /\ rpc'[q] = rpc[q] /\ q # 1
      BY <1>1, <1>4, <1>8, <1>9, <2>2, Constants, ZenonT(60)
    <3>2. Subtask(q) /\ run[q].task # p BY <1>10, <3>1, ZenonT(60) DEF AInv, Subtasked
    <3>3. \A s \in Run : run'[s].task = run[q].task => s = q
      BY <1>9, <3>2, ZenonT(60) DEF Subtask
    <3>4. QED BY <1>3, <1>12, <1>13, <3>1, <3>2, <3>3, ZenonT(60) DEF Subtask
  <2>3. QED BY <2>1, <2>2, ZenonT(60)
<1>17. Unstarted'
  <2> SUFFICES ASSUME NEW c \in Provider, subStage'[c] = "none"
               PROVE  /\ subStatus'[c] = "init"
                      /\ stage'[c] \in {"none", OnInit}
                      /\ \A r \in Run : run'[r].task # c
    BY ZenonT(60) DEF Unstarted
  <2>1. c # p BY <1>13
  <2>2. \A r \in Run : run[r].task # c BY <1>13, <2>1, ZenonT(60) DEF AInv, Unstarted
  <2>3. \A r \in Run : run'[r].task # c BY <1>9, <2>1, <2>2, ZenonT(60)
  <2>4. QED BY <1>12, <1>13, <2>1, <2>3, ZenonT(60) DEF AInv, Unstarted
<1>18. Registered'
  <2> SUFFICES ASSUME NEW c \in Provider, subStage'[c] # "none" PROVE \E r \in Run : run'[r].task = c
    BY ZenonT(60) DEF Registered
  <2>1. CASE c = p BY <1>8, <1>9, <2>1, ZenonT(60)
  <2>2. CASE c # p
    <3>1. PICK r \in Run : run[r].task = c BY <1>13, <2>2, ZenonT(60) DEF AInv, Registered
    <3>2. r # k BY <1>8, <1>32, <3>1
    <3>3. QED BY <1>9, <3>1, <3>2, ZenonT(60)
  <2>3. QED BY <2>1, <2>2, ZenonT(60)
<1>19. ToStart' BY <1>3, <1>13, ZenonT(60) DEF AInv, ToStart
<1>20. AllWake'
  <2> SUFFICES ASSUME NEW q \in Run, Again(q) PROVE Wakes(q)' BY <1>14, ZenonT(60) DEF AllWake
  <2>1. Wakes(q) BY ZenonT(60) DEF AInv, AllWake
  <2>2. (\E c \in Provider : stage[c] = "complete") => \E c \in Provider : stage'[c] = "complete"
    BY <1>10, <1>12
  <2>3. QED BY <1>3, <1>11, <1>12, <1>15, <2>1, <2>2, ZenonT(60) DEF Wakes
<1>21. Locked'
  <2> SUFFICES ASSUME NEW q \in Run, rpc'[q] \in {"body", "more"} PROVE lockedBy'[run'[q].task] = q
    BY ZenonT(60) DEF Locked
  <2>1. q # k BY <1>9
  <2>2. rpc[q] \in {"body", "more"} /\ run'[q] = run[q] BY <1>1, <1>4, <1>9, <2>1
  <2>3. QED BY <1>3, <2>2, ZenonT(60) DEF AInv, Locked
<1>22. rpc'[1] = (IF todo = {p} THEN "end" ELSE "more") BY <1>1, <1>4, <1>8, <1>9, ZenonT(60)
<1>23. \A c \in Provider : exists'[c] => c \in todo' \/ subStage'[c] # "none"
  BY <1>2, <1>3, <1>13, ZenonT(60) DEF Starting
<1>24. First'
  <2>1. CASE todo = {p}
    BY <1>3, <1>12, <1>22, <2>1, ZenonT(60) DEF First, Started, Over, Begun
  <2>2. CASE todo # {p}
    <3>1. todo' # {} BY <1>1, <1>3, <2>2, ZenonT(60)
    <3>2. QED
      BY <1>2, <1>3, <1>11, <1>12, <1>14, <1>15, <1>22, <1>23, <2>2, <3>1, ZenonT(60)
         DEF First, Starting
  <2>3. QED BY <2>1, <2>2, ZenonT(60)
<1>25. Checking'
  BY <1>1, <1>3, <1>4, <1>9, <1>11, <1>12, <1>22, ZenonT(60) DEF AInv, Checking
<1>26. OnTheWay' BY <1>8, <1>9, ZenonT(60) DEF OnTheWay, Over
<1>27. ~early => \A q \in Run : ~Again(q)' BY <1>1, <1>14, ZenonT(60) DEF AInv, InTime
<1>28. InTime'
  <2>1. rpc'[1] \in Over => todo' = {} BY <1>3, <1>22 DEF Over
  <2>2. QED BY <1>3, <1>11, <1>23, <1>27, <2>1, ZenonT(60) DEF InTime, Deleted
<1>29. WokenOnce' BY <1>3, <1>12, <1>27, ZenonT(60) DEF WokenOnce
<1>30. KeptIfAllFail' BY <1>3, <1>11, ZenonT(60) DEF KeptIfAllFail, Deleted
<1>31. QED
  BY <1>8, <1>16, <1>17, <1>18, <1>19, <1>20, <1>21, <1>24, <1>25, <1>26, <1>28, <1>29, <1>30,
       ZenonT(60) DEF AInv

\* A second run of the task of the account is one that woke it.
LEMMA AgainIsWoken == ASSUME AInv, NEW q \in Run, Again(q) PROVE Woken # {}
<1>1. run[q].task = Account /\ q # 1 /\ Account # NoTask BY Constants, ZenonT(60) DEF Again
<1>2. q <= nrun BY <1>1, ZenonT(60) DEF AInv, Numbered
<1>3. nrun \in Nat /\ q \in Nat /\ q >= 1 BY DEF AInv, TypeOK, TaskTypeOK, Run
<1>4. q \in 2..nrun BY <1>1, <1>2, <1>3
<1>5. QED BY <1>1, <1>4, ZenonT(60) DEF Woken

\* The last subtask of its stage wakes the task of the account, in time or not.
LEMMA ProviderWakes ==
  ASSUME AInv, TypeOK', NEW r \in Run, run[r].task \in Provider, rpc[r] = "check",
         IsCurrentStageComplete(Account, rseen[r]),
         ScheduleRun(Account, rfailed[r], [rpc EXCEPT ![r] = "end"]),
         UNCHANGED <<tables, exists, lockedBy, copies, todo>>,
         early' = (early \/ (nrun' # nrun /\ todo # {})),
         rewoken' = (rewoken \/ (nrun' # nrun /\ Woken # {}))
  PROVE  AInv'
<1> DEFINE pcs == [rpc EXCEPT ![r] = "end"]
           k == nrun + 1
<1>1. pcs \in [Run -> Place] /\ pcs[r] = "end" /\ \A q \in Run : q # r => pcs[q] = rpc[q]
  BY DEF AInv, TypeOK, TaskTypeOK, Place
<1>2. ScheduleRun(Account, rfailed[r], pcs) OBVIOUS
<1> HIDE DEF pcs
<1>3. Account \in Task /\ TypeOK /\ rfailed[r] \in BOOLEAN
  BY Constants, ZenonT(60) DEF AInv, TypeOK, TaskTypeOK
<1>4. \A q \in Run : pcs[q] = "unused" <=> rpc[q] = "unused" BY <1>1
<1>5. Numbered' /\ k \in Run /\ k # 1 /\ nrun' # nrun /\ rpc[k] = "unused" /\ run[k].task = NoTask
  BY <1>1, <1>2, <1>3, <1>4, ScheduleNumbered, ZenonT(60)
<1>e. /\ run'[nrun + 1].task = Account /\ run'[nrun + 1].failed = rfailed[r]
      /\ rpc'[nrun + 1] = "queued"
      /\ \A q \in Run : q # nrun + 1 => run'[q] = run[q] /\ rpc'[q] = pcs[q]
  <2> HIDE DEF k
  <2> QED BY <1>1, <1>2, <1>3, ScheduleEffect
<1>6. /\ run'[k].task = Account /\ run'[k].failed = rfailed[r]
      /\ rpc'[k] = "queued"
      /\ \A q \in Run : q # k => run'[q] = run[q] /\ rpc'[q] = pcs[q]
  BY <1>e, ZenonT(60)
<1> HIDE DEF k
<1>7. /\ 1 \in Run /\ r # 1 /\ r # k
      /\ rpc'[r] = "end" /\ rpc'[1] = rpc[1]
      /\ \A q \in Run : q # r /\ q # k => rpc'[q] = rpc[q]
  <2>1. 1 \in Run /\ r # 1 BY Constants, ZenonT(60) DEF AInv, Numbered
  <2>2. r # k BY <1>5
  <2>3. QED BY <1>1, <1>5, <1>6, <2>1, <2>2, ZenonT(60)
<1>8. UNCHANGED <<stage, subStage, subStatus, rstage, rfailed, rseen>>
  BY ZenonT(60) DEF tables, copies
<1>9. \A q \in Run : Again(q)' <=> q = k \/ Again(q)
  BY <1>5, <1>6, ZenonT(60) DEF Again
<1>10. Account # NoTask /\ Account \notin Provider /\ NoTask \notin Provider
  BY Constants, ZenonT(60)
<1>11. ~Again(k) BY <1>5, <1>10, ZenonT(60) DEF Again
<1>12. \A q \in Run : Again(q) => q # k /\ rpc'[q] = rpc[q] /\ run'[q] = run[q]
  BY <1>6, <1>7, <1>10, <1>11, ZenonT(60) DEF Again
<1>13. Subtask(r) BY ZenonT(60) DEF AInv, Subtasked
<1>14. Subtasked'
  <2> SUFFICES ASSUME NEW q \in Run, run'[q].task \in Provider PROVE Subtask(q)'
    BY ZenonT(60) DEF Subtasked
  <2>1. q # k /\ run'[q] = run[q] BY <1>6, <1>10, ZenonT(60)
  <2>2. Subtask(q) BY <2>1, ZenonT(60) DEF AInv, Subtasked
  <2>3. \A s \in Run : run'[s].task = run[q].task => s = q
    BY <1>6, <1>10, <2>1, <2>2, ZenonT(60) DEF Subtask
  <2>4. CASE q = r BY <1>7, <1>8, <2>1, <2>2, <2>3, <2>4 DEF Subtask
  <2>5. CASE q # r
    <3>1. rpc'[q] = rpc[q] BY <1>7, <2>1, <2>5, ZenonT(60)
    <3>2. QED BY <1>8, <2>1, <2>2, <2>3, <3>1, ZenonT(60) DEF Subtask
  <2>6. QED BY <2>4, <2>5, ZenonT(60)
<1>15. Unstarted'
  <2>1. \A c \in Provider, q \in Run : run[q].task # c => run'[q].task # c
    BY <1>6, <1>10, ZenonT(60)
  <2>2. QED BY <1>8, <2>1, ZenonT(60) DEF AInv, Unstarted
<1>16. Registered'
  <2>1. \A c \in Provider, q \in Run : run[q].task = c => run'[q].task = c
    BY <1>5, <1>6, <1>10, ZenonT(60)
  <2>2. QED BY <1>8, <2>1, ZenonT(60) DEF AInv, Registered
<1>17. ToStart' BY <1>8, ZenonT(60) DEF AInv, ToStart
<1>18. AllWake'
  <2> SUFFICES ASSUME NEW q \in Run, Again(q)' PROVE Wakes(q)' BY ZenonT(60) DEF AllWake
  <2>1. CASE q = k
    <3>1. ~rfailed[r] => stage[run[r].task] = "complete" BY <1>13, ZenonT(60) DEF Subtask
    <3>2. QED BY <1>6, <1>8, <2>1, <3>1, ZenonT(60) DEF Wakes, Over
  <2>2. CASE q # k
    <3>1. Again(q) /\ rpc'[q] = rpc[q] /\ run'[q] = run[q] BY <1>9, <1>12, <2>2, ZenonT(60)
    <3>2. QED BY <1>8, <3>1, ZenonT(60) DEF AInv, AllWake, Wakes
  <2>3. QED BY <2>1, <2>2, ZenonT(60)
<1>19. Locked'
  <2> SUFFICES ASSUME NEW q \in Run, rpc'[q] \in {"body", "more"} PROVE lockedBy'[run'[q].task] = q
    BY ZenonT(60) DEF Locked
  <2>1. q # k /\ q # r BY <1>6, <1>7
  <2>2. rpc[q] \in {"body", "more"} /\ run'[q] = run[q] BY <1>6, <1>7, <2>1, ZenonT(60)
  <2>3. QED BY <2>2, ZenonT(60) DEF AInv, Locked
<1>20. Starting \/ Started
  <2>1. ~Alone BY <1>7, <1>10, ZenonT(60) DEF Alone
  <2>2. QED BY <2>1, ZenonT(60) DEF AInv, First, Beginning, Empty
<1>21. First'
  <2>1. CASE Starting
    <3>1. \A q \in Run : Again(q)' => rpc'[q] \in {"queued", "fetched", "lock"}
      BY <1>6, <1>9, <1>12, <2>1, ZenonT(60) DEF Starting
    <3>2. QED BY <1>7, <1>8, <2>1, <3>1, ZenonT(60) DEF First, Starting
  <2>2. CASE Started BY <1>7, <1>8, <2>2, ZenonT(60) DEF First, Started
  <2>3. QED BY <1>20, <2>1, <2>2, ZenonT(60)
<1>22. Checking' BY <1>6, <1>7, <1>8, ZenonT(60) DEF AInv, Checking
<1>23. OnTheWay' BY <1>5, <1>6, ZenonT(60) DEF OnTheWay, Over
<1>24. Aborted => Aborted' BY <1>6, <1>8, <1>9, <1>12, ZenonT(60) DEF Aborted
\* Woken after OnInit is over: all subtasks are registered and have ended.
<1>25. ASSUME todo = {}, ~early PROVE Aborted \/ \A c \in Provider : Ended(c)
  <2>1. SUFFICES ASSUME ~Aborted, NEW c \in Provider, exists[c] PROVE Ended(c)
    BY ZenonT(60) DEF Ended
  <2>2. rpc[1] \in Over BY <1>20, <1>25, ZenonT(60) DEF Starting, Started
  <2>3. subStage[c] # "none" BY <1>25, <2>1, <2>2, ZenonT(60) DEF AInv, InTime
  <2>4. PICK q \in Run : run[q].task = c BY <2>3, ZenonT(60) DEF AInv, Registered
  <2>5. Subtask(q) BY <2>4, ZenonT(60) DEF AInv, Subtasked
  <2>6. subStage[c] = OnAllComplete BY <2>4, <2>5, ZenonT(60) DEF Subtask
  <2>7. rseen[r] = OnAllComplete
    <3>1. PICK d \in Subtasks(Account, rseen[r]) : TRUE BY ZenonT(60) DEF IsCurrentStageComplete
    <3>2. d \in Provider /\ subStage[d] = rseen[r] BY Constants DEF Subtasks
    <3>3. rseen[r] # "none" BY DEF AInv, Checking, Begun
    <3>4. PICK s \in Run : run[s].task = d BY <3>2, <3>3, ZenonT(60) DEF AInv, Registered
    <3>5. QED BY <3>2, <3>4, ZenonT(60) DEF AInv, Subtasked, Subtask
  <2>8. c \in Subtasks(Account, rseen[r]) BY <2>6, <2>7, Constants, ZenonT(60) DEF Subtasks
  <2>9. subStatus[c] # "init" BY <2>8, ZenonT(60) DEF IsCurrentStageComplete
  <2>10. rpc[q] \in {"notify", "check", "end", "done"}
    BY <2>4, <2>5, <2>9, ZenonT(60) DEF Subtask
  <2>11. QED BY <2>1, <2>4, <2>5, <2>10, ZenonT(60) DEF Subtask, Ended
<1>26. early' => early \/ todo # {} BY <1>5, ZenonT(60)
<1>27. ~early' => ~early /\ todo = {} BY <1>5, ZenonT(60)
<1>28. \A c \in Provider : Ended(c)' <=> Ended(c) BY <1>8, ZenonT(60) DEF Ended
<1>29. InTime'
  <2> SUFFICES ASSUME ~early, todo = {}
      PROVE  /\ rpc'[1] \in Over => Aborted' \/ \A c \in Provider : exists'[c] => subStage'[c] # "none"
             /\ Aborted' \/ \A c \in Provider : Ended(c)'
             /\ Deleted' => \A c \in Provider : Ended(c)'
    BY <1>27, ZenonT(60) DEF InTime
  <2>1. Aborted \/ \A c \in Provider : Ended(c) BY <1>25, ZenonT(60)
  <2>2. Deleted' => \A c \in Provider : Ended(c)' BY <1>28, ZenonT(60) DEF AInv, InTime, Deleted
  <2>3. QED BY <1>7, <1>8, <1>24, <1>28, <2>1, <2>2, ZenonT(60) DEF AInv, InTime
<1>30. WokenOnce'
  <2> SUFFICES ASSUME ~early', ~rewoken'
      PROVE  /\ \A q, s \in Run : Again(q)' /\ Again(s)' => q = s
             /\ stage'[Account] # "complete"
             /\ \A q \in Run : Again(q)' => rpc'[q] = "queued"
    BY <1>5, <1>9, ZenonT(60) DEF WokenOnce
  <2>1. Woken = {} /\ ~rewoken /\ ~early BY <1>5, ZenonT(60)
  <2>2. \A q \in Run : ~Again(q) BY <2>1, AgainIsWoken, ZenonT(60)
  <2>3. \A q \in Run : Again(q)' => q = k BY <1>9, <2>2, ZenonT(60)
  <2>4. stage[Account] # "complete"
    <3>1. ~Alone BY <1>7, <1>10, ZenonT(60) DEF Alone
    <3>2. QED BY <2>1, <2>2, <3>1, ZenonT(60) DEF AInv, WokenOnce
  <2>5. QED BY <1>6, <1>8, <2>3, <2>4, ZenonT(60)
<1>31. KeptIfAllFail' BY <1>8, ZenonT(60) DEF AInv, KeptIfAllFail, Deleted
<1>32. QED
  BY <1>5, <1>14, <1>15, <1>16, <1>17, <1>18, <1>19, <1>21, <1>22, <1>23, <1>29, <1>30, <1>31,
       ZenonT(60) DEF AInv

-----------------------------------------------------------------------------
(***************************************************************************)
(* The invariant and what follows from it.                                 *)
(***************************************************************************)
LEMMA Initially == Init => AInv
<1> SUFFICES ASSUME Init PROVE AInv OBVIOUS
<1>1. TypeOK
  <2>1. PICK owned \in SUBSET Provider : exists = [t \in Task |-> t \in owned \cup {Account}]
    BY ZenonT(60) DEF Init
  <2>6. \A t \in Task : (t \in owned \cup {Account}) \in BOOLEAN OBVIOUS
  <2>7. exists \in [Task -> BOOLEAN] BY <2>1, <2>6
  <2>2. /\ nrun \in 0..MaxRuns
        /\ run \in [Run -> [task : Task \cup {NoTask}, failed : BOOLEAN]]
        /\ rpc \in [Run -> Place]
        /\ lockedBy \in [Task -> Run \cup {0}] /\ rawLock \in [Task -> Run \cup {0}]
    BY Constants, TaskManAssumption DEF Init, NoSubtasks, Place
  <2>3. /\ stage \in [Task -> Stages] /\ subStage \in [Task -> Stages]
        /\ subStatus \in [Task -> {"init", "succ", "fail"}]
        /\ rstage \in [Run -> Stages] /\ rseen \in [Run -> Stages]
    BY StageNames DEF Init, NoSubtasks
  <2>4. rfailed \in [Run -> BOOLEAN] /\ todo \in SUBSET Provider /\ early \in BOOLEAN /\ rewoken \in BOOLEAN
    BY ZenonT(60) DEF Init, NoSubtasks
  <2>5. QED BY <2>2, <2>3, <2>4, <2>7, ZenonT(60) DEF TypeOK, TaskTypeOK
<1>2. 1 \in Run /\ Run \subseteq Nat BY TaskManAssumption DEF Run
<1>3. \A r \in Run : run[r].task = (IF r = 1 THEN Account ELSE NoTask) /\ ~run[r].failed
  BY DEF Init
<1>4. \A r \in Run : rpc[r] = (IF r = 1 THEN "queued" ELSE "unused") BY DEF Init
<1>5. Account # NoTask /\ Account \in Task /\ NoTask \notin Provider /\ \A p \in Provider : p # Account
  BY Constants, ZenonT(60)
<1>6. Numbered
  <2>1. nrun = 1 /\ nrun >= 1 /\ \A r \in Run : r <= nrun <=> r = 1 BY <1>2 DEF Init, Run
  <2>2. QED BY <1>2, <1>3, <1>4, <1>5, <2>1, ZenonT(60) DEF Numbered
<1>7. \A t \in Task : subStage[t] = "none" /\ subStatus[t] = "init"
  BY ZenonT(60) DEF Init, NoSubtasks
<1>8. stage[Account] = OnInit /\ \A p \in Provider : stage[p] = "none"
  BY Constants, ZenonT(60) DEF Init
<1>9. todo = {} /\ exists[Account] BY <1>5, ZenonT(60) DEF Init
<1>10. \A r \in Run : ~Again(r) BY <1>3, <1>5, ZenonT(60) DEF Again
<1>11. Subtasked /\ Registered /\ ToStart /\ AllWake /\ Locked /\ Checking
  BY <1>3, <1>4, <1>5, <1>7, <1>9, <1>10, Constants
  DEF Subtasked, Registered, ToStart, AllWake, Locked, Checking
<1>12. Unstarted BY <1>3, <1>5, <1>7, <1>8, Constants DEF Unstarted
<1>13. First
  BY <1>2, <1>3, <1>4, <1>7, <1>8, <1>9, Constants DEF First, Beginning, Alone
<1>14. rpc[1] \notin Over BY <1>2, <1>4 DEF Over
<1>15. OnTheWay /\ InTime /\ WokenOnce /\ KeptIfAllFail
  BY <1>8, <1>9, <1>10, <1>14, ZenonT(60)
     DEF OnTheWay, InTime, WokenOnce, KeptIfAllFail, Deleted
<1>16. QED BY <1>1, <1>6, <1>11, <1>12, <1>13, <1>15, ZenonT(60) DEF AInv

\* The steps of the task manager.
LEMMA ManagerPreserves ==
  ASSUME AInv, TypeOK', NEW r \in Run, ManagerStep(r) PROVE AInv'
<1>1. todo' = todo BY ZenonT(60) DEF ManagerStep
<1>2. ASSUME nrun' = nrun PROVE UNCHANGED <<todo, early, rewoken>>
  <2>1. early \in BOOLEAN /\ rewoken \in BOOLEAN BY ZenonT(60) DEF AInv, TypeOK
  <2>2. QED BY <1>2, <2>1, ZenonT(60) DEF ManagerStep
<1>3. ASSUME rpc[r] # "unused"
      PROVE  run[r].task \in Provider \/ r = 1 \/ Again(r)
  BY <1>3, Places, Constants, ZenonT(60)
<1>4. CASE FetchTask(r)
  <2>1. UNCHANGED <<todo, early, rewoken>> /\ rpc[r] # "unused" BY <1>2, <1>4 DEF FetchTask, schedule
  <2>2. QED BY <1>3, <1>4, <2>1, ProviderFetchTask, FirstFetches, AgainFetchTask, ZenonT(60)
<1>5. CASE CannotExec(r)
  <2>1. UNCHANGED <<todo, early, rewoken>> /\ rpc[r] = "fetched" BY <1>2, <1>5 DEF CannotExec, schedule
  <2>2. ASSUME run[r].task \in Provider PROVE FALSE
    <3>1. Subtask(r) BY <2>2, ZenonT(60) DEF AInv, Subtasked
    <3>2. rstage[r] = OnInit /\ exists[run[r].task] BY <2>1, <3>1, ZenonT(60) DEF Subtask
    <3>3. run[r].failed = FALSE /\ run[r].task \in Task
      BY <2>2, <3>1, Constants DEF Subtask, AInv, TypeOK, TaskTypeOK
    <3>4. HasMethod(r) BY <3>2, <3>3, Methods, ZenonT(60) DEF HasMethod
    <3>5. QED BY <1>5, <3>2, <3>4, ZenonT(60) DEF CannotExec
  <2>3. r # 1 BY <1>5, FirstHasMethod
  <2>4. Again(r) BY <1>3, <2>1, <2>2, <2>3
  <2>5. QED BY <1>5, <2>1, <2>4, AgainEnds, ZenonT(60)
<1>6. CASE FetchObject(r)
  <2>1. UNCHANGED <<todo, early, rewoken>> /\ rpc[r] # "unused" BY <1>2, <1>6 DEF FetchObject, schedule
  <2>2. QED BY <1>3, <1>6, <2>1, ProviderFetchObject, FirstFetches, AgainFetchObject, ZenonT(60)
<1>7. CASE LockObject(r)
  <2>1. UNCHANGED <<todo, early, rewoken>> /\ rpc[r] # "unused" BY <1>2, <1>7 DEF LockObject, schedule
  <2>2. QED BY <1>3, <1>7, <2>1, ProviderLockObject, FirstFetches, AgainLockObject, ZenonT(60)
<1>8. CASE SaveResults(r)
  <2>1. UNCHANGED <<todo, early, rewoken>> /\ run[r].task \in Provider
    BY <1>2, <1>8, Places DEF SaveResults, schedule
  <2>2. QED BY <1>8, <2>1, ProviderSaveResults, ZenonT(60)
<1>9. CASE FetchParent(r)
  <2>1. UNCHANGED <<todo, early, rewoken>> /\ run[r].task \in Provider
    BY <1>2, <1>9, Places DEF FetchParent, schedule
  <2>2. QED BY <1>9, <2>1, ProviderFetchParent, ZenonT(60)
<1>10. CASE WakeParent(r)
  <2>1. run[r].task \in Provider /\ rpc[r] = "check" BY <1>10, Places DEF WakeParent
  <2>2. ParentOf[run[r].task] = Account BY <2>1, Constants, ZenonT(60)
  <2>3. UNCHANGED <<tables, exists, lockedBy, copies>> BY <1>10, ZenonT(60) DEF WakeParent
  <2>4. CASE /\ IsCurrentStageComplete(Account, rseen[r])
             /\ ScheduleRun(Account, rfailed[r], [rpc EXCEPT ![r] = "end"])
    BY <1>1, <2>1, <2>3, <2>4, ProviderWakes, ZenonT(60) DEF ManagerStep
  <2>5. CASE ~IsCurrentStageComplete(Account, rseen[r]) /\ rpc' = [rpc EXCEPT ![r] = "end"] /\ UNCHANGED schedule
    <3>1. UNCHANGED <<todo, early, rewoken>> BY <1>2, <2>5, ZenonT(60) DEF schedule
    <3>2. QED BY <2>1, <2>3, <2>5, <3>1, ProviderNoWake, ZenonT(60)
  <2>6. QED BY <1>10, <2>2, <2>4, <2>5, ZenonT(60) DEF WakeParent
<1>11. CASE EndRun(r)
  <2>1. UNCHANGED <<todo, early, rewoken>> /\ rpc[r] # "unused" BY <1>2, <1>11 DEF EndRun, schedule
  <2>2. QED BY <1>3, <1>11, <2>1, ProviderEndRun, FirstEndRun, AgainEndRun, ZenonT(60)
<1>12. QED
  BY <1>4, <1>5, <1>6, <1>7, <1>8, <1>9, <1>10, <1>11, ZenonT(60) DEF ManagerStep, TaskManStep

\* A method runs on the stage it is named after.
LEMMA MethodRun ==
  ASSUME AInv, NEW r \in Run, NEW s, NEW failed, InMethod(r, Account, s, failed)
  PROVE  /\ s = OnInit => r = 1
         /\ s = OnAllComplete => Again(r)
<1>1. rpc[r] = "body" /\ run[r].task = Account /\ rstage[r] = s BY DEF InMethod
<1>2. r = 1 => Beginning BY <1>1, FirstBegins
<1>3. r = 1 => rstage[r] = OnInit BY <1>1, <1>2, ZenonT(60) DEF Beginning
<1>4. Again(r) => rstage[r] = OnAllComplete BY <1>1, AgainNotAborted
<1>5. r = 1 \/ Again(r) BY <1>1, ZenonT(60) DEF Again
<1>6. QED BY <1>1, <1>3, <1>4, <1>5

\* Every step of the deletion keeps the invariant.
LEMMA StepPreserves == AInv /\ [Next]_vars => AInv'
<1> SUFFICES ASSUME AInv, [Next]_vars PROVE AInv' OBVIOUS
<1>1. TypeOK' BY Typed
<1>2. CASE UNCHANGED vars
  <2>1. /\ UNCHANGED <<stage, subStage, subStatus, exists, lockedBy, nrun, run, rpc, rstage, rfailed, rseen>>
        /\ UNCHANGED <<todo, early, rewoken>>
    BY <1>2, ZenonT(60) DEF vars, taskVars, tables, locks, schedule, copies
  <2>2. \A r \in Run : Again(r)' <=> Again(r)  BY <2>1, ZenonT(60) DEF Again
  <2>3. Alone' <=> Alone  BY <2>1, ZenonT(60) DEF Alone
  <2>4. Numbered'  BY <2>1 DEF AInv, Numbered
  <2>5. \A r \in Run : Subtask(r)' <=> Subtask(r)  BY <2>1 DEF Subtask
  <2>6. Subtasked'  BY <2>1, <2>5, ZenonT(60) DEF AInv, Subtasked
  <2>7. Unstarted' /\ Registered' /\ ToStart'
    <3>1. Unstarted'  BY <2>1 DEF AInv, Unstarted
    <3>2. Registered'  BY <2>1 DEF AInv, Registered
    <3>3. ToStart'  BY <2>1 DEF AInv, ToStart
    <3>4. QED BY <3>1, <3>2, <3>3
  <2>8. AllWake' /\ Locked'
    <3>1. \A r \in Run : Wakes(r)' <=> Wakes(r)  BY <2>1 DEF Wakes
    <3>2. AllWake'  BY <2>2, <3>1, ZenonT(60) DEF AInv, AllWake
    <3>3. Locked'  BY <2>1 DEF AInv, Locked
    <3>4. QED BY <3>2, <3>3
  <2>9. First'
    <3>1. Beginning' <=> Beginning  BY <2>1, <2>3 DEF Beginning
    <3>2. Starting' <=> Starting  BY <2>1, <2>2 DEF Starting
    <3>3. Empty' <=> Empty  BY <2>1, <2>3 DEF Empty
    <3>4. Started' <=> Started  BY <2>1 DEF Started
    <3>5. QED BY <3>1, <3>2, <3>3, <3>4, ZenonT(60) DEF AInv, First
  <2>10. Checking' /\ OnTheWay'
    <3>1. Checking'  BY <2>1 DEF AInv, Checking
    <3>2. OnTheWay'  BY <2>1 DEF AInv, OnTheWay
    <3>3. QED BY <3>1, <3>2
  <2>11. InTime'
    <3>1. Aborted' <=> Aborted  BY <2>1, <2>2 DEF Aborted
    <3>2. \A p \in Provider : Ended(p)' <=> Ended(p)  BY <2>1 DEF Ended
    <3>3. Deleted' <=> Deleted  BY <2>1 DEF Deleted
    <3>4. QED BY <2>1, <2>2, <3>1, <3>2, <3>3 DEF AInv, InTime
  <2>12. WokenOnce'  BY <2>1, <2>2, <2>3 DEF AInv, WokenOnce
  <2>13. KeptIfAllFail'  BY <2>1 DEF AInv, KeptIfAllFail, Deleted
  <2>14. QED
    BY <1>1, <2>4, <2>6, <2>7, <2>8, <2>9, <2>10, <2>11, <2>12, <2>13, ZenonT(60) DEF AInv
<1>3. ASSUME NEW r \in Run, RunStep(r) PROVE AInv'
  <2>1. CASE ManagerStep(r) BY <1>1, <2>1, ManagerPreserves
  <2>2. CASE OnInitNoProviders(r) \/ OnInitStart(r)
    <3>1. r = 1 BY <2>2, MethodRun, ZenonT(60) DEF OnInitNoProviders, OnInitStart
    <3>2. QED BY <1>1, <2>2, <3>1, FirstInit
  <2>3. CASE OnAllCloudProviderDeleteComplete(r)
    <3>1. Again(r) BY <2>3, MethodRun, ZenonT(60) DEF OnAllCloudProviderDeleteComplete
    <3>2. QED BY <1>1, <2>3, <3>1, AgainDelete
  <2>4. CASE AccountComplete(r)
    <3>1. r = 1 \/ Again(r) BY <2>4, ZenonT(60) DEF AccountComplete, Again
    <3>2. QED BY <1>1, <2>4, <3>1, FirstComplete, AgainEnds, ZenonT(60)
  <2>5. CASE OnAllCloudProviderDeleteCompleteFailed(r)
    <3>1. Again(r) BY <2>5, MethodRun, ZenonT(60) DEF OnAllCloudProviderDeleteCompleteFailed
    <3>2. QED BY <1>1, <2>5, <3>1, AgainEnds
  <2>6. ASSUME NEW p \in Provider, StartProvider(r, p) \/ StartProviderFails(r, p) PROVE AInv'
    <3>1. r = 1
      <4>1. rpc[r] = "more" /\ run[r].task = Account /\ todo # {}
        BY <2>6, ZenonT(60) DEF StartProvider, StartProviderFails
      <4>2. QED BY <4>1, OnlyFirstStarts, ZenonT(60)
    <3>2. QED BY <1>1, <2>6, <3>1, FirstStarts, FirstFails, ZenonT(60)
  <2>7. ASSUME NEW p \in Provider, ProviderDeleted(r, p) \/ ProviderDeleteFails(r, p) PROVE AInv'
    BY <1>1, <2>7, ProviderEnds
  <2>8. QED BY <1>3, <2>1, <2>2, <2>3, <2>4, <2>5, <2>6, <2>7, ZenonT(60) DEF RunStep
<1>4. QED BY <1>2, <1>3, ZenonT(60) DEF Next

\* The invariant holds in every state of every deletion: what OnInit, the
\* subtasks of the providers and the runs that they wake leave to each other.
THEOREM AccountDeleteInvariance == Spec => []AInv
BY Initially, StepPreserves, PTL DEF Spec

\* Type correctness, for any providers and bound on runs.
THEOREM TypeCorrect == Spec => []TypeOK
BY AccountDeleteInvariance, PTL DEF AInv

\* The account is deleted after all its providers' subtasks have ended, unless
\* OnAllCloudProviderDeleteComplete was woken while OnInit was still starting
\* them.
THEOREM DeletedAfterAll == Spec => []DeletedAfterAllUnlessEarly
<1>1. AInv => DeletedAfterAllUnlessEarly
  BY ZenonT(60) DEF AInv, InTime, DeletedAfterAllUnlessEarly
<1>2. QED BY <1>1, AccountDeleteInvariance, PTL

\* However often the task is woken, the account is kept when all subtasks failed.
THEOREM KeptWhenAllFail == Spec => []KeptIfAllFail
BY AccountDeleteInvariance, PTL DEF AInv

\* NotifyParentTaskComplete loses no wake-up: the account's task has ended when
\* no run is left.
THEOREM NoLostWakeUp == Spec => []IdleMeansEnded
<1>1. ASSUME AInv, Idle PROVE stage[Account] \in Closed
  <2>1. 1 \in Run /\ rpc[1] # "unused" BY <1>1, Constants, ZenonT(60) DEF AInv, Numbered
  <2>2. rpc[1] = "done" BY <1>1, <2>1, ZenonT(60) DEF Idle
  <2>3. Started BY <1>1, <2>2 DEF AInv, First, Beginning, Starting, Empty
  <2>4. stage[Account] # OnAllComplete BY <1>1, <2>2, ZenonT(60) DEF AInv, OnTheWay, Idle, Over
  <2>5. QED BY <2>3, <2>4 DEF Started, Begun
<1>2. AInv => IdleMeansEnded BY <1>1, ZenonT(60) DEF IdleMeansEnded
<1>3. QED BY <1>2, AccountDeleteInvariance, PTL

\* Without early or repeated wake-ups, a run whose task has ended has seen that.
LEMMA EndIsSeen ==
  ASSUME AInv, ~early, ~rewoken, NEW r \in Run, rpc[r] \in {"fetched", "body", "more"},
         stage[run[r].task] \in Closed
  PROVE  rpc[r] = "fetched" /\ rstage[r] = "failed"
<1>1. run[r].task \in Task BY Places
<1>2. run[r].task \notin Provider BY DEF AInv, Subtasked, Subtask
<1>3. run[r].task = Account BY <1>1, <1>2, Constants, ZenonT(60)
<1>4. r # 1 BY <1>3 DEF AInv, First, Beginning, Starting, Empty, Started, Over
<1>5. Again(r) BY <1>3, <1>4 DEF Again
<1>6. stage[Account] # "complete" /\ stage[Account] = rstage[r] BY <1>5 DEF AInv, WokenOnce, Over
<1>7. QED BY <1>3, <1>5, <1>6, AgainNotAborted

\* A step changes the stage of no task that has ended, but for those wake-ups.
LEMMA EndStays ==
  ASSUME AInv, Next, ~(early' \/ rewoken'), NEW t \in Task, stage[t] \in Closed
  PROVE  stage'[t] = stage[t]
<1>1. PICK r \in Run : RunStep(r) BY ZenonT(60) DEF Next
<1>2. ~early /\ ~rewoken
  <2>1. (early' = early /\ rewoken' = rewoken) \/ ManagerStep(r)
    BY <1>1, ZenonT(60) DEF RunStep, OnInitNoProviders, OnInitStart, DeleteAccount,
         OnAllCloudProviderDeleteComplete,
      AccountComplete, OnAllCloudProviderDeleteCompleteFailed, StartProvider, StartProviderFails,
      ProviderDeleted, ProviderDeleteFails
  <2>2. CASE ManagerStep(r) BY <2>2, ZenonT(60) DEF ManagerStep
  <2>3. QED BY <2>1, <2>2
<1>3. stage \in [Task -> Stages] /\ TypeOK BY ZenonT(60) DEF AInv, TypeOK, TaskTypeOK
<1>4. ASSUME SetStageFailed(r), rpc[r] \in {"fetched", "body"} PROVE stage'[t] = stage[t]
  <2>1. Fails(r) BY <1>3, <1>4, Places, FailedEffect
  <2>2. stage[run[r].task] \in Closed => rstage[r] = "failed" BY <1>2, <1>4, EndIsSeen
  <2>3. QED BY <2>1, <2>2, ZenonT(60) DEF Fails
<1>5. ASSUME NEW s, SetStage(r, s), rpc[r] \in {"body", "more"} PROVE stage'[t] = stage[t]
  <2>1. stage[run[r].task] \notin Closed BY <1>2, <1>5, EndIsSeen
  <2>2. QED BY <1>3, <1>5, <2>1, ZenonT(60) DEF SetStage
<1>6. ASSUME NEW p \in Provider, StartProvider(r, p) \/ StartProviderFails(r, p) PROVE stage'[t] = stage[t]
  <2>1. rpc[r] = "more" /\ run[r].task = Account /\ p \in todo
    BY <1>6, ZenonT(60) DEF StartProvider, StartProviderFails
  <2>2. stage[Account] \notin Closed BY <1>2, <2>1, EndIsSeen
  <2>3. stage[p] \notin Closed BY <2>1 DEF AInv, ToStart, Unstarted
  <2>4. QED BY <1>3, <1>6, <2>2, <2>3 DEF StartProvider, StartProviderFails, InsertTask
<1>7. CASE ManagerStep(r)
  <2>1. stage' = stage \/ CannotExec(r)
    BY <1>7, ZenonT(60) DEF ManagerStep, TaskManStep, FetchTask, FetchObject, LockObject,
         SaveResults, FetchParent,
      WakeParent, EndRun, tables
  <2>2. QED BY <1>4, <2>1, ZenonT(60) DEF CannotExec
<1>8. QED
  <2>1. CASE OnInitNoProviders(r) \/ OnAllCloudProviderDeleteComplete(r)
    BY <2>1, ZenonT(60)
       DEF OnInitNoProviders, OnAllCloudProviderDeleteComplete, DeleteAccount, tables
  <2>2. CASE OnInitStart(r) BY <1>5, <2>2, ZenonT(60) DEF OnInitStart, InMethod
  <2>3. CASE AccountComplete(r) BY <1>5, <2>3, ZenonT(60) DEF AccountComplete, SetStageComplete
  <2>4. CASE OnAllCloudProviderDeleteCompleteFailed(r)
    BY <1>4, <2>4, ZenonT(60) DEF OnAllCloudProviderDeleteCompleteFailed, InMethod
  <2>5. ASSUME NEW p \in Provider, ProviderDeleted(r, p) PROVE stage'[t] = stage[t]
    BY <1>5, <2>5, ZenonT(60) DEF ProviderDeleted, InMethod, SetStageComplete
  <2>6. ASSUME NEW p \in Provider, ProviderDeleteFails(r, p) PROVE stage'[t] = stage[t]
    BY <1>4, <2>6, ZenonT(60) DEF ProviderDeleteFails, InMethod
  <2>7. QED BY <1>1, <1>6, <1>7, <2>1, <2>2, <2>3, <2>4, <2>5, <2>6, ZenonT(60) DEF RunStep

\* SetStageComplete and SetStageFailed end a task for good, unless the task of
\* the account was woken twice or early.
THEOREM EndedStaysEnded == Spec => EndIsFinal
<1>1. ASSUME AInv, [Next]_vars
      PROVE  [~(early' \/ rewoken') => \A t \in Task : stage[t] \in Closed => stage'[t] = stage[t]]_vars
  BY <1>1, EndStays, ZenonT(60)
<1>2. QED BY <1>1, AccountDeleteInvariance, PTL DEF Spec, EndIsFinal
=============================================================================
