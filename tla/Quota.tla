------------------------------- MODULE Quota -------------------------------
(***************************************************************************)
(* The quotas of one project (pkg/cloudcommon/db/quotas, with the SQuota   *)
(* of pkg/compute/models) and the operations that set usage aside and use  *)
(* it up.  A request is checked against the stored quota with what is used *)
(* and what is pending, and what it asks for is added to the pending usage *)
(* in memory.  The task that serves it cancels its part of the pending     *)
(* usage as rows appear in the database, and the rest when it ends.        *)
(*                                                                         *)
(* Three dimensions stand for the thirteen of SQuota: "cpu" is counted     *)
(* from the moment a guest has a host (memory likewise), "disk" is created *)
(* and cancelled under the quota lock (nics and devices likewise), "eip"   *)
(* is counted from the row on.  A request asks for one unit of each        *)
(* dimension it wants and for one resource; a batch goes through the same  *)
(* steps for each of its resources.                                        *)
(***************************************************************************)
EXTENDS Integers, FiniteSets

CONSTANTS
  Request, Nobody,
  Kinds,           \* the kinds of requests that come in
  Admin, Asks,     \* administrators, and the <<dimension, value>> each sets
  DefaultQuota,    \* options.Options.Default...Quota
  MaxRestarts      \* bound of the model: restarts of the service

Dims == {"cpu", "disk", "eip"}
Classes == {"guests", "disks", "eips"}

\* What the request of a kind asks for (getGuestResourceRequirements and its
\* counterparts for disks, elastic IPs and changes of configuration).
Wants ==
  [server     |-> {"cpu", "disk"},   \* POST servers
   eipserver  |-> Dims,              \* the same with eip_bw
   system     |-> {"cpu", "disk"},   \* the same with is_system
   check      |-> {"cpu", "disk"},   \* POST servers/check-create-data
   eip        |-> {"eip"},           \* POST eips
   eipcheck   |-> {"eip"},           \* POST eips/check-create-data
   disk       |-> {"disk"},          \* POST disks
   grow       |-> {"disk"},          \* POST disks/<id>/resize
   createdisk |-> {"disk"},          \* POST servers/<id>/createdisk
   flavor     |-> {"cpu"},           \* POST servers/<id>/change-config
   resize     |-> {"cpu", "disk"}]   \* the same with a larger disk

Servers == {"server", "eipserver", "system"}
Checks == {"check", "eipcheck"}
OnClass == Servers \cup {"disk", "eip"} \cup Checks    \* the others are actions on one object
ClassOf(k) ==
  CASE k \in Servers \cup {"check"} -> "guests" [] k = "disk" -> "disks" [] OTHER -> "eips"

ASSUME QuotaAssumption ==
  /\ IsFiniteSet(Request)
  /\ Nobody \notin Request
  /\ Kinds \subseteq DOMAIN Wants
  /\ DefaultQuota \in [Dims -> Nat]
  /\ Asks \in [Admin -> Dims \X (Nat \ {0})]
  /\ MaxRestarts \in Nat

VARIABLES
  quota,      \* the quota in the metadata of the project
  used,       \* what FetchUsage counts in the database
  pend,       \* SMemoryQuotaStore: the pending usage
  lock,       \* holder of the lock of the quota manager for the project
  class,      \* holders of the class locks of guests, disks and eips
  kind, pc,   \* the requests
  local,      \* the pending usage among the parameters of their tasks
  seen,       \* the usage a check has read
  copy,       \* a DiskResizeTask has yet to release its copy of local
  restarts,
  apc, oquota,      \* administrators in setQuotaHanlder, and what they read
  \* history
  res,        \* reservations: "open", "used" (the row is there) or "none"
  cut,        \* where usage was taken or cancelled without a reservation
  leak,       \* where a reservation was left that nothing cancels
  lowered,    \* where an administrator has lowered the quota
  want,       \* what administrators have asked for last
  overlap     \* two handlers of setQuotaHanlder have overlapped

db == <<quota, used>>
req == <<kind, pc, local, seen, copy>>
adm == <<apc, oquota, lowered, want, overlap>>
hist == <<res, cut, leak>>
vars == <<db, pend, lock, class, req, restarts, adm, hist>>

PCs == {"idle", "validate", "check", "insert", "complete", "queued", "sched",
        "hosted", "alloc", "release", "building", "resize", "change",
        "changed", "failed", "done"}

TypeOK ==
  /\ quota \in [Dims -> Nat] /\ used \in [Dims -> Nat] /\ pend \in [Dims -> Nat]
  /\ lock \in Request \cup {Nobody}
  /\ class \in [Classes -> Request \cup {Nobody}]
  /\ kind \in [Request -> DOMAIN Wants]
  /\ pc \in [Request -> PCs]
  /\ local \in [Request -> [Dims -> {0, 1}]]
  /\ seen \in [Request -> [Dims -> Nat]]
  /\ copy \in [Request -> BOOLEAN]
  /\ restarts \in 0..MaxRestarts
  /\ apc \in [Admin -> {"idle", "merge", "done"}]
  /\ oquota \in [Admin -> [Dims -> Nat]]
  /\ lowered \subseteq Dims /\ want \in [Dims -> Nat] /\ overlap \in BOOLEAN
  /\ res \in [Request -> [Dims -> {"none", "open", "used"}]]
  /\ cut \subseteq Dims /\ leak \subseteq Dims

-----------------------------------------------------------------------------
(***************************************************************************)
(* SQuota and the quota manager.                                           *)
(***************************************************************************)
Zero == [d \in Dims |-> 0]
Units(S) == [d \in Dims |-> IF d \in S THEN 1 ELSE 0]

\* Mistake: the store keeps the request alone.
AddOverwrites(a, b) == b

Add(a, b) == [d \in Dims |-> a[d] + b[d]]

\* Mistake: Sub on a copy.
SubOnCopy(a, b) == a

\* Sub, with nonNegative.
Sub(a, b) == [d \in Dims |-> IF a[d] > b[d] THEN a[d] - b[d] ELSE 0]

\* GetQuota: an empty quota is the default one.
StoredQuota == IF quota = Zero THEN DefaultQuota ELSE quota

\* Exceed, of the usage read before and the pending usage read now.
Exceed(r) == \E d \in Wants[kind[r]] : seen[r][d] + pend[d] + 1 > StoredQuota[d]

Mark(r, S, how) ==
  res' = [res EXCEPT ![r] = [d \in Dims |-> IF d \in S THEN how ELSE res[r][d]]]

Goto(r, to) == pc' = [pc EXCEPT ![r] = to]

\* CancelPendingUsage of one unit in each dimension of S.
CancelPendingUsage(r, S) ==
  /\ lock = Nobody
  /\ pend' = Sub(pend, Units(S))
  /\ cut' = cut \cup {d \in S : res[r][d] = "none"}
  /\ Mark(r, S, "none")
  /\ UNCHANGED leak

\* A row that FetchUsage counts appears; it should have been set aside.
Counted(r, d) ==
  /\ used' = [used EXCEPT ![d] = @ + 1]
  /\ cut' = IF res[r][d] = "open" THEN cut ELSE cut \cup {d}
  /\ Mark(r, {d}, IF res[r][d] = "open" THEN "used" ELSE res[r][d])

\* Nothing will cancel what the request has set aside.
Abandon(r) ==
  /\ leak' = leak \cup {d \in Dims : res[r][d] # "none"}
  /\ Mark(r, Dims, "none")
  /\ UNCHANGED cut

\* Mistake: what is left to the task is not saved.
NoSave(r, d) == UNCHANGED local

\* What is left to the task once one dimension is cancelled.
Save(r, d) == local' = [local EXCEPT ![r][d] = 0]

LeaveClass(r) == class' = [c \in Classes |-> IF class[c] = r THEN Nobody ELSE class[c]]

EnterClass(r, c) == class[c] = Nobody /\ class' = [class EXCEPT ![c] = r]

Init ==
  /\ quota = Zero /\ used = Zero /\ pend = Zero
  /\ lock = Nobody
  /\ class = [c \in Classes |-> Nobody]
  /\ kind \in [Request -> Kinds]
  /\ pc = [r \in Request |-> "idle"]
  /\ local = [r \in Request |-> Zero]
  /\ seen = [r \in Request |-> Zero]
  /\ copy = [r \in Request |-> FALSE]
  /\ restarts = 0
  /\ apc = [a \in Admin |-> "idle"]
  /\ oquota = [a \in Admin |-> Zero]
  /\ lowered = {} /\ want = DefaultQuota /\ overlap = FALSE
  /\ res = [r \in Request |-> [d \in Dims |-> "none"]]
  /\ cut = {} /\ leak = {}

-----------------------------------------------------------------------------
(***************************************************************************)
(* CheckSetPendingQuota, and the handlers around it.                       *)
(***************************************************************************)
\* A request comes in.  DoCreate and PerformClassAction take the class lock of
\* the project, PerformAction does not.
Arrive(r) ==
  /\ pc[r] = "idle"
  /\ IF kind[r] \in OnClass THEN EnterClass(r, ClassOf(kind[r])) ELSE UNCHANGED class
  /\ Goto(r, "validate")
  /\ UNCHANGED <<db, pend, lock, kind, local, seen, copy, restarts, adm, hist>>

\* Mistake: the check does not lock.
NoLock(r) == UNCHANGED lock

Lock(r) == lock = Nobody /\ lock' = r

\* CheckSetPendingQuota locks the quota of the project; _checkQuota reads what
\* is used.
ReadUsage(r) ==
  /\ pc[r] = "validate" /\ kind[r] # "system"
  /\ Lock(r)
  /\ seen' = [seen EXCEPT ![r] = used]
  /\ Goto(r, "check")
  /\ UNCHANGED <<db, pend, class, kind, local, copy, restarts, adm, hist>>

\* SGuestManager.ValidateCreateData: a system server is not checked.
SkipCheck(r) ==
  /\ pc[r] = "validate" /\ kind[r] = "system"
  /\ Goto(r, "insert")
  /\ UNCHANGED <<db, pend, lock, class, kind, local, seen, copy, restarts, adm, hist>>

Unlock(r) == lock' = IF lock = r THEN Nobody ELSE lock

Refuse(r) ==
  /\ pc[r] = "check" /\ Exceed(r)
  /\ Unlock(r)
  /\ LeaveClass(r)
  /\ seen' = [seen EXCEPT ![r] = Zero]
  /\ Goto(r, "done")
  /\ UNCHANGED <<db, pend, kind, local, copy, restarts, adm, hist>>

\* What is asked for becomes pending.  PerformCreatedisk goes on with the same
\* SQuota, the others hand it to a task.
Admit(r) ==
  /\ pc[r] = "check" /\ ~Exceed(r)
  /\ pend' = Add(pend, Units(Wants[kind[r]]))
  /\ Mark(r, Wants[kind[r]], "open")
  /\ Unlock(r)
  /\ IF kind[r] = "createdisk"
       THEN local' = [local EXCEPT ![r] = Units(Wants[kind[r]])] /\ Goto(r, "alloc")
       ELSE /\ UNCHANGED local
            /\ Goto(r, IF kind[r] \in OnClass THEN "insert" ELSE "complete")
  /\ seen' = [seen EXCEPT ![r] = Zero]
  /\ UNCHANGED <<db, class, kind, copy, restarts, adm, cut, leak>>

\* The rest of doCreateItem inserts the row.  FetchUsage counts a disk or an
\* elastic IP from here on.
Insert(r) ==
  /\ pc[r] = "insert" /\ kind[r] \notin Checks
  /\ IF kind[r] \in Servers
       THEN UNCHANGED <<used, res, cut>>
       ELSE \E d \in Wants[kind[r]] : Counted(r, d)
  /\ LeaveClass(r)
  /\ Goto(r, "complete")
  /\ UNCHANGED <<quota, pend, lock, kind, local, seen, copy, restarts, adm, leak>>

\* check-create-data answers without a row; a create may fail in
\* CheckRequiredFields, CustomizeCreate or Insert.
NotInserted(r) ==
  /\ pc[r] = "insert"
  /\ Abandon(r)
  /\ LeaveClass(r)
  /\ Goto(r, "done")
  /\ UNCHANGED <<db, pend, lock, kind, local, seen, copy, restarts, adm>>

\* OnCreateComplete takes the class lock once more.
MayComplete(r) == kind[r] \in Servers \cup {"disk"} => class[ClassOf(kind[r])] = Nobody

\* OnCreateComplete, PostCreate and the Perform handlers start a task with what
\* is pending among its parameters.
NewTask(r) ==
  /\ pc[r] = "complete" /\ MayComplete(r)
  /\ local' = [local EXCEPT ![r] = Units(Wants[kind[r]])]
  /\ Goto(r, CASE kind[r] \in Servers \cup {"disk"} -> "queued"
               [] kind[r] = "eip"                    -> "release"
               [] kind[r] \in {"grow", "resize"}     -> "resize"
               [] OTHER                              -> "change")
  /\ UNCHANGED <<db, pend, lock, class, kind, seen, copy, restarts, adm, hist>>

\* The record of the task cannot be inserted: an error that is logged or
\* dropped.
NoTask(r) ==
  /\ pc[r] = "complete" /\ MayComplete(r)
  /\ Abandon(r)
  /\ Goto(r, "done")
  /\ UNCHANGED <<db, pend, lock, class, kind, local, seen, copy, restarts, adm>>

-----------------------------------------------------------------------------
(***************************************************************************)
(* GuestBatchCreateTask and DiskBatchCreateTask.                           *)
(***************************************************************************)
\* execTask of a task with a list of objects holds their class lock.
StartTask(r) ==
  /\ pc[r] = "queued"
  /\ EnterClass(r, ClassOf(kind[r]))
  /\ Goto(r, "sched")
  /\ UNCHANGED <<db, pend, lock, kind, local, seen, copy, restarts, adm, hist>>

\* onSchedulerRequestFail, or a result with an error.
ScheduleFails(r) ==
  /\ pc[r] = "sched"
  /\ Goto(r, "release")
  /\ UNCHANGED <<db, pend, lock, class, kind, local, seen, copy, restarts, adm, hist>>

\* OnScheduleToHost: with a host the guest counts, unless it is a system one.
ToHost(r) ==
  /\ pc[r] = "sched" /\ kind[r] \in Servers
  /\ IF kind[r] = "system" THEN UNCHANGED <<used, res, cut>> ELSE Counted(r, "cpu")
  /\ Goto(r, "hosted")
  /\ UNCHANGED <<quota, pend, lock, class, kind, local, seen, copy, restarts, adm, leak>>

\* allocateGuestOnHost cancels cpu and memory first.
CancelCpu(r) ==
  /\ pc[r] = "hosted"
  /\ CancelPendingUsage(r, {"cpu"})
  /\ Save(r, "cpu")
  /\ Goto(r, "alloc")
  /\ UNCHANGED <<db, lock, class, kind, seen, copy, restarts, adm>>

\* createDiskOnStorage: the row and the cancellation under the quota lock.
AllocDisk(r) ==
  /\ pc[r] = "alloc" /\ lock = Nobody
  /\ used' = IF kind[r] = "system" THEN used ELSE [used EXCEPT !["disk"] = @ + 1]
  /\ pend' = Sub(pend, Units({"disk"}))
  /\ cut' = IF res[r]["disk"] = "open" THEN cut ELSE cut \cup {"disk"}
  /\ Mark(r, {"disk"}, "none")
  /\ Save(r, "disk")
  /\ Goto(r, IF kind[r] = "createdisk" THEN "done" ELSE "release")
  /\ UNCHANGED <<quota, lock, class, kind, seen, copy, restarts, adm, leak>>

AllocFails(r) ==
  /\ pc[r] = "alloc"
  /\ Goto(r, "release")
  /\ UNCHANGED <<db, pend, lock, class, kind, local, seen, copy, restarts, adm, hist>>

\* startCreateDisk cancels the disk and saves what is left to the task.
StartCreateDisk(r) ==
  /\ pc[r] = "sched" /\ kind[r] = "disk"
  /\ CancelPendingUsage(r, {"disk"})
  /\ Save(r, "disk")
  /\ Goto(r, "release")
  /\ UNCHANGED <<db, lock, class, kind, seen, copy, restarts, adm>>

\* The error paths of DiskBatchCreateTask.SaveScheduleResult cancel the disk as
\* well, and save nothing.
SetStorageFails(r) ==
  /\ pc[r] = "sched" /\ kind[r] = "disk"
  /\ CancelPendingUsage(r, {"disk"})
  /\ Goto(r, "release")
  /\ UNCHANGED <<db, lock, class, kind, local, seen, copy, restarts, adm>>

\* cancelPendingUsage at the end of the schedule, finalReleasePendingUsage of
\* EipAllocateTask and SDiskBaseTask, the error path of PerformCreatedisk: what
\* is left to the task or handler is cancelled.
Release(r) ==
  /\ pc[r] = "release"
  /\ CancelPendingUsage(r, {d \in Dims : local[r][d] = 1})
  /\ local' = [local EXCEPT ![r] = Zero]
  /\ LeaveClass(r)
  /\ Goto(r, IF kind[r] = "eipserver" /\ local[r]["disk"] = 0 THEN "building" ELSE "done")
  /\ UNCHANGED <<db, lock, kind, seen, copy, restarts, adm>>

\* GuestCreateTask.StartEipSubTask inserts the row of the elastic IP, long
\* after the batch task has cancelled what was pending for it.
GuestBuilt(r) ==
  /\ pc[r] = "building"
  /\ Counted(r, "eip")
  /\ Goto(r, "done")
  /\ UNCHANGED <<quota, pend, lock, class, kind, local, seen, copy, restarts, adm, leak>>

GuestFails(r) ==
  /\ pc[r] = "building"
  /\ Goto(r, "done")
  /\ UNCHANGED <<db, pend, lock, class, kind, local, seen, copy, restarts, adm, hist>>

-----------------------------------------------------------------------------
(***************************************************************************)
(* DiskResizeTask, alone or under a GuestChangeConfigTask that has given   *)
(* it a copy of all that is pending.                                       *)
(***************************************************************************)
\* OnDiskResizeComplete: the larger disk is counted.  The parent goes on when
\* the stage is complete, which is before finalReleasePendingUsage.
ResizeDone(r) ==
  /\ pc[r] = "resize"
  /\ Counted(r, "disk")
  /\ \/ /\ kind[r] = "resize"
        /\ copy' = [copy EXCEPT ![r] = TRUE]
        /\ Goto(r, "change")
     \/ Goto(r, "release") /\ UNCHANGED copy
  /\ UNCHANGED <<quota, pend, lock, class, kind, local, seen, restarts, adm, leak>>

\* Mistake: the test of SGuestBaseTask.finalReleasePendingUsage here as well.
ResizeFailsUnreleased(r) ==
  /\ pc[r] = "resize"
  /\ Goto(r, "done")
  /\ UNCHANGED <<db, pend, lock, class, kind, local, seen, copy, restarts, adm, hist>>

\* SDiskBaseTask.SetStageFailed releases before it fails the parent, which
\* releases nothing.
ResizeFails(r) ==
  /\ pc[r] = "resize"
  /\ Goto(r, "release")
  /\ UNCHANGED <<db, pend, lock, class, kind, local, seen, copy, restarts, adm, hist>>

ReleaseCopy(r) ==
  /\ copy[r]
  /\ CancelPendingUsage(r, Wants[kind[r]])
  /\ copy' = [copy EXCEPT ![r] = FALSE]
  /\ UNCHANGED <<db, lock, class, kind, pc, local, seen, restarts, adm>>

\* OnGuestChangeCpuMemSpecComplete, up to its lock.
ChangeCpu(r) ==
  /\ pc[r] = "change"
  /\ Counted(r, "cpu")
  /\ Goto(r, "changed")
  /\ UNCHANGED <<quota, pend, lock, class, kind, local, seen, copy, restarts, adm, leak>>

CancelChange(r) ==
  /\ pc[r] = "changed" /\ class["guests"] = Nobody
  /\ CancelPendingUsage(r, {"cpu"})
  /\ Save(r, "cpu")
  /\ Goto(r, "done")
  /\ UNCHANGED <<db, lock, class, kind, seen, copy, restarts, adm>>

\* SGuestBaseTask.SetStageFailed: finalReleasePendingUsage tests err != nil and
\* so releases nothing.
ConfigFails(r) ==
  /\ pc[r] = "change"
  /\ IF copy[r] THEN UNCHANGED hist ELSE Abandon(r)
  /\ Goto(r, "failed")
  /\ UNCHANGED <<db, pend, lock, class, kind, local, seen, copy, restarts, adm>>

-----------------------------------------------------------------------------
(***************************************************************************)
(* Deletions, administrators, restarts.                                    *)
(***************************************************************************)
Delete(d) ==
  /\ used[d] > 0
  /\ used' = [used EXCEPT ![d] = @ - 1]
  /\ UNCHANGED <<quota, pend, lock, class, req, restarts, adm, hist>>

\* setQuotaHanlder reads the quota before any lock.
ReadQuota(a) ==
  /\ apc[a] = "idle"
  /\ apc' = [apc EXCEPT ![a] = "merge"]
  /\ oquota' = [oquota EXCEPT ![a] = StoredQuota]
  /\ UNCHANGED <<db, pend, lock, class, req, restarts, lowered, want, overlap, hist>>

\* Mistake: the request replaces the whole quota.
MergedAlone(a) == [Zero EXCEPT ![Asks[a][1]] = Asks[a][2]]

\* Update: what the request names replaces what was read.
Merged(a) == [oquota[a] EXCEPT ![Asks[a][1]] = Asks[a][2]]

\* SetQuota writes the merged quota under the lock.
SetQuota(a) ==
  /\ apc[a] = "merge" /\ lock = Nobody
  /\ apc' = [apc EXCEPT ![a] = "done"]
  /\ quota' = Merged(a)
  /\ lowered' = lowered \cup {d \in Dims : Merged(a)[d] < StoredQuota[d]}
  /\ want' = [want EXCEPT ![Asks[a][1]] = Asks[a][2]]
  /\ overlap' = (overlap \/ \E b \in Admin \ {a} : apc[b] = "merge")
  /\ oquota' = [oquota EXCEPT ![a] = Zero]
  /\ UNCHANGED <<used, pend, lock, class, req, restarts, hist>>

\* A host or a provider is at work for the task and calls back.
Remote(r) == pc[r] \in {"building", "resize", "change"}

\* The service restarts: the pending usage is gone, and with it every handler
\* and task but those that wait for a callback.
Restart ==
  /\ restarts < MaxRestarts
  /\ restarts' = restarts + 1
  /\ pend' = Zero /\ leak' = {}
  /\ lock' = Nobody
  /\ class' = [c \in Classes |-> Nobody]
  /\ pc' = [r \in Request |-> IF Remote(r) \/ pc[r] = "idle" THEN pc[r] ELSE "done"]
  /\ local' = [r \in Request |-> IF Remote(r) THEN local[r] ELSE Zero]
  /\ copy' = [r \in Request |-> FALSE]
  /\ res' = [r \in Request |-> [d \in Dims |-> "none"]]
  /\ apc' = [a \in Admin |-> IF apc[a] = "merge" THEN "done" ELSE apc[a]]
  /\ seen' = [r \in Request |-> Zero]
  /\ oquota' = [a \in Admin |-> Zero]
  /\ UNCHANGED <<db, kind, lowered, want, overlap, cut>>

Ended(r) == pc[r] \in {"failed", "done"} /\ ~copy[r]

\* Every request and administrator has come and gone.
Finished ==
  /\ \A r \in Request : Ended(r)
  /\ \A a \in Admin : apc[a] = "done"
  /\ UNCHANGED vars

Step(r) ==
  \/ Arrive(r) \/ ReadUsage(r) \/ SkipCheck(r) \/ Refuse(r) \/ Admit(r)
  \/ Insert(r) \/ NotInserted(r) \/ NewTask(r) \/ NoTask(r)
  \/ StartTask(r) \/ ScheduleFails(r) \/ ToHost(r) \/ CancelCpu(r)
  \/ AllocDisk(r) \/ AllocFails(r) \/ StartCreateDisk(r) \/ SetStorageFails(r)
  \/ Release(r) \/ GuestBuilt(r) \/ GuestFails(r)
  \/ ResizeDone(r) \/ ResizeFails(r) \/ ReleaseCopy(r)
  \/ ChangeCpu(r) \/ CancelChange(r) \/ ConfigFails(r)

Next ==
  \/ \E r \in Request : Step(r)
  \/ \E d \in Dims : Delete(d)
  \/ \E a \in Admin : ReadQuota(a) \/ SetQuota(a)
  \/ Restart
  \/ Finished

Spec == Init /\ [][Next]_vars

-----------------------------------------------------------------------------
(***************************************************************************)
(* Properties.                                                             *)
(***************************************************************************)
Held(d) == {r \in Request : res[r][d] # "none"}
Open(d) == {r \in Request : res[r][d] = "open"}

\* What is used and what has been promised to admitted requests stays within
\* the quota in every dimension in which all usage was set aside first, nothing
\* was cancelled that had not been set aside, and no administrator lowered the
\* quota: the check and the addition under one lock, and each cancellation
\* after the row it stands for, are enough.
WithinQuota ==
  \A d \in Dims \ (cut \cup lowered) : used[d] + Cardinality(Open(d)) <= StoredQuota[d]

\* The pending usage covers every reservation whose row is not cancelled yet,
\* wherever nobody cancels what is not theirs.
PendingCovers == \A d \in Dims \ cut : Cardinality(Held(d)) <= pend[d]

\* Pending usage belongs to a reservation that a handler or task still has to
\* cancel, except where one was abandoned: with nothing in flight there is
\* nothing pending.
PendingIsHeld == \A d \in Dims \ leak : pend[d] <= Cardinality(Held(d))

\* What is reserved has somebody to cancel it: once a request has ended it
\* holds nothing.
EndedHoldsNothing == \A r \in Request : Ended(r) => \A d \in Dims : res[r][d] = "none"

\* The kinds of requests that use or cancel what is not set aside.
CutBy == [cpu |-> {"system", "resize"}, disk |-> {"system", "disk"}, eip |-> {"eipserver"}]

\* Overbooking and lost reservations have a handful of causes: system servers,
\* which cancel what they never set aside; the resize copy; the second
\* cancellation of a failed disk; the elastic IP of a new server, which is
\* allocated after its reservation is gone; a restart.
OverbookingCauses == restarts = 0 => \A d \in cut : \E r \in Request : kind[r] \in CutBy[d]

\* A value an administrator has set stays until somebody sets another, unless
\* two of them overlapped: the one that writes last brings back what it read.
UpdatesKept == ~overlap => StoredQuota = want
=============================================================================
