--------------------------- MODULE QuotaRequests ----------------------------
(***************************************************************************)
(* What every request of Quota leaves behind, for any number of requests   *)
(* and administrators and any number of restarts: TypeOK,                  *)
(* EndedHoldsNothing, OverbookingCauses and UpdatesKept.  The way of one   *)
(* request is followed through its handlers and tasks: where a request of  *)
(* each kind can be, what it holds there, and what its task has left to    *)
(* cancel.                                                                 *)
(***************************************************************************)
EXTENDS Quota, TLAPS

\* Provers: the default time limits, then longer ones.
USE SMT, Zenon, SMTT(60), ZenonT(60)

\* The tables of the model.
LEMMA Names ==
  /\ Dims = {"cpu", "disk", "eip"}
  /\ Servers = {"server", "eipserver", "system"}
  /\ Checks = {"check", "eipcheck"}
  /\ OnClass = Servers \cup {"disk", "eip"} \cup Checks
BY ZenonT(60) DEF Dims, Servers, Checks, OnClass

\* Which kinds may take what is not theirs.
LEMMA CutNames ==
  /\ CutBy["cpu"] = {"system", "resize"}
  /\ CutBy["disk"] = {"system", "disk"}
  /\ CutBy["eip"] = {"eipserver"}
BY DEF CutBy

\* What the request of each kind asks for.
LEMMA Asked ==
  ASSUME TypeOK, NEW r \in Request
  PROVE  /\ kind[r] \in {"server", "eipserver", "system", "check", "eip", "eipcheck", "disk",
                        "grow", "createdisk", "flavor", "resize"}
         /\ Wants[kind[r]] \subseteq Dims
         /\ "cpu" \in Wants[kind[r]] <=>
              kind[r] \in {"server", "eipserver", "system", "check", "flavor", "resize"}
         /\ "disk" \in Wants[kind[r]] <=>
              kind[r] \in {"server", "eipserver", "system", "check", "disk", "grow",
                          "createdisk", "resize"}
         /\ "eip" \in Wants[kind[r]] <=> kind[r] \in {"eipserver", "eip", "eipcheck"}
BY DEF TypeOK, Wants, Dims

\* Mark changes the reservations of one request in some dimensions,
LEMMA MarkAt ==
  ASSUME TypeOK, NEW r \in Request, NEW S, NEW how \in {"none", "open", "used"},
         Mark(r, S, how)
  PROVE  /\ res' \in [Request -> [Dims -> {"none", "open", "used"}]]
         /\ \A d \in Dims : res'[r][d] = IF d \in S THEN how ELSE res[r][d]
         /\ \A q \in Request : q # r => res'[q] = res[q]
BY DEF TypeOK, Mark

\* and Goto its place.
LEMMA GotoAt ==
  ASSUME TypeOK, NEW r \in Request, NEW to \in PCs, Goto(r, to)
  PROVE  /\ pc' \in [Request -> PCs]
         /\ pc'[r] = to
         /\ \A q \in Request : q # r => pc'[q] = pc[q]
BY ZenonT(60) DEF TypeOK, Goto

\* A row that is counted leaves every reservation as it is but an open one of
\* its dimension, which is used from now on.
LEMMA CountedAt ==
  ASSUME TypeOK, NEW r \in Request, NEW e \in Dims, Counted(r, e)
  PROVE  /\ res' \in [Request -> [Dims -> {"none", "open", "used"}]]
         /\ used' \in [Dims -> Nat] /\ cut' \subseteq Dims
         /\ \A d \in Dims : \/ res'[r][d] = res[r][d]
                            \/ d = e /\ res[r][d] = "open" /\ res'[r][d] = "used"
         /\ \A q \in Request : q # r => res'[q] = res[q]
         /\ \A d \in cut' : d \in cut \/ (d = e /\ res[r][d] # "open")
<1>1. PICK how \in {"none", "open", "used"} :
        Mark(r, {e}, how) /\ how = IF res[r][e] = "open" THEN "used" ELSE res[r][e]
  BY DEF Counted, TypeOK
<1>2. used' \in [Dims -> Nat] /\ cut' \subseteq Dims
  BY DEF Counted, TypeOK
<1>3. \A d \in cut' : d \in cut \/ (d = e /\ res[r][d] # "open")
  BY ZenonT(60) DEF Counted
<1>4. \A d \in Dims : res'[r][d] = IF d \in {e} THEN how ELSE res[r][d]
  BY <1>1, MarkAt
<1>5. \A d \in Dims : \/ res'[r][d] = res[r][d]
                      \/ d = e /\ res[r][d] = "open" /\ res'[r][d] = "used"
  <2> TAKE d \in Dims
  <2>1. CASE d = e
    BY <1>1, <1>4, <2>1, ZenonT(60)
  <2>2. CASE d # e
    BY <1>4, <2>2, ZenonT(60)
  <2> QED BY <2>1, <2>2
<1> QED BY <1>1, <1>2, <1>3, <1>5, MarkAt

\* A cancellation empties the reservations in its dimensions, and the usage in
\* them that was not set aside is known.
LEMMA CancelAt ==
  ASSUME TypeOK, NEW r \in Request, NEW S \in SUBSET Dims, CancelPendingUsage(r, S)
  PROVE  /\ res' \in [Request -> [Dims -> {"none", "open", "used"}]]
         /\ pend' \in [Dims -> Nat] /\ cut' \subseteq Dims
         /\ \A d \in Dims : res'[r][d] = IF d \in S THEN "none" ELSE res[r][d]
         /\ \A q \in Request : q # r => res'[q] = res[q]
         /\ \A d \in cut' : d \in cut \/ (d \in S /\ res[r][d] = "none")
<1>1. Mark(r, S, "none")
  BY DEF CancelPendingUsage
<1>2. pend' \in [Dims -> Nat] /\ cut' \subseteq Dims
  BY DEF CancelPendingUsage, Sub, Units, TypeOK
<1>3. \A d \in cut' : d \in cut \/ (d \in S /\ res[r][d] = "none")
  BY DEF CancelPendingUsage
<1> QED BY <1>1, <1>2, <1>3, MarkAt

\* Of one dimension,
LEMMA CancelOneAt ==
  ASSUME TypeOK, NEW r \in Request, NEW e \in Dims, CancelPendingUsage(r, {e})
  PROVE  /\ \A d \in Dims : res'[r][d] = IF d = e THEN "none" ELSE res[r][d]
         /\ \A q \in Request : q # r => res'[q] = res[q]
         /\ \A d \in cut' : d \in cut \/ (d = e /\ res[r][d] = "none")
<1>1. {e} \in SUBSET Dims /\ \A d : d \in {e} <=> d = e
  OBVIOUS
<1> HIDE DEF Dims
<1> QED BY <1>1, CancelAt

\* An abandoned request holds nothing.
LEMMA AbandonAt ==
  ASSUME TypeOK, NEW r \in Request, Abandon(r)
  PROVE  /\ res' \in [Request -> [Dims -> {"none", "open", "used"}]]
         /\ \A d \in Dims : res'[r][d] = "none"
         /\ \A q \in Request : q # r => res'[q] = res[q]
         /\ leak' \subseteq Dims /\ cut' = cut
<1>1. Mark(r, Dims, "none") /\ leak' \subseteq Dims /\ cut' = cut
  BY DEF Abandon, TypeOK
<1> QED BY <1>1, MarkAt

\* A task gets or releases its copy,
LEMMA CopyAt ==
  ASSUME TypeOK, NEW r \in Request, NEW c \in BOOLEAN, copy' = [copy EXCEPT ![r] = c]
  PROVE  copy'[r] = c /\ \A q \in Request : q # r => copy'[q] = copy[q]
BY DEF TypeOK

\* and loses its share in one dimension.
LEMMA LocalAt ==
  ASSUME TypeOK, NEW r \in Request, NEW e \in Dims, Save(r, e)
  PROVE  /\ \A d \in Dims : local'[r][d] = IF d = e THEN 0 ELSE local[r][d]
         /\ \A q \in Request : q # r => local'[q] = local[q]
BY DEF TypeOK, Save

\* A new task has what the request asks for.
LEMMA ShareAt ==
  ASSUME TypeOK, NEW r \in Request, local' = [local EXCEPT ![r] = Units(Wants[kind[r]])]
  PROVE  /\ \A d \in Dims : local'[r][d] = IF d \in Wants[kind[r]] THEN 1 ELSE 0
         /\ \A q \in Request : q # r => local'[q] = local[q]
BY DEF TypeOK, Units

-----------------------------------------------------------------------------
(***************************************************************************)
(* The invariant of one request.                                           *)
(***************************************************************************)
Before == {"idle", "validate", "check"}
Tasked == {"queued", "sched", "hosted", "alloc", "release", "resize"}

\* The places a request of a kind comes to.
OnRoute(r) ==
  /\ pc[r] = "insert" => kind[r] \in OnClass
  /\ pc[r] = "complete" => kind[r] \notin Checks \cup {"createdisk"}
  /\ pc[r] \in {"queued", "sched"} => kind[r] \in Servers \cup {"disk"}
  /\ pc[r] = "hosted" => kind[r] \in Servers
  /\ pc[r] = "alloc" => kind[r] \in Servers \cup {"createdisk"}
  /\ pc[r] = "resize" => kind[r] \in {"grow", "resize"}
  /\ pc[r] \in {"change", "changed"} => kind[r] \in {"flavor", "resize"}
  /\ pc[r] = "building" => kind[r] = "eipserver"
  /\ copy[r] => kind[r] = "resize" /\ pc[r] \in {"change", "changed", "failed", "done"}

\* Whatever is reserved for a request is among what its task, its handler or the
\* copy will cancel.
Accounted(r) ==
  /\ \A d \in Dims : res[r][d] # "none" => d \in Wants[kind[r]]
  /\ pc[r] \in Before => \A d \in Dims : res[r][d] = "none"
  /\ pc[r] \in Tasked => \A d \in Dims : res[r][d] # "none" => local[r][d] = 1
  /\ pc[r] \in {"change", "changed"} /\ ~copy[r] =>
       \A d \in Dims : res[r][d] # "none" => d = "cpu"
  /\ pc[r] \in {"building", "failed", "done"} /\ ~copy[r] =>
       \A d \in Dims : res[r][d] = "none"

\* What a handler, a task or the copy is to use or cancel next is reserved, but
\* for system servers and for the cpu of a task whose copy has been released.
SetAside(r) ==
  /\ pc[r] \in {"insert", "complete", "queued", "sched"} /\ kind[r] # "system" =>
       \A d \in Wants[kind[r]] :
         \/ res[r][d] = "open"
         \/ res[r][d] = "used" /\ kind[r] \in {"disk", "eip"} /\ pc[r] # "insert"
  /\ pc[r] = "hosted" /\ kind[r] # "system" => res[r]["cpu"] # "none"
  /\ pc[r] \in {"hosted", "alloc"} /\ kind[r] # "system" => res[r]["disk"] = "open"
  /\ pc[r] = "resize" => \A d \in Wants[kind[r]] : res[r][d] = "open"
  /\ pc[r] = "change" /\ kind[r] = "flavor" => res[r]["cpu"] = "open"
  /\ pc[r] = "changed" /\ kind[r] = "flavor" => res[r]["cpu"] # "none"
  /\ copy[r] => res[r]["disk"] # "none"

\* What a task will release at its end is reserved, but for system servers and
\* the disk that a failed SaveScheduleResult has cancelled before.
Backed(r) ==
  pc[r] \in Tasked => \A d \in Dims : local[r][d] = 1 =>
    d \in Wants[kind[r]] /\ (res[r][d] # "none" \/ kind[r] \in {"system", "disk"})

Sound(r) == OnRoute(r) /\ Accounted(r) /\ (restarts = 0 => SetAside(r) /\ Backed(r))

\* A step of one request leaves the others alone,
Alone(r) ==
  /\ kind' = kind /\ restarts' = restarts
  /\ \A q \in Request : q # r =>
       pc'[q] = pc[q] /\ local'[q] = local[q] /\ res'[q] = res[q] /\ copy'[q] = copy[q]

\* and cuts only what its kind is known to cut.
Blamed(r) == restarts = 0 => \A d \in cut' : d \in cut \/ kind[r] \in CutBy[d]

Keeps(r) == Sound(r)' /\ Alone(r) /\ Blamed(r)

\* The moves of the steps that touch no reservation,
QuietMove(r, to) ==
  \/ pc[r] = "idle" /\ to = "validate"
  \/ pc[r] = "validate" /\ to = "check"
  \/ pc[r] = "validate" /\ to = "insert" /\ kind[r] = "system"
  \/ pc[r] = "check" /\ to = "done"
  \/ pc[r] = "queued" /\ to = "sched"
  \/ pc[r] \in {"sched", "alloc", "resize"} /\ to = "release"
  \/ pc[r] = "building" /\ to = "done"

\* of a new task,
TaskMove(r, to) ==
  /\ pc[r] = "complete"
  /\ kind[r] \in Servers \cup {"disk"} => to = "queued"
  /\ kind[r] = "eip" => to = "release"
  /\ kind[r] \in {"grow", "resize"} => to = "resize"
  /\ kind[r] \notin Servers \cup {"disk", "eip", "grow", "resize"} => to = "change"

\* of an admission,
AdmitMove(r, to) ==
  /\ pc[r] = "check"
  /\ to = IF kind[r] = "createdisk" THEN "alloc"
          ELSE IF kind[r] \in OnClass THEN "insert" ELSE "complete"

\* of a row that is counted, with the dimension it is counted in,
CountMove(r, to) ==
  \/ pc[r] = "insert" /\ to = "complete" /\ kind[r] \notin Checks
  \/ pc[r] = "sched" /\ to = "hosted" /\ kind[r] \in Servers
  \/ pc[r] = "building" /\ to = "done"
  \/ pc[r] = "resize" /\ to = "release"
  \/ pc[r] = "resize" /\ to = "change" /\ kind[r] = "resize"
  \/ pc[r] = "change" /\ to = "changed"

Row(r, d) ==
  /\ pc[r] = "insert" => d \in Wants[kind[r]] /\ kind[r] \notin Servers
  /\ pc[r] = "sched" => d = "cpu" /\ kind[r] # "system"
  /\ pc[r] = "building" => d = "eip"
  /\ pc[r] = "resize" => d = "disk"
  /\ pc[r] = "change" => d = "cpu"

Rows(r) ==
  /\ \A d \in Dims : \/ res'[r][d] = res[r][d]
                     \/ res[r][d] = "open" /\ res'[r][d] = "used" /\ Row(r, d)
  /\ \A q \in Request : q # r => res'[q] = res[q]
  /\ \A d \in cut' : d \in cut \/ (d \in Dims /\ res[r][d] # "open" /\ Row(r, d))

\* of a cancellation in one dimension, and of a request that is left alone.
CancelMove(r, to, e) ==
  \/ pc[r] = "hosted" /\ to = "alloc" /\ e = "cpu"
  \/ pc[r] = "sched" /\ kind[r] = "disk" /\ to = "release" /\ e = "disk"
  \/ pc[r] = "changed" /\ to = "done" /\ e = "cpu"
  \/ pc[r] = "alloc" /\ to = (IF kind[r] = "createdisk" THEN "done" ELSE "release") /\ e = "disk"

AbandonMove(r, to) ==
  pc[r] \in {"insert", "complete", "change"} /\ to \in {"done", "failed"}

\* The rows that are counted.
LEMMA CountSteps ==
  ASSUME TypeOK, NEW r \in Request,
         OnRoute(r), Accounted(r), restarts = 0 => SetAside(r) /\ Backed(r),
         \/ Insert(r) \/ ToHost(r) \/ GuestBuilt(r) \/ ResizeDone(r) \/ ChangeCpu(r)
  PROVE  Keeps(r)
<1>1. /\ CountMove(r, pc'[r]) /\ kind' = kind /\ local' = local /\ restarts' = restarts
      /\ \A q \in Request : q # r => pc'[q] = pc[q]
      /\ \/ copy' = copy /\ ~(pc[r] = "resize" /\ pc'[r] = "change")
         \/ copy' = [copy EXCEPT ![r] = TRUE] /\ pc[r] = "resize" /\ pc'[r] = "change"
  <2>1. PICK to \in PCs :
          /\ CountMove(r, to) /\ Goto(r, to) /\ UNCHANGED <<kind, restarts, local>>
          /\ \/ copy' = copy /\ ~(pc[r] = "resize" /\ to = "change")
             \/ copy' = [copy EXCEPT ![r] = TRUE] /\ pc[r] = "resize" /\ to = "change"
    BY Names DEF Insert, ToHost, GuestBuilt, ResizeDone, ChangeCpu, CountMove, PCs
  <2> QED BY <2>1, GotoAt, ZenonT(60)
<1>2. /\ copy'[r] <=> copy[r] \/ (pc[r] = "resize" /\ pc'[r] = "change")
      /\ \A q \in Request : q # r => copy'[q] = copy[q]
  BY <1>1, CopyAt, ZenonT(60)
<1>3. Rows(r)
  <2>1. \/ res' = res /\ cut' = cut
        \/ \E e \in Dims : Counted(r, e) /\ Row(r, e)
    BY Asked, Names DEF Insert, ToHost, GuestBuilt, ResizeDone, ChangeCpu, Row
  <2>2. ASSUME NEW e \in Dims, Counted(r, e), Row(r, e)  PROVE Rows(r)
    <3>1. /\ \A d \in Dims : \/ res'[r][d] = res[r][d]
                             \/ d = e /\ res[r][d] = "open" /\ res'[r][d] = "used"
          /\ \A q \in Request : q # r => res'[q] = res[q]
          /\ \A d \in cut' : d \in cut \/ (d = e /\ res[r][d] # "open")
      BY <2>2, CountedAt, ZenonT(60)
    <3> QED BY <2>2, <3>1, ZenonT(60) DEF Rows
  <2>3. CASE res' = res /\ cut' = cut
    BY <2>3, ZenonT(60) DEF Rows
  <2> QED BY <2>1, <2>2, <2>3, ZenonT(60)
<1>4. \A d \in Dims : res'[r][d] = "none" <=> res[r][d] = "none"
  BY <1>3, ZenonT(60) DEF Rows
<1>5. OnRoute(r)'
  BY <1>1, <1>2, Asked, Names, ZenonT(60) DEF CountMove, OnRoute
<1>6. Accounted(r)'
  BY <1>1, <1>2, <1>4, Asked, Names DEF CountMove, OnRoute, Accounted, Before, Tasked
<1>7. ASSUME restarts = 0  PROVE SetAside(r)'
  BY <1>1, <1>2, <1>3, <1>7, Asked, Names DEF CountMove, Rows, Row, OnRoute, SetAside
<1>8. ASSUME restarts = 0  PROVE Backed(r)'
  BY <1>1, <1>4, <1>8, ZenonT(60) DEF CountMove, Backed, Tasked
<1>9. Blamed(r)
  BY <1>1, <1>3, Asked, Names DEF CountMove, Rows, Row, OnRoute, SetAside, Blamed, CutBy
<1>10. Alone(r)
  BY <1>1, <1>2, <1>3, ZenonT(60) DEF Rows, Alone
<1> QED BY <1>1, <1>5, <1>6, <1>7, <1>8, <1>9, <1>10, ZenonT(60) DEF Keeps, Sound

\* The steps that touch no reservation.
LEMMA QuietSteps ==
  ASSUME TypeOK, NEW r \in Request,
         OnRoute(r), Accounted(r), restarts = 0 => SetAside(r) /\ Backed(r),
         \/ Arrive(r) \/ ReadUsage(r) \/ SkipCheck(r) \/ Refuse(r) \/ StartTask(r)
         \/ ScheduleFails(r) \/ AllocFails(r) \/ GuestFails(r) \/ ResizeFails(r)
  PROVE  Keeps(r)
<1>1. PICK to \in PCs :
        /\ QuietMove(r, to) /\ pc'[r] = to /\ Alone(r)
        /\ kind' = kind /\ local' = local /\ copy' = copy /\ res' = res /\ cut' = cut
  <2>1. PICK to \in PCs : /\ QuietMove(r, to) /\ Goto(r, to)
                          /\ UNCHANGED <<kind, restarts, local, copy, res, cut>>
    BY Names, ZenonT(60) DEF Arrive, ReadUsage, SkipCheck, Refuse, StartTask, ScheduleFails,
       AllocFails, GuestFails, ResizeFails, hist, QuietMove, PCs
  <2> QED BY <2>1, GotoAt, ZenonT(60) DEF Alone
<1>2. OnRoute(r)'
  BY <1>1, Asked, Names, ZenonT(60) DEF QuietMove, OnRoute
<1>3. Accounted(r)'
  BY <1>1, Asked, Names, ZenonT(60) DEF QuietMove, OnRoute, Accounted, Before, Tasked
<1>4. ASSUME restarts = 0  PROVE SetAside(r)'
  BY <1>1, <1>4, Asked, Names, ZenonT(60) DEF QuietMove, OnRoute, SetAside
<1>5. ASSUME restarts = 0  PROVE Backed(r)'
  BY <1>1, <1>5, Asked, Names, ZenonT(60) DEF QuietMove, OnRoute, SetAside, Backed, Tasked
<1>6. Blamed(r)
  BY <1>1, ZenonT(60) DEF Blamed
<1> QED BY <1>1, <1>2, <1>3, <1>4, <1>5, <1>6, ZenonT(60) DEF Keeps, Sound, Alone

\* What is pending becomes the share of a new task.
LEMMA TaskStep ==
  ASSUME TypeOK, NEW r \in Request,
         OnRoute(r), Accounted(r), restarts = 0 => SetAside(r) /\ Backed(r),
         NewTask(r)
  PROVE  Keeps(r)
<1>1. PICK to \in PCs :
        /\ TaskMove(r, to) /\ pc'[r] = to /\ Alone(r)
        /\ \A d \in Dims : local'[r][d] = IF d \in Wants[kind[r]] THEN 1 ELSE 0
        /\ kind' = kind /\ copy' = copy /\ res' = res /\ cut' = cut
  <2>1. PICK to \in PCs : /\ TaskMove(r, to) /\ Goto(r, to)
                          /\ UNCHANGED <<kind, restarts, copy, res, cut>>
    BY Names, ZenonT(60) DEF NewTask, hist, TaskMove, PCs
  <2>2. /\ \A d \in Dims : local'[r][d] = IF d \in Wants[kind[r]] THEN 1 ELSE 0
        /\ \A q \in Request : q # r => local'[q] = local[q]
    BY ShareAt, ZenonT(60) DEF NewTask
  <2> QED BY <2>1, <2>2, GotoAt, ZenonT(60) DEF Alone
<1>2. OnRoute(r)'
  BY <1>1, Asked, Names, ZenonT(60) DEF TaskMove, OnRoute
<1>3. Accounted(r)'
  BY <1>1, Asked, Names DEF TaskMove, OnRoute, Accounted, Before, Tasked
<1>4. ASSUME restarts = 0  PROVE SetAside(r)'
  BY <1>1, <1>4, Asked, Names, ZenonT(60) DEF TaskMove, OnRoute, SetAside
<1>5. ASSUME restarts = 0  PROVE Backed(r)'
  BY <1>1, <1>5, Asked, Names DEF TaskMove, OnRoute, SetAside, Backed, Tasked
<1>6. Blamed(r)
  BY <1>1, ZenonT(60) DEF Blamed
<1> QED BY <1>1, <1>2, <1>3, <1>4, <1>5, <1>6, ZenonT(60) DEF Keeps, Sound, Alone

\* The reservation of an admitted request.
LEMMA AdmitStep ==
  ASSUME TypeOK, NEW r \in Request,
         OnRoute(r), Accounted(r), restarts = 0 => SetAside(r) /\ Backed(r),
         Admit(r)
  PROVE  Keeps(r)
<1>1. PICK to \in PCs :
        /\ AdmitMove(r, to) /\ pc'[r] = to /\ Alone(r)
        /\ to = "alloc" => \A d \in Dims : local'[r][d] = IF d \in Wants[kind[r]] THEN 1 ELSE 0
        /\ \A d \in Dims : res'[r][d] = IF d \in Wants[kind[r]] THEN "open" ELSE res[r][d]
        /\ kind' = kind /\ copy' = copy /\ cut' = cut
  <2>1. PICK to \in PCs :
          /\ AdmitMove(r, to) /\ Goto(r, to) /\ UNCHANGED <<kind, restarts, copy, cut>>
          /\ IF to = "alloc" THEN local' = [local EXCEPT ![r] = Units(Wants[kind[r]])]
                             ELSE local' = local
          /\ Mark(r, Wants[kind[r]], "open")
    BY Names, ZenonT(60) DEF Admit, AdmitMove, PCs
  <2>2. /\ \A d \in Dims : res'[r][d] = IF d \in Wants[kind[r]] THEN "open" ELSE res[r][d]
        /\ \A q \in Request : q # r => res'[q] = res[q]
    BY <2>1, MarkAt, ZenonT(60)
  <2>3. /\ to = "alloc" => \A d \in Dims : local'[r][d] = IF d \in Wants[kind[r]] THEN 1 ELSE 0
        /\ \A q \in Request : q # r => local'[q] = local[q]
    BY <2>1, ShareAt, ZenonT(60)
  <2> QED BY <2>1, <2>2, <2>3, GotoAt, ZenonT(60) DEF Alone
<1>2. OnRoute(r)'
  BY <1>1, Asked, Names DEF AdmitMove, OnRoute
<1>3. Accounted(r)'
  BY <1>1, Asked, Names DEF AdmitMove, OnRoute, Accounted, Before, Tasked
<1>4. ASSUME restarts = 0  PROVE SetAside(r)'
  BY <1>1, <1>4, Asked, Names DEF AdmitMove, OnRoute, SetAside
<1>5. ASSUME restarts = 0  PROVE Backed(r)'
  BY <1>1, <1>5, Asked, Names DEF AdmitMove, OnRoute, SetAside, Backed, Tasked
<1>6. Blamed(r)
  BY <1>1, ZenonT(60) DEF Blamed
<1> QED BY <1>1, <1>2, <1>3, <1>4, <1>5, <1>6, ZenonT(60) DEF Keeps, Sound, Alone

-----------------------------------------------------------------------------
\* The types of the usage and the reservations after a step of a request,
LEMMA TypeOfUsage ==
  ASSUME TypeOK, NEW r \in Request, Step(r)
  PROVE  /\ used' \in [Dims -> Nat] /\ pend' \in [Dims -> Nat]
         /\ res' \in [Request -> [Dims -> {"none", "open", "used"}]]
         /\ cut' \subseteq Dims /\ leak' \subseteq Dims
<1>1. CASE \/ Arrive(r) \/ ReadUsage(r) \/ SkipCheck(r) \/ Refuse(r) \/ NewTask(r)
           \/ StartTask(r) \/ ScheduleFails(r) \/ AllocFails(r) \/ GuestFails(r)
           \/ ResizeFails(r)
  BY <1>1, ZenonT(60) DEF Arrive, ReadUsage, SkipCheck, Refuse, NewTask, StartTask,
     ScheduleFails, AllocFails, GuestFails, ResizeFails, db, hist, TypeOK
<1>2. CASE Admit(r)
  <2>1. Mark(r, Wants[kind[r]], "open") /\ UNCHANGED <<used, cut, leak>>
    BY <1>2, ZenonT(60) DEF Admit, db
  <2>2. pend' \in [Dims -> Nat]
    BY <1>2 DEF Admit, Add, Units, TypeOK
  <2> QED BY <2>1, <2>2, MarkAt, ZenonT(60) DEF TypeOK
<1>3. CASE \/ Insert(r) \/ ToHost(r) \/ GuestBuilt(r) \/ ResizeDone(r) \/ ChangeCpu(r)
  <2>1. UNCHANGED <<pend, leak>>
    BY <1>3, ZenonT(60) DEF Insert, ToHost, GuestBuilt, ResizeDone, ChangeCpu
  <2>2. UNCHANGED <<used, res, cut>> \/ \E e \in Dims : Counted(r, e)
    <3>1. Insert(r) => UNCHANGED <<used, res, cut>> \/ \E e \in Wants[kind[r]] : Counted(r, e)
      BY ZenonT(60) DEF Insert
    <3>2. ~Insert(r) => UNCHANGED <<used, res, cut>> \/ \E e \in Dims : Counted(r, e)
      BY <1>3, ZenonT(60) DEF ToHost, GuestBuilt, ResizeDone, ChangeCpu, Dims
    <3> QED BY <3>1, <3>2, Asked, ZenonT(60)
  <2> QED BY <2>1, <2>2, CountedAt DEF TypeOK
<1>4. CASE \/ CancelCpu(r) \/ StartCreateDisk(r) \/ SetStorageFails(r) \/ Release(r)
           \/ ReleaseCopy(r) \/ CancelChange(r)
  <2>1. UNCHANGED <<used, leak>>
    BY <1>4 DEF CancelCpu, StartCreateDisk, SetStorageFails, Release, ReleaseCopy,
       CancelChange, CancelPendingUsage, db
  <2>2. PICK S \in SUBSET Dims : CancelPendingUsage(r, S)
    BY <1>4, Asked, ZenonT(60) DEF CancelCpu, StartCreateDisk, SetStorageFails, Release,
       ReleaseCopy, CancelChange, Dims
  <2> QED BY <2>1, <2>2, CancelAt, ZenonT(60) DEF TypeOK
<1>5. CASE AllocDisk(r)
  <2>1. Mark(r, {"disk"}, "none") /\ leak' = leak
    BY <1>5 DEF AllocDisk
  <2>2. cut' \subseteq Dims
    BY <1>5, ZenonT(60) DEF AllocDisk, TypeOK, Dims
  <2>3. used' \in [Dims -> Nat] /\ pend' \in [Dims -> Nat]
    BY <1>5 DEF AllocDisk, Sub, Units, TypeOK, Dims
  <2> QED BY <2>1, <2>2, <2>3, MarkAt, ZenonT(60) DEF TypeOK
<1>6. CASE NotInserted(r) \/ NoTask(r) \/ ConfigFails(r)
  <2>1. UNCHANGED <<used, pend>> /\ (UNCHANGED <<res, cut, leak>> \/ Abandon(r))
    BY <1>6, ZenonT(60) DEF NotInserted, NoTask, ConfigFails, db, hist
  <2> QED BY <2>1, AbandonAt DEF TypeOK
<1> QED BY <1>1, <1>2, <1>3, <1>4, <1>5, <1>6 DEF Step

\* of its place and the locks,
LEMMA TypeOfRequest ==
  ASSUME TypeOK, NEW r \in Request, Step(r)
  PROVE  /\ pc' \in [Request -> PCs]
         /\ seen' \in [Request -> [Dims -> Nat]]
         /\ lock' \in Request \cup {Nobody}
         /\ class' \in [Classes -> Request \cup {Nobody}]
<1>1. CASE ReadUsage(r) \/ Refuse(r) \/ Admit(r)
  <2>1. pc' = pc \/ \E to \in PCs : Goto(r, to)
    BY <1>1, ZenonT(60) DEF ReadUsage, Refuse, Admit, PCs
  <2>2. seen' \in [Request -> [Dims -> Nat]]
    <3>1. \E v \in [Dims -> Nat] : seen' = [seen EXCEPT ![r] = v]
      <4>1. used \in [Dims -> Nat] /\ Zero \in [Dims -> Nat]
        BY ZenonT(60) DEF TypeOK, Zero
      <4> QED BY <1>1, <4>1, ZenonT(60) DEF ReadUsage, Refuse, Admit
    <3> QED BY <3>1 DEF TypeOK
  <2>3. lock' \in Request \cup {Nobody}
    BY <1>1 DEF ReadUsage, Refuse, Admit, Lock, Unlock, TypeOK
  <2>4. class' = class \/ LeaveClass(r)
    BY <1>1, ZenonT(60) DEF ReadUsage, Refuse, Admit
  <2> QED BY <2>1, <2>2, <2>3, <2>4, GotoAt, ZenonT(60) DEF LeaveClass, TypeOK
<1>2. CASE \/ Arrive(r) \/ SkipCheck(r) \/ Insert(r) \/ NotInserted(r) \/ NewTask(r)
           \/ NoTask(r) \/ StartTask(r)
  <2>1. \E to \in PCs : Goto(r, to)
    BY <1>2, ZenonT(60) DEF Arrive, SkipCheck, Insert, NotInserted, NewTask, NoTask,
       StartTask, PCs
  <2>2. UNCHANGED <<seen, lock>>
    BY <1>2, ZenonT(60) DEF Arrive, SkipCheck, Insert, NotInserted, NewTask, NoTask, StartTask
  <2>3. class' = class \/ LeaveClass(r) \/ EnterClass(r, ClassOf(kind[r]))
    BY <1>2, ZenonT(60) DEF Arrive, SkipCheck, Insert, NotInserted, NewTask, NoTask, StartTask
  <2>4. class' \in [Classes -> Request \cup {Nobody}]
    <3>1. class \in [Classes -> Request \cup {Nobody}]
      BY DEF TypeOK
    <3>2. LeaveClass(r) => class' \in [Classes -> Request \cup {Nobody}]
      BY <3>1, ZenonT(60) DEF LeaveClass
    <3>3. \A c : EnterClass(r, c) => class' \in [Classes -> Request \cup {Nobody}]
      BY <3>1 DEF EnterClass
    <3> QED BY <2>3, <3>1, <3>2, <3>3, ZenonT(60)
  <2> QED BY <2>1, <2>2, <2>4, GotoAt DEF TypeOK
<1>3. CASE \/ ScheduleFails(r) \/ ToHost(r) \/ CancelCpu(r) \/ AllocDisk(r) \/ AllocFails(r)
           \/ StartCreateDisk(r) \/ SetStorageFails(r) \/ Release(r)
  <2>1. \E to \in PCs : Goto(r, to)
    BY <1>3, ZenonT(60) DEF ScheduleFails, ToHost, CancelCpu, AllocDisk, AllocFails,
       StartCreateDisk, SetStorageFails, Release, PCs
  <2>2. UNCHANGED <<seen, lock>>
    BY <1>3, ZenonT(60) DEF ScheduleFails, ToHost, CancelCpu, AllocDisk, AllocFails,
       StartCreateDisk, SetStorageFails, Release
  <2>3. class' = class \/ LeaveClass(r)
    BY <1>3, ZenonT(60) DEF ScheduleFails, ToHost, CancelCpu, AllocDisk, AllocFails,
       StartCreateDisk, SetStorageFails, Release
  <2> QED BY <2>1, <2>2, <2>3, GotoAt, ZenonT(60) DEF LeaveClass, TypeOK
<1>4. CASE \/ GuestBuilt(r) \/ GuestFails(r) \/ ResizeDone(r) \/ ResizeFails(r)
           \/ ReleaseCopy(r) \/ ChangeCpu(r) \/ CancelChange(r) \/ ConfigFails(r)
  <2>1. pc' = pc \/ \E to \in PCs : Goto(r, to)
    BY <1>4, ZenonT(60) DEF GuestBuilt, GuestFails, ResizeDone, ResizeFails, ReleaseCopy,
       ChangeCpu, CancelChange, ConfigFails, PCs
  <2>2. UNCHANGED <<seen, lock, class>>
    BY <1>4, ZenonT(60) DEF GuestBuilt, GuestFails, ResizeDone, ResizeFails, ReleaseCopy,
       ChangeCpu, CancelChange, ConfigFails
  <2> QED BY <2>1, <2>2, GotoAt, ZenonT(60) DEF TypeOK
<1> QED BY <1>1, <1>2, <1>3, <1>4, ZenonT(60) DEF Step

\* and of what its task has; what administrators do is left alone.
LEMMA TypeOfTask ==
  ASSUME TypeOK, NEW r \in Request, Step(r)
  PROVE  /\ local' \in [Request -> [Dims -> {0, 1}]]
         /\ copy' \in [Request -> BOOLEAN]
         /\ UNCHANGED <<quota, kind, restarts, adm>>
<1>1. CASE \/ Arrive(r) \/ ReadUsage(r) \/ SkipCheck(r) \/ Refuse(r) \/ Insert(r)
           \/ NotInserted(r) \/ NoTask(r) \/ StartTask(r) \/ ScheduleFails(r) \/ ToHost(r)
           \/ AllocFails(r) \/ SetStorageFails(r)
  BY <1>1, ZenonT(60) DEF Arrive, ReadUsage, SkipCheck, Refuse, Insert, NotInserted, NoTask,
     StartTask, ScheduleFails, ToHost, AllocFails, SetStorageFails, db, TypeOK
<1>2. CASE \/ GuestBuilt(r) \/ GuestFails(r) \/ ResizeFails(r) \/ ChangeCpu(r) \/ ConfigFails(r)
  BY <1>2, ZenonT(60) DEF GuestBuilt, GuestFails, ResizeFails, ChangeCpu, ConfigFails, db,
     TypeOK
<1>3. CASE Admit(r) \/ NewTask(r) \/ CancelCpu(r) \/ AllocDisk(r) \/ StartCreateDisk(r)
          \/ Release(r) \/ CancelChange(r)
  <2>1. UNCHANGED <<quota, kind, restarts, adm, copy>>
    BY <1>3, ZenonT(60) DEF Admit, NewTask, CancelCpu, AllocDisk, StartCreateDisk, Release,
       CancelChange, db
  <2>2. \/ local' = local \/ local' = [local EXCEPT ![r] = Units(Wants[kind[r]])]
        \/ local' = [local EXCEPT ![r] = Zero]
        \/ local' = [local EXCEPT ![r]["cpu"] = 0] \/ local' = [local EXCEPT ![r]["disk"] = 0]
    BY <1>3, ZenonT(60) DEF Admit, NewTask, CancelCpu, AllocDisk, StartCreateDisk, Release,
       CancelChange, Save
  <2>3. local' \in [Request -> [Dims -> {0, 1}]]
    <3>1. Units(Wants[kind[r]]) \in [Dims -> {0, 1}] /\ Zero \in [Dims -> {0, 1}]
      BY ZenonT(60) DEF Units, Zero
    <3>2. /\ [local[r] EXCEPT !["cpu"] = 0] \in [Dims -> {0, 1}]
          /\ [local[r] EXCEPT !["disk"] = 0] \in [Dims -> {0, 1}]
      <4>1. local[r] \in [Dims -> {0, 1}]
        BY ZenonT(60) DEF TypeOK
      <4>2. \A f \in [Dims -> {0, 1}], e \in Dims : [f EXCEPT ![e] = 0] \in [Dims -> {0, 1}]
        OBVIOUS
      <4> QED BY <4>1, <4>2, ZenonT(60) DEF Dims
    <3>3. local' = local \/ \E v \in [Dims -> {0, 1}] : local' = [local EXCEPT ![r] = v]
      BY <2>2, <3>1, <3>2, ZenonT(60)
    <3> QED BY <3>3, ZenonT(60) DEF TypeOK
  <2> QED BY <2>1, <2>3 DEF TypeOK
<1>4. CASE ResizeDone(r) \/ ReleaseCopy(r)
  <2>1. UNCHANGED <<quota, kind, restarts, adm, local>>
    BY <1>4, ZenonT(60) DEF ResizeDone, ReleaseCopy, db
  <2>2. copy' = copy \/ \E v \in BOOLEAN : copy' = [copy EXCEPT ![r] = v]
    BY <1>4, ZenonT(60) DEF ResizeDone, ReleaseCopy
  <2>3. copy' \in [Request -> BOOLEAN]
    BY <2>2, ZenonT(60) DEF TypeOK
  <2> QED BY <2>1, <2>3 DEF TypeOK
<1> QED BY <1>1, <1>2, <1>3, <1>4 DEF Step

\* A step of a request keeps the types.
LEMMA StepTypes == ASSUME TypeOK, NEW r \in Request, Step(r) PROVE TypeOK'
<1>1. UNCHANGED <<quota, kind, restarts, apc, oquota, lowered, want, overlap>>
  BY TypeOfTask DEF adm
<1> QED BY <1>1, TypeOfUsage, TypeOfRequest, TypeOfTask, ZenonT(60) DEF TypeOK


\* The reservation in one dimension is cancelled,
LEMMA CancelSteps ==
  ASSUME TypeOK, NEW r \in Request,
         OnRoute(r), Accounted(r), restarts = 0 => SetAside(r) /\ Backed(r),
         \/ CancelCpu(r) \/ StartCreateDisk(r) \/ SetStorageFails(r) \/ CancelChange(r)
         \/ AllocDisk(r)
  PROVE  Keeps(r)
<1>1. PICK to \in PCs, e \in Dims :
        /\ CancelMove(r, to, e) /\ pc'[r] = to /\ Alone(r)
        /\ \A d \in Dims : res'[r][d] = IF d = e THEN "none" ELSE res[r][d]
        /\ \A d \in cut' :
             \/ d \in cut
             \/ d = e /\ res[r][d] # "open" /\ (pc[r] = "alloc" \/ res[r][d] = "none")
        /\ \A d \in Dims : local'[r][d] = local[r][d] \/ (d = e /\ local'[r][d] = 0)
        /\ pc[r] # "sched" => local'[r][e] = 0
        /\ kind' = kind /\ copy' = copy
  <2>1. PICK to \in PCs, e \in Dims :
          /\ CancelMove(r, to, e) /\ Goto(r, to) /\ UNCHANGED <<kind, restarts, copy>>
          /\ Save(r, e) \/ (local' = local /\ pc[r] = "sched")
          /\ \/ CancelPendingUsage(r, {e})
             \/ /\ pc[r] = "alloc" /\ Mark(r, {e}, "none")
                /\ cut' = IF res[r][e] = "open" THEN cut ELSE cut \cup {e}
    BY Names DEF CancelCpu, StartCreateDisk, SetStorageFails, CancelChange, AllocDisk,
       CancelMove, PCs
  <2>2. /\ \A d \in Dims : res'[r][d] = IF d = e THEN "none" ELSE res[r][d]
        /\ \A q \in Request : q # r => res'[q] = res[q]
        /\ \A d \in cut' :
             \/ d \in cut
             \/ d = e /\ res[r][d] # "open" /\ (pc[r] = "alloc" \/ res[r][d] = "none")
    <3>1. CASE CancelPendingUsage(r, {e})
      BY <3>1, CancelOneAt, ZenonT(60)
    <3>2. CASE ~CancelPendingUsage(r, {e})
      <4>1. /\ \A d \in Dims : res'[r][d] = IF d \in {e} THEN "none" ELSE res[r][d]
            /\ \A q \in Request : q # r => res'[q] = res[q]
        BY <2>1, <3>2, MarkAt, ZenonT(60)
      <4> QED BY <2>1, <3>2, <4>1, ZenonT(60)
    <3> QED BY <3>1, <3>2, ZenonT(60)
  <2>3. /\ \A d \in Dims : local'[r][d] = local[r][d] \/ (d = e /\ local'[r][d] = 0)
        /\ pc[r] # "sched" => local'[r][e] = 0
        /\ \A q \in Request : q # r => local'[q] = local[q]
    BY <2>1, LocalAt, ZenonT(60)
  <2>4. pc'[r] = to /\ Alone(r)
    BY <2>1, <2>2, <2>3, GotoAt, ZenonT(60) DEF Alone
  <2> QED BY <2>1, <2>2, <2>3, <2>4
<1>2. OnRoute(r)'
  BY <1>1, Asked, Names, ZenonT(60) DEF CancelMove, OnRoute
<1>3. Accounted(r)'
  <2>1. \A d \in Dims : res'[r][d] # "none" => res[r][d] # "none" /\ d # e
    BY <1>1, ZenonT(60)
  <2>2. \A d \in Dims : res'[r][d] # "none" => d \in Wants[kind'[r]]
    BY <1>1, <2>1, ZenonT(60) DEF Accounted
  <2>3. CASE to \in {"alloc", "release"}
    <3>1. pc[r] \in Tasked
      BY <1>1, <2>3, ZenonT(60) DEF CancelMove, Tasked
    <3>2. \A d \in Dims : res'[r][d] # "none" => local'[r][d] = 1
      BY <1>1, <2>1, <3>1, ZenonT(60) DEF Accounted
    <3>3. pc'[r] \in {"alloc", "release"}
      BY <1>1, <2>3, ZenonT(60)
    <3> QED BY <2>2, <3>2, <3>3, ZenonT(60) DEF Accounted, Before
  <2>4. CASE to = "done"
    <3>1. (pc[r] = "changed" /\ e = "cpu") \/ (kind[r] = "createdisk" /\ e = "disk")
      BY <1>1, <2>4, ZenonT(60) DEF CancelMove
    <3>2. ASSUME ~copy[r], NEW d \in Dims  PROVE res'[r][d] = "none"
      BY <2>1, <3>1, <3>2, Asked, Names, ZenonT(60) DEF Accounted
    <3> QED BY <1>1, <2>2, <2>4, <3>2, ZenonT(60) DEF Accounted, Before, Tasked
  <2> QED BY <1>1, <2>3, <2>4, ZenonT(60) DEF CancelMove
<1>4. ASSUME restarts = 0  PROVE SetAside(r)'
  BY <1>1, <1>4, Asked, Names, ZenonT(60) DEF CancelMove, OnRoute, SetAside
<1>5. ASSUME restarts = 0  PROVE Backed(r)'
  <2> SUFFICES ASSUME pc'[r] \in Tasked, NEW d \in Dims, local'[r][d] = 1
               PROVE  d \in Wants[kind[r]] /\ (res'[r][d] # "none" \/ kind[r] \in {"system", "disk"})
    BY <1>1, ZenonT(60) DEF Backed
  <2>0. 0 # 1
    OBVIOUS
  <2>1. local[r][d] = 1 /\ (d = e => pc[r] = "sched")
    BY <1>1, <2>0, ZenonT(60)
  <2>2. pc[r] \in Tasked /\ (pc[r] = "sched" => kind[r] = "disk")
    BY <1>1, ZenonT(60) DEF CancelMove, Tasked
  <2>3. d \in Wants[kind[r]] /\ (res[r][d] # "none" \/ kind[r] \in {"system", "disk"})
    BY <1>5, <2>1, <2>2, ZenonT(60) DEF Backed
  <2> QED BY <1>1, <2>1, <2>2, <2>3, ZenonT(60)
<1>6. Blamed(r)
  <2> SUFFICES ASSUME restarts = 0, NEW d \in cut', d \notin cut  PROVE kind[r] \in CutBy[d]
    BY ZenonT(60) DEF Blamed
  <2>1. /\ SetAside(r) /\ CancelMove(r, to, e)
        /\ d = e /\ res[r][d] # "open" /\ (pc[r] = "alloc" \/ res[r][d] = "none")
    BY <1>1, ZenonT(60)
  <2>2. CASE pc[r] = "hosted" /\ e = "cpu"
    <3>1. kind[r] = "system"  BY <2>1, <2>2, ZenonT(60) DEF SetAside
    <3> QED BY <2>1, <2>2, <3>1, CutNames, ZenonT(60)
  <2>3. CASE pc[r] = "sched" /\ kind[r] = "disk" /\ e = "disk"
    BY <2>1, <2>3, CutNames, ZenonT(60)
  <2>4. CASE pc[r] = "changed" /\ e = "cpu"
    <3>1. kind[r] = "resize"  BY <2>1, <2>4, ZenonT(60) DEF SetAside, OnRoute
    <3> QED BY <2>1, <2>4, <3>1, CutNames, ZenonT(60)
  <2>5. CASE pc[r] = "alloc" /\ e = "disk"
    <3>1. kind[r] = "system"  BY <2>1, <2>5, ZenonT(60) DEF SetAside
    <3> QED BY <2>1, <2>5, <3>1, CutNames, ZenonT(60)
  <2> QED BY <2>1, <2>2, <2>3, <2>4, <2>5, ZenonT(60) DEF CancelMove
<1> QED BY <1>1, <1>2, <1>3, <1>4, <1>5, <1>6, ZenonT(60) DEF Keeps, Sound, Alone

\* or what is left to the task,
LEMMA ReleaseStep ==
  ASSUME TypeOK, NEW r \in Request,
         OnRoute(r), Accounted(r), restarts = 0 => SetAside(r) /\ Backed(r),
         Release(r)
  PROVE  Keeps(r)
<1>1. PICK to \in PCs :
        /\ pc[r] = "release" /\ pc'[r] = to /\ Alone(r)
        /\ to = "done" \/ (to = "building" /\ kind[r] = "eipserver")
        /\ \A d \in Dims : res'[r][d] = IF local[r][d] = 1 THEN "none" ELSE res[r][d]
        /\ \A d \in cut' : d \in cut \/ (d \in Dims /\ local[r][d] = 1 /\ res[r][d] = "none")
        /\ kind' = kind /\ copy' = copy
  <2>1. PICK to \in PCs :
          /\ Goto(r, to) /\ pc[r] = "release" /\ UNCHANGED <<kind, restarts, copy>>
          /\ to = "done" \/ (to = "building" /\ kind[r] = "eipserver")
          /\ local' = [local EXCEPT ![r] = Zero]
          /\ CancelPendingUsage(r, {d \in Dims : local[r][d] = 1})
    BY Names DEF Release, PCs
  <2>2. /\ \A d \in Dims : res'[r][d] = IF local[r][d] = 1 THEN "none" ELSE res[r][d]
        /\ \A q \in Request : q # r => res'[q] = res[q]
        /\ \A d \in cut' : d \in cut \/ (d \in Dims /\ local[r][d] = 1 /\ res[r][d] = "none")
    BY <2>1, CancelAt
  <2>3. \A q \in Request : q # r => local'[q] = local[q]
    BY <2>1 DEF TypeOK
  <2> QED BY <2>1, <2>2, <2>3, GotoAt, ZenonT(60) DEF Alone
<1>2. OnRoute(r)'
  BY <1>1, Asked, Names, ZenonT(60) DEF OnRoute
<1>3. Accounted(r)'
  <2>1. pc[r] \in Tasked
    BY <1>1, ZenonT(60) DEF Tasked
  <2>2. \A d \in Dims : res'[r][d] = "none"
    BY <1>1, <2>1, ZenonT(60) DEF Accounted
  <2> QED BY <2>2, ZenonT(60) DEF Accounted
<1>4. ASSUME restarts = 0  PROVE SetAside(r)'
  BY <1>1, <1>4, Asked, Names, ZenonT(60) DEF OnRoute, SetAside
<1>5. ASSUME restarts = 0  PROVE Backed(r)'
  BY <1>1, <1>5, Asked, Names, ZenonT(60) DEF OnRoute, SetAside, Backed, Tasked
<1>6. Blamed(r)
  <2>1. SUFFICES ASSUME restarts = 0, NEW d \in cut', d \notin cut  PROVE kind[r] \in CutBy[d]
    BY DEF Blamed
  <2>2. d \in Dims /\ d \in Wants[kind[r]] /\ kind[r] \in {"system", "disk"}
    BY <1>1, <2>1, ZenonT(60) DEF Backed, Tasked
  <2>3. CASE d = "cpu"
    <3>1. kind[r] = "system"  BY <2>2, <2>3, Asked
    <3> QED BY <2>3, <3>1, CutNames, ZenonT(60)
  <2>4. CASE d = "disk"
    BY <2>2, <2>4, CutNames, ZenonT(60)
  <2>5. CASE d = "eip"
    BY <2>2, <2>5, Asked
  <2> QED BY <2>2, <2>3, <2>4, <2>5, Names
<1> QED BY <1>1, <1>2, <1>3, <1>4, <1>5, <1>6, ZenonT(60) DEF Keeps, Sound, Alone

\* or what its copy has.
LEMMA CopyStep ==
  ASSUME TypeOK, NEW r \in Request,
         OnRoute(r), Accounted(r), restarts = 0 => SetAside(r) /\ Backed(r),
         ReleaseCopy(r)
  PROVE  Keeps(r)
<1>1. /\ copy[r] /\ copy'[r] = FALSE /\ Alone(r)
      /\ \A d \in Dims : res'[r][d] = IF d \in Wants[kind[r]] THEN "none" ELSE res[r][d]
      /\ \A d \in cut' : d \in cut \/ (d \in Wants[kind[r]] /\ res[r][d] = "none")
      /\ kind' = kind /\ pc' = pc /\ local' = local
  <2>1. /\ copy[r] /\ copy' = [copy EXCEPT ![r] = FALSE]
        /\ UNCHANGED <<kind, pc, restarts, local>>
        /\ CancelPendingUsage(r, Wants[kind[r]])
    BY ZenonT(60) DEF ReleaseCopy
  <2>2. /\ \A d \in Dims : res'[r][d] = IF d \in Wants[kind[r]] THEN "none" ELSE res[r][d]
        /\ \A q \in Request : q # r => res'[q] = res[q]
        /\ \A d \in cut' : d \in cut \/ (d \in Wants[kind[r]] /\ res[r][d] = "none")
    BY <2>1, CancelAt, Asked, Names
  <2>3. copy'[r] = FALSE /\ \A q \in Request : q # r => copy'[q] = copy[q]
    BY <2>1, CopyAt, ZenonT(60)
  <2> QED BY <2>1, <2>2, <2>3, ZenonT(60) DEF Alone
<1>2. OnRoute(r)'
  BY <1>1, Asked, Names, ZenonT(60) DEF OnRoute
<1>3. Accounted(r)'
  BY <1>1, Asked, Names DEF OnRoute, Accounted, Before, Tasked
<1>4. ASSUME restarts = 0  PROVE SetAside(r)'
  BY <1>1, <1>4, Asked, Names, ZenonT(60) DEF OnRoute, SetAside
<1>5. ASSUME restarts = 0  PROVE Backed(r)'
  BY <1>1, <1>5, Asked, Names DEF OnRoute, SetAside, Backed, Tasked
<1>6. Blamed(r)
  BY <1>1, Asked, Names DEF OnRoute, SetAside, Blamed, CutBy
<1> QED BY <1>1, <1>2, <1>3, <1>4, <1>5, <1>6, ZenonT(60) DEF Keeps, Sound, Alone

\* What is left behind.
LEMMA AbandonSteps ==
  ASSUME TypeOK, NEW r \in Request,
         OnRoute(r), Accounted(r), restarts = 0 => SetAside(r) /\ Backed(r),
         NotInserted(r) \/ NoTask(r) \/ ConfigFails(r)
  PROVE  Keeps(r)
<1>1. PICK to \in PCs :
        /\ AbandonMove(r, to) /\ pc'[r] = to /\ Alone(r)
        /\ ~copy[r] => \A d \in Dims : res'[r][d] = "none"
        /\ copy[r] => res'[r] = res[r]
        /\ kind' = kind /\ local' = local /\ copy' = copy /\ cut' = cut
  <2>1. PICK to \in PCs :
          /\ AbandonMove(r, to) /\ Goto(r, to) /\ UNCHANGED <<kind, restarts, local, copy>>
          /\ pc[r] # "change" \/ ~copy[r] => Abandon(r)
          /\ pc[r] = "change" /\ copy[r] => UNCHANGED <<res, cut>>
    BY Names, ZenonT(60) DEF NotInserted, NoTask, ConfigFails, hist, AbandonMove, PCs
  <2>2. copy[r] => pc[r] = "change"
    BY <2>1, ZenonT(60) DEF AbandonMove, OnRoute
  <2>3. /\ ~copy[r] => \A d \in Dims : res'[r][d] = "none"
        /\ copy[r] => res'[r] = res[r]
        /\ \A q \in Request : q # r => res'[q] = res[q]
        /\ cut' = cut
    BY <2>1, <2>2, AbandonAt, ZenonT(60)
  <2> QED BY <2>1, <2>3, GotoAt, ZenonT(60) DEF Alone
<1>2. OnRoute(r)'
  BY <1>1, Asked, Names, ZenonT(60) DEF AbandonMove, OnRoute
<1>3. Accounted(r)'
  <2>1. pc'[r] \in {"done", "failed"}
    BY <1>1, ZenonT(60) DEF AbandonMove
  <2>2. \A d \in Dims : res'[r][d] # "none" => d \in Wants[kind'[r]]
    BY <1>1, ZenonT(60) DEF Accounted
  <2>3. ~copy'[r] => \A d \in Dims : res'[r][d] = "none"
    BY <1>1, ZenonT(60)
  <2> QED BY <2>1, <2>2, <2>3, ZenonT(60) DEF Accounted, Before, Tasked
<1>4. ASSUME restarts = 0  PROVE SetAside(r)'
  BY <1>1, <1>4, Asked, Names, ZenonT(60) DEF AbandonMove, OnRoute, SetAside
<1>5. ASSUME restarts = 0  PROVE Backed(r)'
  BY <1>1, <1>5, Asked, Names, ZenonT(60) DEF AbandonMove, OnRoute, SetAside, Backed, Tasked
<1>6. Blamed(r)
  BY <1>1 DEF Blamed
<1> QED BY <1>1, <1>2, <1>3, <1>4, <1>5, <1>6, ZenonT(60) DEF Keeps, Sound, Alone

\* While nobody overlaps, an administrator that merges has read what is stored.
Merging ==
  ~overlap => /\ StoredQuota = want
              /\ \A a \in Admin : apc[a] = "merge" => oquota[a] = want

\* The invariant of the requests and administrators.
RInv ==
  /\ TypeOK
  /\ \A r \in Request : Sound(r)
  /\ OverbookingCauses
  /\ Merging

\* A step of a request keeps the invariant,
LEMMA RequestStep == ASSUME RInv, NEW r \in Request, Step(r) PROVE RInv'
<1>1. TypeOK /\ Sound(r)
  BY DEF RInv
<1>2. Sound(r)' /\ Alone(r) /\ Blamed(r)
  <2>1. OnRoute(r) /\ Accounted(r) /\ (restarts = 0 => SetAside(r) /\ Backed(r))
    BY <1>1, ZenonT(60) DEF Sound
  <2>2. Keeps(r)
    BY <1>1, <2>1, QuietSteps, TaskStep, AdmitStep, CountSteps, CancelSteps, ReleaseStep,
       CopyStep, AbandonSteps DEF Step
  <2> QED BY <2>2 DEF Keeps
<1>3. \A q \in Request : Sound(q)'
  <2> TAKE q \in Request
  <2>1. CASE q = r
    BY <1>2, <2>1, ZenonT(60)
  <2>2. CASE q # r
    <3>1. /\ pc'[q] = pc[q] /\ local'[q] = local[q] /\ res'[q] = res[q] /\ copy'[q] = copy[q]
          /\ kind'[q] = kind[q] /\ restarts' = restarts
      BY <1>2, <2>2, ZenonT(60) DEF Alone
    <3>2. OnRoute(q)' <=> OnRoute(q)
      BY <3>1, ZenonT(60) DEF OnRoute
    <3>3. Accounted(q)' <=> Accounted(q)
      BY <3>1, ZenonT(60) DEF Accounted
    <3>4. (SetAside(q)' <=> SetAside(q)) /\ (Backed(q)' <=> Backed(q))
      BY <3>1 DEF SetAside, Backed
    <3> QED BY <3>1, <3>2, <3>3, <3>4, ZenonT(60) DEF RInv, Sound
  <2> QED BY <2>1, <2>2
<1>4. OverbookingCauses'
  BY <1>2, ZenonT(60) DEF RInv, OverbookingCauses, Blamed, Alone
<1>5. Merging'
  BY <1>1, TypeOfTask, ZenonT(60) DEF RInv, Merging, StoredQuota, adm
<1> QED BY <1>1, <1>3, <1>4, <1>5, StepTypes DEF RInv

\* and so do deletions, administrators and restarts.
LEMMA OtherStep ==
  ASSUME RInv, \/ \E d \in Dims : Delete(d)
               \/ \E a \in Admin : ReadQuota(a) \/ SetQuota(a)
               \/ Restart
               \/ UNCHANGED vars
  PROVE  RInv'
<1>0. TypeOK
  BY ZenonT(60) DEF RInv
<1>1. ASSUME UNCHANGED <<pc, kind, local, copy, res, restarts, cut>>
      PROVE  (\A q \in Request : Sound(q)') /\ OverbookingCauses'
  <2>1. \A q \in Request : Sound(q)' <=> Sound(q)
    <3> TAKE q \in Request
    <3>1. OnRoute(q)' <=> OnRoute(q)
      BY <1>1, ZenonT(60) DEF OnRoute
    <3>2. Accounted(q)' <=> Accounted(q)
      BY <1>1, ZenonT(60) DEF Accounted
    <3>3. (SetAside(q)' <=> SetAside(q)) /\ (Backed(q)' <=> Backed(q))
      BY <1>1, ZenonT(60) DEF SetAside, Backed
    <3> QED BY <1>1, <3>1, <3>2, <3>3 DEF Sound
  <2> QED BY <1>1, <2>1, ZenonT(60) DEF RInv, OverbookingCauses
<1>2. ASSUME NEW d \in Dims, Delete(d)  PROVE RInv'
  <2>1. UNCHANGED <<quota, pend, lock, class, pc, kind, local, seen, copy, restarts, apc,
                    oquota, lowered, want, overlap, res, cut, leak>>
    BY <1>2 DEF Delete, req, adm, hist
  <2>2. used' \in [Dims -> Nat]
    <3>1. used \in [Dims -> Nat] /\ used[d] > 0 /\ used' = [used EXCEPT ![d] = used[d] - 1]
      BY <1>0, <1>2, ZenonT(60) DEF Delete, TypeOK
    <3>2. used[d] - 1 \in Nat
      BY <3>1
    <3> QED BY <3>1, <3>2, ZenonT(60)
  <2>3. TypeOK'
    BY <1>0, <2>1, <2>2, ZenonT(60) DEF TypeOK
  <2>4. Merging'
    BY <2>1, ZenonT(60) DEF RInv, Merging, StoredQuota
  <2> QED BY <1>1, <2>1, <2>3, <2>4, ZenonT(60) DEF RInv
<1>3. ASSUME NEW a \in Admin, ReadQuota(a)  PROVE RInv'
  <2>1. UNCHANGED <<quota, used, pend, lock, class, pc, kind, local, seen, copy, restarts,
                    lowered, want, overlap, res, cut, leak>>
    BY <1>3, ZenonT(60) DEF ReadQuota, db, req, hist
  <2>2. StoredQuota \in [Dims -> Nat]
    BY <1>0, QuotaAssumption, ZenonT(60) DEF TypeOK, StoredQuota
  <2>3. apc' = [apc EXCEPT ![a] = "merge"] /\ oquota' = [oquota EXCEPT ![a] = StoredQuota]
    BY <1>3, ZenonT(60) DEF ReadQuota
  <2>4. /\ apc' \in [Admin -> {"idle", "merge", "done"}]
        /\ oquota' \in [Admin -> [Dims -> Nat]]
    BY <1>0, <2>2, <2>3 DEF TypeOK
  <2>5. TypeOK'
    BY <1>0, <2>1, <2>4, ZenonT(60) DEF TypeOK
  <2>6. Merging'
    <3>1. StoredQuota' = StoredQuota
      BY <2>1, ZenonT(60) DEF StoredQuota
    <3>2. \A b \in Admin : b # a => apc'[b] = apc[b] /\ oquota'[b] = oquota[b]
      BY <1>0, <2>3, ZenonT(60) DEF TypeOK
    <3>3. oquota'[a] = StoredQuota
      BY <1>0, <2>3, ZenonT(60) DEF TypeOK
    <3> QED BY <2>1, <3>1, <3>2, <3>3, ZenonT(60) DEF RInv, Merging
  <2> QED BY <1>1, <2>1, <2>5, <2>6, ZenonT(60) DEF RInv
<1>4. ASSUME NEW a \in Admin, SetQuota(a)  PROVE RInv'
  <2>1. UNCHANGED <<used, pend, lock, class, pc, kind, local, seen, copy, restarts, res, cut, leak>>
    BY <1>4, ZenonT(60) DEF SetQuota, req, hist
  <2>2. /\ apc[a] = "merge" /\ apc' = [apc EXCEPT ![a] = "done"]
        /\ quota' = Merged(a) /\ oquota' = [oquota EXCEPT ![a] = Zero]
        /\ want' = [want EXCEPT ![Asks[a][1]] = Asks[a][2]]
        /\ overlap' = (overlap \/ \E b \in Admin \ {a} : apc[b] = "merge")
    BY <1>4, ZenonT(60) DEF SetQuota
  <2>3. Asks[a][1] \in Dims /\ Asks[a][2] \in Nat /\ Asks[a][2] # 0
    BY QuotaAssumption, ZenonT(60)
  <2>4. Merged(a) \in [Dims -> Nat] /\ Merged(a)[Asks[a][1]] = Asks[a][2]
    BY <1>0, <2>3, ZenonT(60) DEF Merged, TypeOK
  <2>5. StoredQuota' = Merged(a)
    BY <2>2, <2>3, <2>4 DEF StoredQuota, Zero
  <2>6. TypeOK'
    <3>1. want' \in [Dims -> Nat] /\ apc' \in [Admin -> {"idle", "merge", "done"}]
      BY <1>0, <2>2, <2>3, ZenonT(60) DEF TypeOK
    <3>2. oquota' \in [Admin -> [Dims -> Nat]]
      BY <1>0, <2>2 DEF TypeOK, Zero
    <3>3. lowered' \subseteq Dims
      BY <1>0, <1>4, ZenonT(60) DEF SetQuota, TypeOK
    <3>4. overlap' \in BOOLEAN
      BY <1>0, <2>2, ZenonT(60) DEF TypeOK
    <3> QED BY <1>0, <2>1, <2>2, <2>4, <3>1, <3>2, <3>3, <3>4, ZenonT(60) DEF TypeOK
  <2>7. Merging'
    <3> SUFFICES ASSUME ~overlap'
                 PROVE  StoredQuota' = want' /\ \A b \in Admin : apc'[b] # "merge"
      BY ZenonT(60) DEF Merging
    <3>1. ~overlap /\ \A b \in Admin : b # a => apc[b] # "merge"
      BY <2>2, ZenonT(60)
    <3>2. oquota[a] = want
      BY <2>2, <3>1, ZenonT(60) DEF RInv, Merging
    <3>3. \A b \in Admin : apc'[b] # "merge"
      BY <1>0, <2>2, <3>1, ZenonT(60) DEF TypeOK
    <3> QED BY <2>2, <2>5, <3>2, <3>3 DEF Merged
  <2> QED BY <1>1, <2>1, <2>6, <2>7, ZenonT(60) DEF RInv
<1>5. ASSUME Restart  PROVE RInv'
  <2>1. restarts' \in 1..MaxRestarts
    <3>1. restarts \in 0..MaxRestarts /\ restarts < MaxRestarts /\ restarts' = restarts + 1
      BY <1>0, <1>5, ZenonT(60) DEF Restart, TypeOK
    <3> QED BY <3>1, QuotaAssumption
  <2>2. TypeOK'
    <3>1. UNCHANGED <<quota, used, kind, lowered, want, overlap, cut>> /\ leak' = {} /\ lock' = Nobody
      BY <1>5, ZenonT(60) DEF Restart, db
    <3>2. /\ pend' \in [Dims -> Nat] /\ seen' \in [Request -> [Dims -> Nat]]
          /\ oquota' \in [Admin -> [Dims -> Nat]]
      BY <1>5, ZenonT(60) DEF Restart, Zero
    <3>3. /\ class' \in [Classes -> Request \cup {Nobody}]
          /\ res' \in [Request -> [Dims -> {"none", "open", "used"}]]
      BY <1>5, ZenonT(60) DEF Restart
    <3>4. pc' \in [Request -> PCs] /\ apc' \in [Admin -> {"idle", "merge", "done"}]
      BY <1>0, <1>5 DEF Restart, Remote, TypeOK, PCs
    <3>5. local' \in [Request -> [Dims -> {0, 1}]]
      BY <1>0, <1>5, ZenonT(60) DEF Restart, Remote, TypeOK, Zero
    <3>6. copy' \in [Request -> BOOLEAN]
      BY <1>5, ZenonT(60) DEF Restart
    <3>7. restarts' \in 0..MaxRestarts
      BY <2>1, QuotaAssumption
    <3> QED BY <1>0, <3>1, <3>2, <3>3, <3>4, <3>5, <3>6, <3>7, ZenonT(60) DEF TypeOK
  <2>3. \A q \in Request : Sound(q)'
    <3> TAKE q \in Request
    <3>1. /\ pc'[q] \in {pc[q], "done"} /\ copy'[q] = FALSE /\ kind'[q] = kind[q]
          /\ \A d \in Dims : res'[q][d] = "none"
      BY <1>5, ZenonT(60) DEF Restart
    <3>2. Accounted(q)'
      BY <3>1, ZenonT(60) DEF Accounted
    <3>3. OnRoute(q)'
      BY <3>1 DEF RInv, Sound, OnRoute
    <3> QED BY <2>1, <3>2, <3>3 DEF Sound
  <2>4. OverbookingCauses'
    BY <2>1 DEF OverbookingCauses
  <2>5. Merging'
    <3>1. UNCHANGED <<quota, want, overlap>> /\ \A a \in Admin : apc'[a] # "merge"
      BY <1>5, ZenonT(60) DEF Restart, db
    <3> QED BY <3>1, ZenonT(60) DEF RInv, Merging, StoredQuota
  <2> QED BY <2>2, <2>3, <2>4, <2>5, ZenonT(60) DEF RInv
<1>6. ASSUME UNCHANGED vars  PROVE RInv'
  <2>1. UNCHANGED <<quota, used, pend, lock, class, pc, kind, local, seen, copy, restarts, apc,
                    oquota, lowered, want, overlap, res, cut, leak>>
    BY <1>6 DEF vars, db, req, adm, hist
  <2>2. TypeOK'
    BY <1>0, <2>1, ZenonT(60) DEF TypeOK
  <2>3. Merging'
    BY <2>1, ZenonT(60) DEF RInv, Merging, StoredQuota
  <2> QED BY <1>1, <2>1, <2>2, <2>3, ZenonT(60) DEF RInv
<1> QED BY <1>2, <1>3, <1>4, <1>5, <1>6

\* It holds at the start,
LEMMA InitRInv == Init => RInv
<1> SUFFICES ASSUME Init  PROVE RInv
  OBVIOUS
<1>1. TypeOK
  <2>1. Zero \in [Dims -> Nat] /\ Zero \in [Dims -> {0, 1}]
    BY ZenonT(60) DEF Zero
  <2>2. kind \in [Request -> DOMAIN Wants] /\ pc \in [Request -> PCs]
    BY QuotaAssumption, ZenonT(60) DEF Init, PCs
  <2>3. /\ class \in [Classes -> Request \cup {Nobody}] /\ lock = Nobody
        /\ res \in [Request -> [Dims -> {"none", "open", "used"}]]
        /\ apc \in [Admin -> {"idle", "merge", "done"}]
    BY DEF Init
  <2>4. copy \in [Request -> BOOLEAN] /\ overlap \in BOOLEAN
    BY ZenonT(60) DEF Init
  <2>5. restarts \in 0..MaxRestarts
    BY QuotaAssumption DEF Init
  <2>6. /\ local \in [Request -> [Dims -> {0, 1}]] /\ seen \in [Request -> [Dims -> Nat]]
        /\ oquota \in [Admin -> [Dims -> Nat]]
    BY <2>1, ZenonT(60) DEF Init
  <2> QED BY <2>1, <2>2, <2>3, <2>4, <2>5, <2>6, QuotaAssumption, ZenonT(60) DEF Init, TypeOK
<1>2. \A r \in Request : Sound(r)
  <2> TAKE r \in Request
  <2>1. pc[r] = "idle" /\ copy[r] = FALSE /\ \A d \in Dims : res[r][d] = "none"
    BY ZenonT(60) DEF Init
  <2>2. OnRoute(r)
    BY <2>1, ZenonT(60) DEF OnRoute
  <2>3. Accounted(r)
    BY <2>1, ZenonT(60) DEF Accounted
  <2>4. SetAside(r) /\ Backed(r)
    BY <2>1, ZenonT(60) DEF SetAside, Backed, Tasked
  <2> QED BY <2>2, <2>3, <2>4 DEF Sound
<1>3. OverbookingCauses /\ Merging
  BY ZenonT(60) DEF Init, OverbookingCauses, Merging, StoredQuota
<1> QED BY <1>1, <1>2, <1>3 DEF RInv

\* and ever after.
LEMMA Requests == Spec => []RInv
<1>1. RInv /\ [Next]_vars => RInv'
  BY RequestStep, OtherStep DEF Next, Finished
<1> QED BY <1>1, InitRInv, PTL DEF Spec

\* Every state of the quota manager, the requests and the administrators is
\* well typed.
THEOREM QuotaTyped == Spec => []TypeOK
<1>1. RInv => TypeOK
  BY DEF RInv
<1> QED BY <1>1, Requests, PTL

\* A request that has ended, with its copy, holds no reservation: every path
\* through the handlers and tasks cancels, uses or abandons what it set aside.
THEOREM NothingLeftBehind == Spec => []EndedHoldsNothing
<1>1. RInv => EndedHoldsNothing
  BY ZenonT(60) DEF RInv, Sound, Accounted, EndedHoldsNothing, Ended
<1> QED BY <1>1, Requests, PTL

\* Without a restart, usage that was not set aside is the work of the few kinds
\* of requests that OverbookingCauses names.
THEOREM CausesKnown == Spec => []OverbookingCauses
<1>1. RInv => OverbookingCauses
  BY DEF RInv
<1> QED BY <1>1, Requests, PTL

\* What an administrator sets stays as long as no two of them overlap.
THEOREM UpdatesStay == Spec => []UpdatesKept
<1>1. RInv => UpdatesKept
  BY ZenonT(60) DEF RInv, Merging, UpdatesKept
<1> QED BY <1>1, Requests, PTL
=============================================================================
