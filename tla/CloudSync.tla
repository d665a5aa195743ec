----------------------------- MODULE CloudSync -----------------------------
(***************************************************************************)
(* The synchronisation of a cloud account (pkg/compute): the account, its  *)
(* providers and their regions each have a row with a SyncStatus.  A       *)
(* request for the account is a task that holds the lock of the account    *)
(* while it waits for the one worker that probes accounts, and then starts *)
(* a subtask for each provider.  A provider's task submits its regions one *)
(* by one to the sync workers and waits for each.  The cron job puts       *)
(* probes on the queue of the same worker, which then submits all regions  *)
(* itself and waits for none.  Whoever ends the synchronisation of a       *)
(* region marks the provider, and then the account, idle if nothing else   *)
(* of it is under way.                                                     *)
(*                                                                         *)
(* Goroutines work on copies of rows: db.Update writes the columns that    *)
(* its function changed in the copy, so a status the copy already has is   *)
(* not written.  The lock of the account belongs to a context, and all     *)
(* sync workers pass the same one, context.Background().  A provider's     *)
(* lock is never held over a wait and does not cover the rows of regions;  *)
(* it is left out.                                                         *)
(***************************************************************************)
EXTENDS Naturals, Sequences, FiniteSets

CONSTANTS
  Account, Provider, Region,   \* rows
  ProviderOf,                  \* the provider of each region
  SyncWorker, WorkerOf,        \* the sync workers and the hash ring
  Prober,                      \* the worker of syncAccountWorker
  AccountTask,                 \* requests for the account
  ProviderRequest,             \* requests for a provider
  None, Background,
  MaxRequests,                 \* requests and overlapping probes; one fewer after a restart
  MaxRestarts

Row == {Account} \cup Provider \cup Region
Status == {"idle", "queued", "syncing"}
RegionsOf(p) == {r \in Region : ProviderOf[r] = p}

\* The task of provider p on behalf of q.
ProviderTask == (AccountTask \cup ProviderRequest) \X Provider
Thread == {Prober} \cup SyncWorker \cup AccountTask \cup ProviderTask

ASSUME CloudSyncAssumption ==
  /\ ProviderOf \in [Region -> Provider]
  /\ WorkerOf \in [Region -> SyncWorker]
  /\ Account \notin Provider \cup Region /\ Provider \cap Region = {}
  /\ Prober \notin SyncWorker \cup AccountTask \cup ProviderTask
  /\ SyncWorker \cap (AccountTask \cup ProviderTask) = {}
  /\ AccountTask \cap (ProviderTask \cup ProviderRequest) = {}
  /\ MaxRequests \in Nat /\ MaxRestarts \in Nat

VARIABLES
  status,     \* SyncStatus of each row
  stale,      \* rows under way with a LastSync over half an hour ago
  probes,     \* queue of syncAccountWorker
  jobs,       \* queues of the sync workers
  pc,         \* where each goroutine is
  copy,       \* SyncStatus in each goroutine's copies of rows
  old,        \* copies that were stale when they were read
  todo,       \* rows a goroutine has still to go through
  at,         \* the provider, region or task a goroutine works for
  submitted,  \* goroutines whose syncCnt is not zero
  woken,      \* account tasks that a last subtask has woken
  autoSync,   \* EnableAutoSync of the account
  starting,   \* the cron job has not run since the service started
  restarts,
  overlaps,   \* probes submitted while something was under way
  fatal,      \* lockman has stopped the service
  left,       \* rows that were under way when the service stopped
  mixed       \* providers that two synchronisations worked on at once

rows == <<status, stale>>
copies == <<copy, old>>
loop == <<todo, at, submitted>>
service == <<autoSync, starting, restarts, overlaps, fatal>>
history == <<left, mixed>>
vars == <<rows, probes, jobs, pc, copies, loop, woken, service, history>>

Blank == [o \in Row |-> "idle"]

Init ==
  /\ status = Blank
  /\ stale = {}
  /\ probes = <<>>
  /\ jobs = [w \in SyncWorker |-> <<>>]
  /\ pc = [x \in Thread |-> "none"]
  /\ copy = [x \in Thread |-> Blank]
  /\ old = [x \in Thread |-> {}]
  /\ todo = [x \in Thread |-> {}]
  /\ at = [x \in Thread |-> None]
  /\ submitted = {}
  /\ woken = {}
  /\ autoSync \in BOOLEAN
  /\ starting = FALSE
  /\ restarts = 0
  /\ overlaps = 0
  /\ fatal = FALSE
  /\ left = {}
  /\ mixed = {}

-----------------------------------------------------------------------------
(* Rows.                                                                   *)

Goto(x, l) == pc' = [pc EXCEPT ![x] = l]

\* x reads the rows O.
Fetch(x, O) ==
  /\ copy' = [copy EXCEPT ![x] = [o \in Row |-> IF o \in O THEN status[o] ELSE @[o]]]
  /\ old' = [old EXCEPT ![x] = (@ \ O) \cup (O \cap stale)]

\* x sets the status of o in its copy and writes the difference.  Only the
\* status "syncing" comes with a new LastSync: an idle row that is queued may
\* be stale at once.
Write(x, o, s) ==
  /\ status' = IF copy[x][o] = s THEN status ELSE [status EXCEPT ![o] = s]
  /\ stale' \in IF s = "syncing" \/ status'[o] = "idle" THEN {stale \ {o}}
                ELSE IF status[o] = "idle" THEN {stale, stale \cup {o}}
                ELSE {stale}

Mark(x, o, s) ==
  /\ Write(x, o, s)
  /\ copy' = [copy EXCEPT ![x][o] = s]
  /\ UNCHANGED old

\* x has no further use for its copies of O.
Forget(x, O) ==
  /\ copy' = [copy EXCEPT ![x] = [o \in Row |-> IF o \in O THEN "idle" ELSE @[o]]]
  /\ old' = [old EXCEPT ![x] = @ \ O]

MarkLast(x, o, s) == Write(x, o, s) /\ Forget(x, {o})

CanSync(x, o) == copy[x][o] = "idle" \/ o \in old[x] \/ o \in stale

\* Nothing is under way.
AllEnded ==
  /\ probes = <<>>
  /\ \A w \in SyncWorker : jobs[w] = <<>>
  /\ \A x \in Thread : pc[x] \in {"none", "ended"}

Quiet == AllEnded /\ ~starting

\* Half an hour passes.  It takes no synchronisation as long: rows become
\* stale only where they were left as they are.
HalfHour ==
  /\ AllEnded
  /\ stale' = {o \in Row : status[o] # "idle"}
  /\ UNCHANGED <<status, probes, jobs, pc, copies, loop, woken, service, history>>

ProviderAt(x) == IF x \in SyncWorker THEN ProviderOf[at[x].region] ELSE at[x]

\* Another goroutine than x, or a job in a queue, works on provider p.
WorkedOn(x, p) ==
  \/ \E y \in Thread \ {x} :
       \/ y \in ProviderTask /\ y[2] = p /\ pc[y] \notin {"none", "asked", "init", "ended"}
       \/ y = Prober /\ (p \in todo[y] \/ at[y] = p)
       \/ y \in SyncWorker /\ pc[y] # "none" /\ ProviderAt(y) = p
  \/ \E w \in SyncWorker : \E i \in DOMAIN jobs[w] : ProviderOf[jobs[w][i].region] = p

\* x reads the providers P, to synchronise them.
Mix(x, P) == mixed' = (mixed \ P) \cup {p \in P : WorkedOn(x, p)}

-----------------------------------------------------------------------------
(* The lock of the account.                                                *)

Context(x) == IF x \in SyncWorker THEN Background ELSE x

HoldsAccount(x) ==
  \/ pc[x] \in {"checkA", "writeA"}
  \/ x \in AccountTask /\ pc[x] \in {"probe", "probed", "spawn"}

Holders == {Context(x) : x \in {y \in Thread : HoldsAccount(y)}}
MayLock(c) == Holders \subseteq {c}

-----------------------------------------------------------------------------
(* Requests.                                                               *)

MayAsk ==
  restarts + Cardinality({a \in AccountTask : pc[a] # "none"})
    + Cardinality({q \in ProviderRequest : \E p \in Provider : pc[<<q, p>>] # "none"})
    + overlaps
  < MaxRequests

\* The dispatcher reads the account before it takes the lock.
AskAccount(a) ==
  /\ MayAsk
  /\ pc[a] = "none"
  /\ Fetch(a, {Account})
  /\ Goto(a, "asked")
  /\ UNCHANGED <<rows, probes, jobs, loop, woken, service, history>>

AskProvider(q, p) ==
  /\ MayAsk
  /\ \A o \in Provider : pc[<<q, o>>] = "none"
  /\ Fetch(<<q, p>>, {p})
  /\ Goto(<<q, p>>, "asked")
  /\ UNCHANGED <<rows, probes, jobs, loop, woken, service, history>>

\* PerformSync and PerformUpdateCredential: the former is refused for an
\* account with automatic synchronisation, the latter is never refused and
\* asks for everything.
PerformSync(a) ==
  /\ pc[a] = "asked"
  /\ Holders = {}
  /\ \E force \in BOOLEAN, full \in BOOLEAN :
       /\ autoSync => force /\ full
       /\ \/ /\ CanSync(a, Account) \/ force
             /\ MarkLast(a, Account, "queued")
             /\ todo' = [todo EXCEPT ![a] = IF full THEN Provider ELSE {}]
             /\ Goto(a, "init")
          \/ /\ ~CanSync(a, Account) /\ ~force
             /\ Goto(a, "ended")
             /\ UNCHANGED <<rows, copies, todo>>
  /\ UNCHANGED <<probes, jobs, at, submitted, woken, service, history>>

PerformSyncProvider(x) ==
  LET p == x[2] IN
  /\ pc[x] = "asked"
  /\ \E force \in BOOLEAN :
       \/ /\ ~autoSync /\ (CanSync(x, p) \/ force)
          /\ MarkLast(x, p, "queued")
          /\ Goto(x, "init")
       \/ /\ autoSync \/ (~CanSync(x, p) /\ ~force)
          /\ Goto(x, "ended")
          /\ UNCHANGED <<rows, copies>>
  /\ UNCHANGED <<probes, jobs, loop, woken, service, history>>

-----------------------------------------------------------------------------
(* The task of the account.                                                *)

\* execITask reads the account before it takes the lock.
FetchObject(a) ==
  /\ pc[a] = "init"
  /\ Fetch(a, {Account})
  /\ Goto(a, "lock")
  /\ UNCHANGED <<rows, probes, jobs, loop, woken, service, history>>

\* OnInit takes the lock and waits for the result of a probe.
OnInit(a) ==
  /\ pc[a] = "lock"
  /\ Holders = {}
  /\ probes' = Append(probes, [by |-> a, mem |-> copy[a][Account]])
  /\ Goto(a, "probe")
  /\ UNCHANGED <<rows, jobs, copies, loop, woken, service, history>>

GetEnabledCloudproviders(a) ==
  /\ pc[a] = "probed"
  /\ Fetch(a, Provider)
  /\ Goto(a, "spawn")
  /\ UNCHANGED <<rows, probes, jobs, loop, woken, service, history>>

\* OnInit returns when the last subtask has been started.
StartSubtask(a, p) ==
  /\ pc[a] = "spawn"
  /\ p \in todo[a]
  /\ MarkLast(a, p, "queued")
  /\ todo' = [todo EXCEPT ![a] = @ \ {p}]
  /\ pc' = [pc EXCEPT ![<<a, p>>] = "init",
                      ![a] = IF todo[a] = {p} THEN "subtasks" ELSE @]
  /\ UNCHANGED <<probes, jobs, at, submitted, woken, service, history>>

OnCloudaccountSyncComplete(a) ==
  /\ pc[a] = "subtasks"
  /\ a \in woken
  /\ woken' = woken \ {a}
  /\ Fetch(a, {Account})
  /\ Goto(a, "lockA")
  /\ UNCHANGED <<rows, probes, jobs, loop, service, history>>

-----------------------------------------------------------------------------
(* The worker that probes accounts, and the cron job.                      *)

\* Mistake: only an idle account is probed, however long ago the last
\* synchronisation began.
AutoSyncCloudaccountTaskIdle ==
  /\ starting \/ (AllEnded /\ status[Account] = "idle")
  /\ probes' = IF status[Account] = "idle"
               THEN Append(probes, [by |-> Prober, mem |-> "idle"]) ELSE probes
  /\ status' = [o \in Row |-> IF starting /\ o \in Region THEN "idle" ELSE status[o]]
  /\ stale' = IF starting THEN stale \ Region ELSE stale
  /\ starting' = FALSE
  /\ UNCHANGED <<jobs, pc, copies, loop, woken, autoSync, restarts, overlaps, fatal, history>>

\* The cron job reads the account and submits a probe that nobody waits
\* for.  Its first run sets every region to idle.
AutoSyncCloudaccountTask ==
  /\ \E submit \in BOOLEAN :
       /\ submit \/ starting
       /\ \/ /\ submit
             /\ status[Account] = "idle" \/ Account \in stale
             /\ \/ AllEnded /\ UNCHANGED overlaps
                \/ ~AllEnded /\ MayAsk /\ overlaps' = overlaps + 1
             /\ probes' = Append(probes, [by |-> Prober, mem |-> status[Account]])
          \/ /\ ~submit
             /\ UNCHANGED <<probes, overlaps>>
  /\ status' = [o \in Row |-> IF starting /\ o \in Region THEN "idle" ELSE status[o]]
  /\ stale' = IF starting THEN stale \ Region ELSE stale
  /\ starting' = FALSE
  /\ UNCHANGED <<jobs, pc, copies, loop, woken, autoSync, restarts, fatal, history>>

\* syncAccountStatus marks the account and probes it.
BeginProbe ==
  LET item == Head(probes) IN
  /\ pc[Prober] = "none"
  /\ probes # <<>>
  /\ probes' = Tail(probes)
  /\ at' = [at EXCEPT ![Prober] = item.by]
  /\ copy' = [copy EXCEPT ![Prober][Account] = "syncing"]
  /\ status' = IF item.mem = "syncing" THEN status ELSE [status EXCEPT ![Account] = "syncing"]
  /\ stale' = stale \ {Account}
  /\ Goto(Prober, "probing")
  /\ UNCHANGED <<jobs, old, todo, submitted, woken, service, history>>

\* Mistake: the task that waits gets no answer when the probe fails.
EndProbeOfTaskUnanswered(a) ==
  /\ pc[Prober] = "probing"
  /\ at[Prober] = a
  /\ MayLock(a)
  /\ \E err \in BOOLEAN :
       /\ status' = IF err THEN [status EXCEPT ![Account] = "idle"] ELSE status
       /\ stale' = IF err THEN stale \ {Account} ELSE stale
       /\ pc' = [pc EXCEPT ![a] = CASE err -> @
                                     [] todo[a] = {} /\ ~err -> "checkA"
                                     [] OTHER -> "probed",
                           ![Prober] = "none"]
  /\ copy' = [copy EXCEPT ![a][Account] = "syncing", ![Prober] = Blank]
  /\ at' = [at EXCEPT ![Prober] = None]
  /\ UNCHANGED <<probes, jobs, old, todo, submitted, woken, service, history>>

\* The outcome is recorded under the lock of the account, with the context
\* of the task or of the cron job.  A task that waits gets the answer and
\* goes on with the same copy of the account; MarkEndSyncWithLock follows at
\* once unless there are providers to synchronise.
EndProbeOfTask(a) ==
  /\ pc[Prober] = "probing"
  /\ at[Prober] = a
  /\ MayLock(a)
  /\ \E err \in BOOLEAN :
       /\ status' = IF err THEN [status EXCEPT ![Account] = "idle"] ELSE status
       /\ stale' = IF err THEN stale \ {Account} ELSE stale
       /\ left' = IF err THEN left \ {Account} ELSE left
       /\ copy' = [copy EXCEPT ![a][Account] = IF err THEN "idle" ELSE "syncing",
                               ![Prober] = Blank]
       /\ pc' = [pc EXCEPT ![a] = IF err \/ todo[a] = {} THEN "checkA" ELSE "probed",
                           ![Prober] = "none"]
       /\ todo' = IF err THEN [todo EXCEPT ![a] = {}] ELSE todo
  /\ at' = [at EXCEPT ![Prober] = None]
  /\ UNCHANGED <<probes, jobs, old, submitted, woken, service, mixed>>

EndProbeOfCron(err) ==
  /\ pc[Prober] = "probing"
  /\ at[Prober] = Prober
  /\ MayLock(Prober)
  /\ \/ /\ ~err /\ autoSync /\ Provider # {}
        /\ Fetch(Prober, Provider)
        /\ Mix(Prober, Provider)
        /\ todo' = [todo EXCEPT ![Prober] = Provider]
        /\ Goto(Prober, "providers")
        /\ UNCHANGED <<rows, left>>
     \/ /\ err \/ ~autoSync \/ Provider = {}
        /\ status' = [status EXCEPT ![Account] = "idle"]
        /\ stale' = stale \ {Account}
        /\ left' = left \ {Account}
        /\ copy' = [copy EXCEPT ![Prober] = Blank]
        /\ Goto(Prober, "none")
        /\ UNCHANGED <<old, todo, mixed>>
  /\ at' = [at EXCEPT ![Prober] = None]
  /\ UNCHANGED <<probes, jobs, submitted, woken, service>>

-----------------------------------------------------------------------------
(* syncCloudproviderRegions, run by a provider's task, which waits for     *)
(* each region, or by the worker that probes accounts, which does not.     *)

\* The task of a provider reads it and leaves the rest to a local task.
OnInitProvider(x) ==
  /\ pc[x] = "init"
  /\ Fetch(x, {x[2]})
  /\ Mix(x, {x[2]})
  /\ Goto(x, "local")
  /\ UNCHANGED <<rows, probes, jobs, loop, woken, service, left>>

MarkSyncing(x, p) ==
  /\ Mark(x, p, "syncing")
  /\ at' = [at EXCEPT ![x] = p]
  /\ Goto(x, "list")
  /\ mixed' = IF WorkedOn(x, p) THEN mixed \cup {p} ELSE mixed
  /\ UNCHANGED <<probes, jobs, submitted, woken, service, left>>

SyncProvider(x) ==
  /\ pc[x] = "local"
  /\ MarkSyncing(x, x[2])
  /\ UNCHANGED todo

NextProvider ==
  /\ pc[Prober] = "providers"
  /\ \E p \in todo[Prober] :
       /\ MarkSyncing(Prober, p)
       /\ todo' = [todo EXCEPT ![Prober] = @ \ {p}]

LastProvider ==
  /\ pc[Prober] = "providers"
  /\ todo[Prober] = {}
  /\ Forget(Prober, Row)
  /\ at' = [at EXCEPT ![Prober] = None]
  /\ Goto(Prober, "none")
  /\ UNCHANGED <<rows, probes, jobs, todo, submitted, woken, service, history>>

GetCloudproviderRegions(x) ==
  /\ pc[x] = "list"
  /\ Fetch(x, RegionsOf(at[x]))
  /\ todo' = [todo EXCEPT ![x] = @ \cup RegionsOf(at[x])]
  /\ Goto(x, "loop")
  /\ UNCHANGED <<rows, probes, jobs, at, submitted, woken, service, history>>

SubmitSyncTask(x, r) ==
  /\ pc[x] = "loop"
  /\ r \in todo[x] \cap Region
  /\ CanSync(x, r)
  /\ MarkLast(x, r, "queued")
  /\ jobs' = [jobs EXCEPT ![WorkerOf[r]] = Append(@, [region |-> r, waiter |-> x])]
  /\ todo' = [todo EXCEPT ![x] = @ \ {r}]
  /\ submitted' = submitted \cup {x}
  /\ Goto(x, IF x = Prober THEN "loop" ELSE "wait")
  /\ UNCHANGED <<probes, at, woken, service, history>>

\* The cron job also passes over regions synchronised lately.
SkipRegion(x, r) ==
  /\ pc[x] = "loop"
  /\ r \in todo[x] \cap Region
  /\ x = Prober \/ ~CanSync(x, r)
  /\ todo' = [todo EXCEPT ![x] = @ \ {r}]
  /\ Forget(x, {r})
  /\ UNCHANGED <<rows, probes, jobs, pc, at, submitted, woken, service, history>>

\* A goroutine is done with a provider, or a sync worker with a region: a
\* provider's task ends and wakes its parent if no subtask is left, the
\* worker that probes goes on to the next provider, a sync worker lets the
\* task that waits for the region go on.
Finish(x) ==
  /\ pc' = [y \in Thread |->
              IF y = x THEN CASE x \in SyncWorker -> "none"
                              [] x = Prober -> "providers"
                              [] OTHER -> "ended"
              ELSE IF x \in SyncWorker /\ y = at[x].waiter /\ y # Prober THEN "loop"
              ELSE pc[y]]
  /\ woken' = woken \cup
       {a \in AccountTask : /\ x \in {a} \X Provider
                            /\ \A p \in Provider : pc'[<<a, p>>] \in {"none", "ended"}}
  /\ Forget(x, IF x = Prober THEN {Account, at[x]} ELSE Row)
  /\ at' = [at EXCEPT ![x] = None]
  /\ submitted' = submitted \ {x}

\* Mistake: the end of the loop does not ask whether syncCnt is zero.
EndLoopUnmarked(x) ==
  /\ pc[x] = "loop"
  /\ todo[x] \cap Region = {}
  /\ Finish(x)
  /\ UNCHANGED <<rows, probes, jobs, todo, service, history>>

EndLoop(x) ==
  /\ pc[x] = "loop"
  /\ todo[x] \cap Region = {}
  /\ \/ x \in submitted /\ Finish(x)
     \/ x \notin submitted /\ Goto(x, "checkP") /\ UNCHANGED <<copies, at, submitted, woken>>
  /\ UNCHANGED <<rows, probes, jobs, todo, service, history>>

-----------------------------------------------------------------------------
(* The sync workers, DoSync.                                               *)

BeginSync(w) ==
  LET job == Head(jobs[w]) IN
  /\ pc[w] = "none"
  /\ jobs[w] # <<>>
  /\ jobs' = [jobs EXCEPT ![w] = Tail(@)]
  /\ at' = [at EXCEPT ![w] = job]
  /\ status' = [status EXCEPT ![job.region] = "syncing"]
  /\ stale' = stale \ {job.region}
  /\ Goto(w, "sync")
  /\ UNCHANGED <<probes, copies, todo, submitted, woken, service, history>>

EndSync(w) ==
  /\ pc[w] = "sync"
  /\ status' = [status EXCEPT ![at[w].region] = "idle"]
  /\ stale' = stale \ {at[w].region}
  /\ mixed' = mixed \cup {p \in {ProviderAt(w)} :
                \E x \in {Prober} \cup ProviderTask : at[x] = p /\ todo[x] \cap RegionsOf(p) # {}}
  /\ Goto(w, "fetchP")
  /\ UNCHANGED <<probes, jobs, copies, loop, woken, service, left>>

GetProvider(w) ==
  /\ pc[w] = "fetchP"
  /\ Fetch(w, {ProviderOf[at[w].region]})
  /\ Goto(w, "checkP")
  /\ UNCHANGED <<rows, probes, jobs, loop, woken, service, history>>

-----------------------------------------------------------------------------
(* markEndSyncWithLock of the provider, then of the account.               *)

\* Mistake: the provider is marked idle whatever its regions are.
CheckProviderUnchecked(x) ==
  /\ pc[x] = "checkP"
  /\ Goto(x, "writeP")
  /\ UNCHANGED <<rows, probes, jobs, copies, loop, woken, service, history>>

CheckProvider(x) ==
  /\ pc[x] = "checkP"
  /\ IF \A r \in RegionsOf(ProviderAt(x)) : status[r] = "idle"
     THEN Goto(x, "writeP") /\ UNCHANGED copies
     ELSE Goto(x, "fetchA") /\ Forget(x, {ProviderAt(x)})
  /\ UNCHANGED <<rows, probes, jobs, loop, woken, service, history>>

MarkEndSyncProvider(x) ==
  /\ pc[x] = "writeP"
  /\ MarkLast(x, ProviderAt(x), "idle")
  /\ left' = left \ {ProviderAt(x)}
  /\ Goto(x, "fetchA")
  /\ UNCHANGED <<probes, jobs, loop, woken, service, mixed>>

GetCloudaccount(x) ==
  /\ pc[x] = "fetchA"
  /\ Fetch(x, {Account})
  /\ Goto(x, "lockA")
  /\ UNCHANGED <<rows, probes, jobs, loop, woken, service, history>>

\* Under the lock of the account.
CheckAccount(x) ==
  /\ IF copy[x][Account] # "idle" /\ \A p \in Provider : status[p] = "idle"
     THEN Goto(x, "writeA") /\ UNCHANGED <<copies, at, submitted, woken>>
     ELSE Finish(x)
  /\ UNCHANGED <<rows, probes, jobs, todo, service, history>>

\* OnInit holds the lock already.
CheckInOnInit(a) ==
  /\ pc[a] = "checkA"
  /\ CheckAccount(a)

LockAccount(x) ==
  /\ pc[x] = "lockA"
  /\ MayLock(Context(x))
  /\ CheckAccount(x)

\* A sync worker that cannot have the lock waits under its context ...
WaitForAccount(w) ==
  /\ pc[w] = "lockA"
  /\ ~MayLock(Background)
  /\ \A v \in SyncWorker : pc[v] # "waitA"
  /\ Goto(w, "waitA")
  /\ UNCHANGED <<rows, probes, jobs, copies, loop, woken, service, history>>

WokenForAccount(w) ==
  /\ pc[w] = "waitA"
  /\ Holders = {}
  /\ CheckAccount(w)

MarkEndSyncAccount(x) ==
  /\ pc[x] = "writeA"
  /\ status' = [status EXCEPT ![Account] = "idle"]
  /\ stale' = stale \ {Account}
  /\ left' = left \ {Account}
  /\ Finish(x)
  /\ UNCHANGED <<probes, jobs, todo, service, mixed>>

-----------------------------------------------------------------------------
(* The service stops and starts again: rows remain, and no task that was   *)
(* under way is resumed.                                                   *)

Stop ==
  /\ probes' = <<>>
  /\ jobs' = [w \in SyncWorker |-> <<>>]
  /\ pc' = [x \in Thread |-> IF pc[x] = "none" \/ x \in SyncWorker \cup {Prober}
                             THEN "none" ELSE "ended"]
  /\ copy' = [x \in Thread |-> Blank]
  /\ old' = [x \in Thread |-> {}]
  /\ todo' = [x \in Thread |-> {}]
  /\ at' = [x \in Thread |-> None]
  /\ submitted' = {}
  /\ woken' = {}
  /\ starting' = TRUE
  /\ left' = {o \in Row \ Region : status[o] # "idle"}
             \cup {ProviderOf[r] : r \in {o \in Region : status[o] # "idle"}}
  /\ mixed' = {}
  /\ UNCHANGED <<rows, autoSync, overlaps>>

Restart ==
  /\ restarts < MaxRestarts
  /\ restarts' = restarts + 1
  /\ Stop
  /\ UNCHANGED fatal

\* ... and lockman stops the service when a second one comes to wait.
LockFromWaiter(w) ==
  /\ pc[w] = "lockA"
  /\ ~MayLock(Background)
  /\ \E v \in SyncWorker : pc[v] = "waitA"
  /\ fatal' = TRUE
  /\ Stop
  /\ UNCHANGED restarts

-----------------------------------------------------------------------------

AccountStep(a) ==
  \/ PerformSync(a)
  \/ FetchObject(a)
  \/ OnInit(a)
  \/ GetEnabledCloudproviders(a)
  \/ \E p \in Provider : StartSubtask(a, p)
  \/ CheckInOnInit(a)
  \/ OnCloudaccountSyncComplete(a)

LoopStep(x) ==
  \/ GetCloudproviderRegions(x)
  \/ \E r \in Region : SubmitSyncTask(x, r) \/ SkipRegion(x, r)
  \/ EndLoop(x)

ProviderStep(x) ==
  PerformSyncProvider(x) \/ OnInitProvider(x) \/ SyncProvider(x) \/ LoopStep(x)

ProberStep ==
  \/ BeginProbe
  \/ \E a \in AccountTask : EndProbeOfTask(a)
  \/ \E err \in BOOLEAN : EndProbeOfCron(err)
  \/ NextProvider
  \/ LastProvider
  \/ LoopStep(Prober)

WorkerStep(w) ==
  \/ BeginSync(w)
  \/ EndSync(w)
  \/ GetProvider(w)
  \/ WaitForAccount(w)
  \/ WokenForAccount(w)
  \/ LockFromWaiter(w)

EndStep(x) ==
  \/ CheckProvider(x)
  \/ MarkEndSyncProvider(x)
  \/ GetCloudaccount(x)
  \/ LockAccount(x)
  \/ MarkEndSyncAccount(x)

Step(x) ==
  \/ x \in AccountTask /\ AccountStep(x)
  \/ x \in ProviderTask /\ ProviderStep(x)
  \/ x = Prober /\ ProberStep
  \/ x \in SyncWorker /\ WorkerStep(x)
  \/ EndStep(x)

Next ==
  \/ \E x \in Thread : Step(x)
  \/ \E a \in AccountTask : AskAccount(a)
  \/ \E q \in ProviderRequest, p \in Provider : AskProvider(q, p)
  \/ AutoSyncCloudaccountTask
  \/ HalfHour
  \/ Restart

Fairness ==
  /\ \A x \in Thread : WF_vars(Step(x))
  /\ WF_vars(AutoSyncCloudaccountTask)
  /\ WF_vars(HalfHour)

Spec == Init /\ [][Next]_vars /\ Fairness

-----------------------------------------------------------------------------

\* The rows, the copies of rows and the queues have their types, and only
\* tasks of accounts are woken by the end of subtasks.
TypeOK ==
  /\ status \in [Row -> Status]
  /\ stale \subseteq Row
  /\ \A i \in DOMAIN probes : probes[i] \in [by : {Prober} \cup AccountTask, mem : Status]
  /\ copy \in [Thread -> [Row -> Status]]
  /\ \A x \in Thread : old[x] \subseteq Row /\ todo[x] \subseteq Row
  /\ submitted \subseteq Thread
  /\ woken \subseteq AccountTask

\* When no task, probe or job is under way every region is idle, every
\* provider is idle unless a stop of the service left it otherwise, and so
\* is the account unless such a provider keeps it from being marked: with
\* markEndSyncWithLock called at the end of every region, and by the loop
\* that submits none, the last of several overlapping synchronisations
\* always marks the end, although each goes by copies of the rows.
RestIsIdle ==
  Quiet =>
    /\ \A r \in Region : status[r] = "idle"
    /\ \A p \in Provider \ left : status[p] = "idle"
    /\ status[Account] # "idle" /\ Account \notin left
       => \E p \in Provider : status[p] # "idle"

\* A provider is not idle while one of its regions is queued or being
\* synchronised, which is what ValidateDeleteCondition relies on
\* ("provider is not idle").  Not so for a provider two synchronisations
\* work on at once, nor between two regions of a task that submits them one
\* by one, when the end of the first marks the provider idle; nor for what
\* a stop of the service left.
BusyShown ==
  \A p \in (Provider \ mixed) \ left :
    status[p] = "idle" => \A r \in RegionsOf(p) : status[r] = "idle"

\* The one worker that probes accounts waits, on behalf of the cron job or
\* at the end of a provider, for the lock of the account that a task holds
\* in OnInit, and the task waits for the probe it put on the worker's queue.
Jammed ==
  /\ pc[Prober] \in {"probing", "lockA"}
  /\ \E a \in AccountTask : pc[a] = "probe" /\ at[Prober] # a

\* All requests end, one way or another, but for those behind a jam: every
\* wait of a task, for its probe, for a region and for its subtasks, is
\* answered whether the work succeeds or fails.
RequestsEnd ==
  []<>(Jammed \/ \A x \in AccountTask \cup ProviderTask : pc[x] \in {"none", "ended"})

\* Once probes of the cron job no longer fail, the account and its providers
\* become idle again and again whatever a stop of the service left them at:
\* CanSync gives up on a synchronisation after half an hour.  A provider of
\* an account without automatic synchronisation waits for somebody to ask,
\* and a jam is not resolved.
Recovers ==
  <>[][EndProbeOfCron(TRUE) => EndProbeOfCron(FALSE)]_vars =>
    \A o \in {Account} \cup Provider :
      []<>(Jammed \/ status[o] = "idle" \/ (o \in Provider \cap left /\ ~autoSync))

\* lockman never finds two goroutines waiting under the same context: the
\* branch of lockContext that stops the service is not reached.
NeverFatal == ~fatal
=============================================================================
