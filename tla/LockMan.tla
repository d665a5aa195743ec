------------------------------ MODULE LockMan ------------------------------
(***************************************************************************)
(* The in-memory lock manager of pkg/cloudcommon/db/lockman: a table from  *)
(* keys to lock records, and on every record a re-entrant lock whose owner *)
(* is a context.Context (not a goroutine).                                 *)
(*                                                                         *)
(* A step is a critical section of the code.  LockKey is two of them: the  *)
(* lookup under tableLock, and lockContext under the lock of the record it *)
(* returned; a waiter takes one more each time it is woken.  UnlockKey     *)
(* holds tableLock throughout and is one step: its only other critical     *)
(* section, on the record, does not touch the table, and what it does to   *)
(* the table (the delete) does not touch the record.                       *)
(***************************************************************************)
EXTENDS Integers, FiniteSets

CONSTANTS
  Proc,     \* goroutines that lock and unlock
  Ctx,      \* contexts, the owners of locks
  CtxOf,    \* the context each goroutine passes
  Key,      \* keys, "<resource>-<id>" in the code
  Rec,      \* addresses of lock records
  NoCtx, NoRec, NoKey,
  MaxDepth, \* the deepest recursive lock, 32 in the code
  MaxOwed   \* bound of the model: unlocks of one key a goroutine may owe

ASSUME LockManAssumption ==
  /\ CtxOf \in [Proc -> Ctx]
  /\ NoCtx \notin Ctx
  /\ NoRec \notin Rec
  /\ NoKey \notin Key
  /\ MaxDepth \in Nat \ {0}
  /\ MaxOwed \in Nat

VARIABLES
  lockTable,          \* the record of every key, or NoRec
  holder, depth, waiter, \* the fields of every record; waiter is only ever
                         \* searched, measured and removed from by value, and
                         \* holds no context twice: the FIFO is a set
  pc,                 \* where each goroutine is in LockKey
  key, record,        \* the arguments of a LockKey that has not returned
  owed,               \* the UnlockKey calls a goroutine has deferred, by key
  fatal,              \* the log.Fatalf that ended the process, if any
  orphaned,           \* history: keys that lost a record which a goroutine had
                      \* looked up and was about to lock
  overflowed          \* history: keys on which the depth limit was exceeded

recVars == <<lockTable, holder, depth, waiter>>
procVars == <<pc, key, record, owed>>
history == <<orphaned, overflowed>>
vars == <<recVars, procVars, fatal, history>>

InLock == {"enter", "waiting", "woken"}

TypeOK ==
  /\ lockTable \in [Key -> Rec \cup {NoRec}]
  /\ holder \in [Rec -> Ctx \cup {NoCtx}]
  /\ depth \in [Rec -> Int]
  /\ waiter \in [Rec -> SUBSET Ctx]
  /\ pc \in [Proc -> InLock \cup {"idle", "unwind"}]
  /\ key \in [Proc -> Key \cup {NoKey}]
  /\ record \in [Proc -> Rec \cup {NoRec}]
  /\ owed \in [Proc -> [Key -> Nat]]
  /\ fatal \in {"none", "lock from a waiter", "unlock a wait context"}
  /\ orphaned \in SUBSET Key
  /\ overflowed \in SUBSET Key

Init ==
  /\ lockTable = [k \in Key |-> NoRec]
  /\ holder = [r \in Rec |-> NoCtx]
  /\ depth = [r \in Rec |-> 0]
  /\ waiter = [r \in Rec |-> {}]
  /\ pc = [p \in Proc |-> "idle"]
  /\ key = [p \in Proc |-> NoKey]
  /\ record = [p \in Proc |-> NoRec]
  /\ owed = [p \in Proc |-> [k \in Key |-> 0]]
  /\ fatal = "none"
  /\ orphaned = {}
  /\ overflowed = {}

-----------------------------------------------------------------------------
(***************************************************************************)
(* LockKey, first critical section: find the record, or make one.          *)
(***************************************************************************)

\* Memory that no key and no call refers to: the garbage collector's.
Free ==
  {r \in Rec : /\ \A k \in Key : lockTable[k] # r
               /\ \A p \in Proc : record[p] # r}

\* A new record already names its creator as holder, at depth 0.
newInMemoryLockRecord(r, ctx) ==
  /\ holder' = [holder EXCEPT ![r] = ctx]
  /\ depth' = [depth EXCEPT ![r] = 0]
  /\ waiter' = [waiter EXCEPT ![r] = {}]

FindRecord(p, k) ==
  /\ lockTable[k] # NoRec
  /\ record' = [record EXCEPT ![p] = lockTable[k]]
  /\ UNCHANGED recVars

MakeRecord(p, k, r) ==
  /\ lockTable[k] = NoRec
  /\ newInMemoryLockRecord(r, CtxOf[p])
  /\ lockTable' = [lockTable EXCEPT ![k] = r]
  /\ record' = [record EXCEPT ![p] = r]

getRecordWithLock(p, k) ==
  \/ FindRecord(p, k)
  \/ \E r \in Free : MakeRecord(p, k, r)

LockKey(p, k) ==
  /\ fatal = "none"
  /\ pc[p] = "idle"
  /\ owed[p][k] < MaxOwed
  /\ getRecordWithLock(p, k)
  /\ pc' = [pc EXCEPT ![p] = "enter"]
  /\ key' = [key EXCEPT ![p] = k]
  /\ UNCHANGED <<owed, fatal, history>>

-----------------------------------------------------------------------------
(***************************************************************************)
(* LockKey, second critical section: lockContext.                          *)
(***************************************************************************)

\* LockKey returns; the caller now owes an UnlockKey.
LockReturns(p) ==
  /\ pc' = [pc EXCEPT ![p] = "idle"]
  /\ key' = [key EXCEPT ![p] = NoKey]
  /\ record' = [record EXCEPT ![p] = NoRec]
  /\ owed' = [owed EXCEPT ![p][key[p]] = @ + 1]

TakeRecord(r, ctx) ==
  /\ holder' = [holder EXCEPT ![r] = ctx]
  /\ depth' = [depth EXCEPT ![r] = 1]

LockFree(p) ==
  /\ holder[record[p]] = NoCtx
  /\ TakeRecord(record[p], CtxOf[p])
  /\ LockReturns(p)
  /\ UNCHANGED <<lockTable, waiter, fatal, history>>

\* Mutant: re-entry is not counted.
LockAgainUncounted(p) ==
  /\ holder[record[p]] = CtxOf[p]
  /\ LockReturns(p)
  /\ UNCHANGED <<recVars, fatal, history>>

LockAgain(p) ==
  /\ holder[record[p]] = CtxOf[p]
  /\ depth[record[p]] + 1 <= MaxDepth
  /\ depth' = [depth EXCEPT ![record[p]] = @ + 1]
  /\ LockReturns(p)
  /\ UNCHANGED <<lockTable, holder, waiter, fatal, history>>

\* depth is raised before the panic; the panic unwinds the goroutine, whose
\* deferred unlocks are those of the calls that had returned.
LockTooDeep(p) ==
  /\ holder[record[p]] = CtxOf[p]
  /\ depth[record[p]] + 1 > MaxDepth
  /\ depth' = [depth EXCEPT ![record[p]] = @ + 1]
  /\ pc' = [pc EXCEPT ![p] = "unwind"]
  /\ key' = [key EXCEPT ![p] = NoKey]
  /\ record' = [record EXCEPT ![p] = NoRec]
  /\ overflowed' = overflowed \cup {key[p]}
  /\ UNCHANGED <<lockTable, holder, waiter, owed, fatal, orphaned>>

HeldByOther(p) == holder[record[p]] \notin {NoCtx, CtxOf[p]}

LockFromWaiter(p) ==
  /\ HeldByOther(p)
  /\ CtxOf[p] \in waiter[record[p]]
  /\ fatal' = "lock from a waiter"
  /\ UNCHANGED <<recVars, procVars, history>>

StartWait(p) ==
  /\ HeldByOther(p)
  /\ CtxOf[p] \notin waiter[record[p]]
  /\ waiter' = [waiter EXCEPT ![record[p]] = @ \cup {CtxOf[p]}]
  /\ pc' = [pc EXCEPT ![p] = "waiting"]
  /\ UNCHANGED <<lockTable, holder, depth, key, record, owed, fatal, history>>

lockContext(p) ==
  /\ fatal = "none"
  /\ pc[p] = "enter"
  /\ \/ LockFree(p)
     \/ LockAgain(p)
     \/ LockTooDeep(p)
     \/ LockFromWaiter(p)
     \/ StartWait(p)

\* Mutant: the woken waiter does not look at the holder again (an "if" for
\* the "for" around cond.Wait).
WakeUpUnchecked(p) ==
  /\ fatal = "none"
  /\ pc[p] = "woken"
  /\ waiter' = [waiter EXCEPT ![record[p]] = @ \ {CtxOf[p]}]
  /\ TakeRecord(record[p], CtxOf[p])
  /\ LockReturns(p)
  /\ UNCHANGED <<lockTable, fatal, history>>

\* Mutant: the woken waiter stays in the waiter list.
WakeUpNoPop(p) ==
  /\ fatal = "none"
  /\ pc[p] = "woken"
  /\ holder[record[p]] = NoCtx
  /\ TakeRecord(record[p], CtxOf[p])
  /\ LockReturns(p)
  /\ UNCHANGED <<lockTable, waiter, fatal, history>>

\* The waiter that cond.Signal woke has the record's lock again and looks at
\* the holder again: someone may have taken the record meanwhile.
WaitAgain(p) ==
  /\ holder[record[p]] # NoCtx
  /\ pc' = [pc EXCEPT ![p] = "waiting"]
  /\ UNCHANGED <<recVars, key, record, owed>>

TakeReleased(p) ==
  /\ holder[record[p]] = NoCtx
  /\ waiter' = [waiter EXCEPT ![record[p]] = @ \ {CtxOf[p]}]
  /\ TakeRecord(record[p], CtxOf[p])
  /\ LockReturns(p)
  /\ UNCHANGED lockTable

WakeUp(p) ==
  /\ fatal = "none"
  /\ pc[p] = "woken"
  /\ WaitAgain(p) \/ TakeReleased(p)
  /\ UNCHANGED <<fatal, history>>

-----------------------------------------------------------------------------
(***************************************************************************)
(* UnlockKey.                                                              *)
(***************************************************************************)

Waiting(r) == {q \in Proc : pc[q] = "waiting" /\ record[q] = r}

\* Mutant: nobody is woken.
SignalNobody(r) == UNCHANGED pc

\* cond.Signal wakes one of the goroutines blocked in cond.Wait, if any.
Signal(r) ==
  \/ /\ Waiting(r) = {}
     /\ UNCHANGED pc
  \/ \E q \in Waiting(r) : pc' = [pc EXCEPT ![q] = "woken"]

UnlockMissing(p, k) ==
  /\ lockTable[k] = NoRec
  /\ UNCHANGED <<recVars, pc, fatal, orphaned>>

UnlockNotHeld(p, k) ==
  /\ lockTable[k] # NoRec
  /\ holder[lockTable[k]] # CtxOf[p]
  /\ fatal' = "unlock a wait context"
  /\ UNCHANGED <<recVars, pc, orphaned>>

UnlockInner(p, k) ==
  /\ lockTable[k] # NoRec
  /\ holder[lockTable[k]] = CtxOf[p]
  /\ depth[lockTable[k]] > 1
  /\ depth' = [depth EXCEPT ![lockTable[k]] = @ - 1]
  /\ UNCHANGED <<lockTable, holder, waiter, pc, fatal, orphaned>>

ReleaseHolder(p, k) ==
  /\ lockTable[k] # NoRec
  /\ holder[lockTable[k]] = CtxOf[p]
  /\ depth[lockTable[k]] <= 1
  /\ depth' = [depth EXCEPT ![lockTable[k]] = @ - 1]
  /\ holder' = [holder EXCEPT ![lockTable[k]] = NoCtx]

UnlockSignal(p, k) ==
  /\ ReleaseHolder(p, k)
  /\ waiter[lockTable[k]] # {}
  /\ Signal(lockTable[k])
  /\ UNCHANGED <<lockTable, waiter, fatal, orphaned>>

\* Mutant: the released record stays in the table.
UnlockCleanKeeps(p, k) ==
  /\ ReleaseHolder(p, k)
  /\ waiter[lockTable[k]] = {}
  /\ UNCHANGED <<lockTable, waiter, pc, fatal, orphaned>>

\* Whoever is between its lookup and lockContext keeps the dropped record.
UnlockClean(p, k) ==
  /\ ReleaseHolder(p, k)
  /\ waiter[lockTable[k]] = {}
  /\ lockTable' = [lockTable EXCEPT ![k] = NoRec]
  /\ orphaned' = IF \E q \in Proc : record[q] = lockTable[k]
                 THEN orphaned \cup {k} ELSE orphaned
  /\ UNCHANGED <<waiter, pc, fatal>>

UnlockKey(p, k) ==
  /\ fatal = "none"
  /\ pc[p] \in {"idle", "unwind"}
  /\ owed[p][k] > 0
  /\ owed' = [owed EXCEPT ![p][k] = @ - 1]
  /\ \/ UnlockMissing(p, k)
     \/ UnlockNotHeld(p, k)
     \/ UnlockInner(p, k)
     \/ UnlockSignal(p, k)
     \/ UnlockClean(p, k)
  /\ UNCHANGED <<key, record, overflowed>>

-----------------------------------------------------------------------------
Next ==
  \E p \in Proc :
    \/ \E k \in Key : LockKey(p, k) \/ UnlockKey(p, k)
    \/ lockContext(p)
    \/ WakeUp(p)

Spec == Init /\ [][Next]_vars

-----------------------------------------------------------------------------
(***************************************************************************)
(* Properties.                                                             *)
(***************************************************************************)

\* The manager's purpose: as long as UnlockKey has not dropped a record that
\* another LockKey was about to lock, the goroutines whose LockKey of one key
\* has returned and is not yet undone all pass the same context.
MutualExclusion ==
  \A k \in Key \ orphaned : \A p, q \in Proc :
    owed[p][k] > 0 /\ owed[q][k] > 0 => CtxOf[p] = CtxOf[q]

\* unlockContext wakes a single waiter and hands it nothing: a record that is
\* in the table with no holder always has a woken waiter on its way to it, so
\* no release is lost between a signal and a goroutine that barges in.
NoLostWakeup ==
  \A k \in Key :
    lockTable[k] # NoRec /\ holder[lockTable[k]] = NoCtx
      => \E q \in Proc : pc[q] = "woken" /\ record[q] = lockTable[k]

PrivateContexts == \A p, q \in Proc : CtxOf[p] = CtxOf[q] => p = q

\* The depth field counts the unlocks its holder owes, and a goroutine that
\* is not the holder owes none: unlockContext releases exactly at the last
\* one.  (Keys that lost a record in use, or whose depth a panic left one too
\* high, are excepted.)
DepthCounts ==
  \A k \in Key \ (orphaned \cup overflowed) : \A p \in Proc :
    owed[p][k] = IF lockTable[k] # NoRec /\ holder[lockTable[k]] = CtxOf[p]
                 THEN depth[lockTable[k]] ELSE 0

InFlight(p, k) == pc[p] \in InLock /\ key[p] = k

\* The table does not grow with the keys ever locked: a key that nobody has
\* locked or is locking has no record.  The only leak is the panic of a lock
\* nested too deep, which leaves the depth it raised.
NoLeak ==
  \A k \in Key \ (orphaned \cup overflowed) :
    (\A p \in Proc : owed[p][k] = 0 /\ ~InFlight(p, k))
      => lockTable[k] = NoRec

\* unlockContext's "try to unlock a wait context" can end the process only
\* after some key has lost a record in use.
FatalUnlockNeedsOrphan == fatal = "unlock a wait context" => orphaned # {}

\* lockContext's "try to lock from a waiter context" needs two goroutines
\* with one context.
FatalLockNeedsSharing == PrivateContexts => fatal # "lock from a waiter"

\* What lockContext asserts: a context that waits for a key does not lock it.
NoLockFromWaiter == fatal # "lock from a waiter"

-----------------------------------------------------------------------------
(***************************************************************************)
(* The inductive invariant behind the safety properties, when contexts are *)
(* private.                                                                *)
(***************************************************************************)

\* A goroutine has a key and a record exactly while it is inside LockKey.
CallState ==
  \A p \in Proc :
    /\ pc[p] \in InLock => key[p] \in Key /\ record[p] \in Rec
    /\ pc[p] \notin InLock => key[p] = NoKey /\ record[p] = NoRec

\* No record serves two keys, not even a dropped one that is still in use.
RecordsDistinct ==
  /\ \A k, l \in Key : lockTable[k] = lockTable[l] /\ lockTable[k] # NoRec => k = l
  /\ \A p \in Proc, k \in Key :
       pc[p] \in InLock /\ lockTable[k] = record[p] => key[p] = k

\* Who is inside LockKey has the record that is in the table.
InFlightInTable ==
  \A p \in Proc :
    pc[p] \in InLock /\ key[p] \notin orphaned => lockTable[key[p]] = record[p]

\* The waiter list is the contexts of the goroutines blocked in lockContext.
WaitersExact ==
  /\ \A r \in Rec, p \in Proc :
       CtxOf[p] \in waiter[r] <=> pc[p] \in {"waiting", "woken"} /\ record[p] = r
  /\ \A r \in Rec : \A c \in waiter[r] : \E p \in Proc : c = CtxOf[p]

\* Who owes an unlock is the holder, at least that deep.
OwingHolds ==
  \A p \in Proc, k \in Key \ orphaned :
    owed[p][k] > 0 => /\ lockTable[k] # NoRec
                      /\ holder[lockTable[k]] = CtxOf[p]
                      /\ depth[lockTable[k]] >= owed[p][k]

\* A holder is a goroutine's context.
HolderKnown ==
  \A r \in Rec :
    holder[r] # NoCtx => depth[r] >= 0 /\ \E p \in Proc : holder[r] = CtxOf[p]

\* A holder at depth 0 is the record's creator, on its way to lockContext.
CreatorEnters ==
  \A k \in Key \ (orphaned \cup overflowed) :
    lockTable[k] # NoRec /\ holder[lockTable[k]] # NoCtx /\ depth[lockTable[k]] = 0
      => \E p \in Proc : /\ pc[p] = "enter"
                         /\ record[p] = lockTable[k]
                         /\ holder[lockTable[k]] = CtxOf[p]

IInv ==
  /\ TypeOK
  /\ CallState
  /\ RecordsDistinct
  /\ InFlightInTable
  /\ WaitersExact
  /\ OwingHolds
  /\ HolderKnown
  /\ CreatorEnters
  /\ DepthCounts
  /\ NoLostWakeup
  /\ FatalUnlockNeedsOrphan
  /\ NoLockFromWaiter

-----------------------------------------------------------------------------
(***************************************************************************)
(* Liveness.  Every caller defers its unlock, so a goroutine that is not   *)
(* inside LockKey goes on to unlock what it owes; goroutines inside the    *)
(* manager are scheduled.  Nothing hands the lock over, so a waiter can    *)
(* only be promised the lock once the others stop asking for it.           *)
(***************************************************************************)
Fairness ==
  \A p \in Proc :
    /\ WF_vars(lockContext(p))
    /\ WF_vars(WakeUp(p))
    /\ \A k \in Key : WF_vars(UnlockKey(p, k))

FairSpec == Spec /\ Fairness

FinitelyManyLocks == <>[][\A p \in Proc, k \in Key : ~LockKey(p, k)]_vars

\* If the calls of LockKey come to an end, every one of them returns: no
\* waiter is left behind, whatever the order of barging and signals, unless a
\* record in use was dropped.
LockReturnsEventually ==
  FinitelyManyLocks /\ [](orphaned = {})
    => \A p \in Proc : pc[p] \in InLock ~> pc[p] \notin InLock
=============================================================================
