--------------------------- MODULE LockManProofs ----------------------------
(***************************************************************************)
(* Proofs about LockMan, for any number of goroutines, keys and records:   *)
(* its types; the records of the table and the goroutine that makes one;   *)
(* the waiters of a record, who owes an unlock, how deep the holder is;    *)
(* the inductive invariant put together, and what it implies: exclusion,   *)
(* exact depths, no lost release, no leak, and what can end the process.   *)
(***************************************************************************)
EXTENDS LockMan, TLAPS

\* Provers: the default time limits, then longer ones.
USE SMT, Zenon, SMTT(60), ZenonT(60)

USE DEF InLock, recVars, procVars, history

WellFormed == TypeOK /\ CallState

\* Every action keeps the types, and a goroutine's key and record are those of
\* a call in progress.
LEMMA TypeStep == WellFormed /\ [Next]_vars => WellFormed'
<1> SUFFICES ASSUME WellFormed, [Next]_vars PROVE WellFormed'
  OBVIOUS
<1> USE LockManAssumption DEF WellFormed, TypeOK, CallState
<1>1. ASSUME NEW p \in Proc, NEW k \in Key, LockKey(p, k) PROVE WellFormed'
  <2>1. CASE FindRecord(p, k)
    <3>1. TypeOK'
      BY <1>1, <2>1, ZenonT(60) DEF LockKey, FindRecord
    <3>2. ASSUME NEW q \in Proc
          PROVE  /\ pc'[q] \in InLock => key'[q] \in Key /\ record'[q] \in Rec
                 /\ pc'[q] \notin InLock => key'[q] = NoKey /\ record'[q] = NoRec
      BY <1>1, <2>1 DEF LockKey, FindRecord
    <3> QED BY <3>1, <3>2, ZenonT(60)
  <2>2. CASE \E r \in Free : MakeRecord(p, k, r)
    <3>1. TypeOK'
      BY <1>1, <2>2 DEF LockKey, MakeRecord, newInMemoryLockRecord, Free
    <3>2. ASSUME NEW q \in Proc
          PROVE  /\ pc'[q] \in InLock => key'[q] \in Key /\ record'[q] \in Rec
                 /\ pc'[q] \notin InLock => key'[q] = NoKey /\ record'[q] = NoRec
      BY <1>1, <2>2 DEF LockKey, MakeRecord, newInMemoryLockRecord, Free
    <3> QED BY <3>1, <3>2, ZenonT(60)
  <2> QED BY <1>1, <2>1, <2>2 DEF LockKey, getRecordWithLock
<1>2. ASSUME NEW p \in Proc, NEW k \in Key, UnlockKey(p, k) PROVE WellFormed'
  <2>0. owed' \in [Proc -> [Key -> Nat]]
    BY <1>2 DEF UnlockKey
  <2>1. CASE UnlockMissing(p, k)
    <3>1. TypeOK'
      BY <1>2, <2>0, <2>1, ZenonT(60) DEF UnlockKey, UnlockMissing
    <3>2. ASSUME NEW q \in Proc
          PROVE  /\ pc'[q] \in InLock => key'[q] \in Key /\ record'[q] \in Rec
                 /\ pc'[q] \notin InLock => key'[q] = NoKey /\ record'[q] = NoRec
      BY <1>2, <2>1 DEF UnlockKey, UnlockMissing
    <3> QED BY <3>1, <3>2, ZenonT(60)
  <2>2. CASE UnlockNotHeld(p, k)
    <3>1. TypeOK'
      BY <1>2, <2>0, <2>2, ZenonT(60) DEF UnlockKey, UnlockNotHeld
    <3>2. ASSUME NEW q \in Proc
          PROVE  /\ pc'[q] \in InLock => key'[q] \in Key /\ record'[q] \in Rec
                 /\ pc'[q] \notin InLock => key'[q] = NoKey /\ record'[q] = NoRec
      BY <1>2, <2>0, <2>2, ZenonT(60) DEF UnlockKey, UnlockNotHeld
    <3> QED BY <3>1, <3>2, ZenonT(60)
  <2>3. CASE UnlockInner(p, k)
    <3>1. TypeOK'
      BY <1>2, <2>0, <2>3 DEF UnlockKey, UnlockInner
    <3>2. ASSUME NEW q \in Proc
          PROVE  /\ pc'[q] \in InLock => key'[q] \in Key /\ record'[q] \in Rec
                 /\ pc'[q] \notin InLock => key'[q] = NoKey /\ record'[q] = NoRec
      BY <1>2, <2>0, <2>3 DEF UnlockKey, UnlockInner
    <3> QED BY <3>1, <3>2, ZenonT(60)
  <2>4. CASE UnlockSignal(p, k)
    <3>0. pc' \in [Proc -> InLock \cup {"idle", "unwind"}]
      BY <2>4, ZenonT(60) DEF UnlockSignal, Signal, Waiting
    <3>1. TypeOK'
      BY <1>2, <2>0, <2>4, <3>0 DEF UnlockKey, UnlockSignal, ReleaseHolder
    <3>2. ASSUME NEW q \in Proc
          PROVE  /\ pc'[q] \in InLock => key'[q] \in Key /\ record'[q] \in Rec
                 /\ pc'[q] \notin InLock => key'[q] = NoKey /\ record'[q] = NoRec
      BY <1>2, <2>0, <2>4 DEF UnlockKey, UnlockSignal, ReleaseHolder, Signal, Waiting
    <3> QED BY <3>1, <3>2, ZenonT(60)
  <2>5. CASE UnlockClean(p, k)
    <3>1. TypeOK'
      BY <1>2, <2>0, <2>5 DEF UnlockKey, UnlockClean, ReleaseHolder
    <3>2. ASSUME NEW q \in Proc
          PROVE  /\ pc'[q] \in InLock => key'[q] \in Key /\ record'[q] \in Rec
                 /\ pc'[q] \notin InLock => key'[q] = NoKey /\ record'[q] = NoRec
      BY <1>2, <2>0, <2>5 DEF UnlockKey, UnlockClean, ReleaseHolder
    <3> QED BY <3>1, <3>2, ZenonT(60)
  <2> QED BY <1>2, <2>1, <2>2, <2>3, <2>4, <2>5, ZenonT(60) DEF UnlockKey
<1>3. ASSUME NEW p \in Proc, lockContext(p) PROVE WellFormed'
  <2>1. CASE LockFree(p)
    <3>1. TypeOK'
      BY <1>3, <2>1 DEF lockContext, LockFree, TakeRecord, LockReturns
    <3>2. ASSUME NEW q \in Proc
          PROVE  /\ pc'[q] \in InLock => key'[q] \in Key /\ record'[q] \in Rec
                 /\ pc'[q] \notin InLock => key'[q] = NoKey /\ record'[q] = NoRec
      BY <1>3, <2>1 DEF lockContext, LockFree, TakeRecord, LockReturns
    <3> QED BY <3>1, <3>2, ZenonT(60)
  <2>2. CASE LockAgain(p)
    <3>1. TypeOK'
      BY <1>3, <2>2 DEF lockContext, LockAgain, LockReturns
    <3>2. ASSUME NEW q \in Proc
          PROVE  /\ pc'[q] \in InLock => key'[q] \in Key /\ record'[q] \in Rec
                 /\ pc'[q] \notin InLock => key'[q] = NoKey /\ record'[q] = NoRec
      BY <1>3, <2>2 DEF lockContext, LockAgain, LockReturns
    <3> QED BY <3>1, <3>2, ZenonT(60)
  <2>3. CASE LockTooDeep(p)
    <3>1. TypeOK'
      BY <1>3, <2>3 DEF lockContext, LockTooDeep
    <3>2. ASSUME NEW q \in Proc
          PROVE  /\ pc'[q] \in InLock => key'[q] \in Key /\ record'[q] \in Rec
                 /\ pc'[q] \notin InLock => key'[q] = NoKey /\ record'[q] = NoRec
      BY <1>3, <2>3 DEF lockContext, LockTooDeep
    <3> QED BY <3>1, <3>2, ZenonT(60)
  <2>4. CASE LockFromWaiter(p)
    <3>1. TypeOK'
      BY <1>3, <2>4, ZenonT(60) DEF LockFromWaiter
    <3>2. ASSUME NEW q \in Proc
          PROVE  /\ pc'[q] \in InLock => key'[q] \in Key /\ record'[q] \in Rec
                 /\ pc'[q] \notin InLock => key'[q] = NoKey /\ record'[q] = NoRec
      BY <1>3, <2>4, ZenonT(60) DEF LockFromWaiter
    <3> QED BY <3>1, <3>2, ZenonT(60)
  <2>5. CASE StartWait(p)
    <3>1. TypeOK'
      BY <1>3, <2>5 DEF lockContext, StartWait
    <3>2. ASSUME NEW q \in Proc
          PROVE  /\ pc'[q] \in InLock => key'[q] \in Key /\ record'[q] \in Rec
                 /\ pc'[q] \notin InLock => key'[q] = NoKey /\ record'[q] = NoRec
      BY <1>3, <2>5 DEF lockContext, StartWait
    <3> QED BY <3>1, <3>2, ZenonT(60)
  <2> QED BY <1>3, <2>1, <2>2, <2>3, <2>4, <2>5, ZenonT(60) DEF lockContext
<1>4. ASSUME NEW p \in Proc, WakeUp(p) PROVE WellFormed'
  <2>1. CASE TakeReleased(p)
    <3>1. TypeOK'
      BY <1>4, <2>1 DEF WakeUp, TakeReleased, TakeRecord, LockReturns
    <3>2. ASSUME NEW q \in Proc
          PROVE  /\ pc'[q] \in InLock => key'[q] \in Key /\ record'[q] \in Rec
                 /\ pc'[q] \notin InLock => key'[q] = NoKey /\ record'[q] = NoRec
      BY <1>4, <2>1 DEF WakeUp, TakeReleased, TakeRecord, LockReturns
    <3> QED BY <3>1, <3>2, ZenonT(60)
  <2>2. CASE WaitAgain(p)
    <3>1. TypeOK'
      BY <1>4, <2>2, ZenonT(60) DEF WakeUp, WaitAgain
    <3>2. ASSUME NEW q \in Proc
          PROVE  /\ pc'[q] \in InLock => key'[q] \in Key /\ record'[q] \in Rec
                 /\ pc'[q] \notin InLock => key'[q] = NoKey /\ record'[q] = NoRec
      BY <1>4, <2>2 DEF WakeUp, WaitAgain
    <3> QED BY <3>1, <3>2, ZenonT(60)
  <2> QED BY <1>4, <2>1, <2>2, ZenonT(60) DEF WakeUp
<1>5. CASE UNCHANGED vars
  BY <1>5, ZenonT(60) DEF vars
<1> QED BY <1>1, <1>2, <1>3, <1>4, <1>5, ZenonT(60) DEF Next

\* Every state of the lock manager is well typed.
THEOREM TypeCorrect == Spec => []TypeOK
<1>1. Init => WellFormed
  BY LockManAssumption DEF Init, WellFormed, TypeOK, CallState
<1>2. WellFormed => TypeOK
  BY DEF WellFormed
<1> QED BY <1>1, <1>2, TypeStep, PTL DEF Spec

-----------------------------------------------------------------------------
(***************************************************************************)
(* The part of the inductive invariant that is about records alone.        *)
(***************************************************************************)

\* A record never serves two keys.
LEMMA RecordsStep ==
  ASSUME TypeOK, CallState, RecordsDistinct, [Next]_vars
  PROVE  RecordsDistinct'
<1>1. ASSUME NEW p \in Proc, NEW k \in Key, LockKey(p, k) PROVE RecordsDistinct'
  <2>1. CASE FindRecord(p, k)
    BY LockManAssumption, <1>1, <2>1 DEF TypeOK, CallState, RecordsDistinct,
       LockKey, FindRecord
  <2>2. CASE \E r \in Free : MakeRecord(p, k, r)
    BY LockManAssumption, <1>1, <2>2 DEF TypeOK, CallState, RecordsDistinct,
       LockKey, MakeRecord, newInMemoryLockRecord, Free
  <2> QED BY <1>1, <2>1, <2>2, ZenonT(60) DEF LockKey, getRecordWithLock
<1>2. ASSUME NEW p \in Proc, lockContext(p) PROVE RecordsDistinct'
  <2>1. CASE LockFromWaiter(p)
    <3>1. UNCHANGED <<lockTable, pc, key, record>>
      BY <1>2, <2>1, ZenonT(60) DEF lockContext, LockFromWaiter
    <3> QED BY <3>1 DEF RecordsDistinct
  <2>2. CASE LockFree(p)
    BY LockManAssumption, <1>2, <2>2 DEF TypeOK, CallState, RecordsDistinct,
       lockContext, LockFree, TakeRecord, LockReturns
  <2>3. CASE LockAgain(p)
    BY LockManAssumption, <1>2, <2>3 DEF TypeOK, CallState, RecordsDistinct,
       lockContext, LockAgain, LockReturns
  <2>4. CASE LockTooDeep(p)
    BY LockManAssumption, <1>2, <2>4 DEF TypeOK, CallState, RecordsDistinct,
       lockContext, LockTooDeep
  <2>5. CASE StartWait(p)
    BY LockManAssumption, <1>2, <2>5 DEF TypeOK, CallState, RecordsDistinct,
       lockContext, StartWait, HeldByOther
  <2> QED BY <1>2, <2>1, <2>2, <2>3, <2>4, <2>5, ZenonT(60) DEF lockContext
<1>3. ASSUME NEW p \in Proc, WakeUp(p) PROVE RecordsDistinct'
  <2>1. CASE WaitAgain(p)
    BY LockManAssumption, <1>3, <2>1 DEF TypeOK, CallState, RecordsDistinct,
       WakeUp, WaitAgain
  <2>2. CASE TakeReleased(p)
    BY LockManAssumption, <1>3, <2>2 DEF TypeOK, CallState, RecordsDistinct,
       WakeUp, TakeReleased, TakeRecord, LockReturns
  <2> QED BY <1>3, <2>1, <2>2, ZenonT(60) DEF WakeUp
<1>4. ASSUME NEW p \in Proc, NEW k \in Key, UnlockKey(p, k)
      PROVE  RecordsDistinct'
  <2>1. CASE UnlockMissing(p, k) \/ UnlockNotHeld(p, k) \/ UnlockInner(p, k)
    <3>1. UNCHANGED <<lockTable, pc, key, record>>
      BY <1>4, <2>1, ZenonT(60) DEF UnlockKey, UnlockMissing, UnlockNotHeld, UnlockInner
    <3> QED BY <3>1 DEF RecordsDistinct
  <2>2. CASE UnlockSignal(p, k)
    BY LockManAssumption, <1>4, <2>2 DEF TypeOK, CallState, RecordsDistinct,
       UnlockKey, UnlockSignal, ReleaseHolder, Signal, Waiting
  <2>3. CASE UnlockClean(p, k)
    BY LockManAssumption, <1>4, <2>3 DEF TypeOK, CallState, RecordsDistinct,
       UnlockKey, UnlockClean, ReleaseHolder
  <2> QED BY <1>4, <2>1, <2>2, <2>3, ZenonT(60) DEF UnlockKey
<1>5. CASE UNCHANGED vars
  BY <1>5 DEF vars, RecordsDistinct
<1> QED BY <1>1, <1>2, <1>3, <1>4, <1>5, ZenonT(60) DEF Next

\* A call in progress has its key's record, unless it was dropped.
LEMMA InFlightStep ==
  ASSUME TypeOK, CallState, RecordsDistinct, InFlightInTable, [Next]_vars
  PROVE  InFlightInTable'
<1>1. ASSUME NEW p \in Proc, NEW k \in Key, LockKey(p, k) PROVE InFlightInTable'
  <2>1. CASE FindRecord(p, k)
    BY LockManAssumption, <1>1, <2>1, ZenonT(60) DEF TypeOK, CallState, RecordsDistinct,
       InFlightInTable, LockKey, FindRecord
  <2>2. CASE \E r \in Free : MakeRecord(p, k, r)
    BY LockManAssumption, <1>1, <2>2 DEF TypeOK, CallState, RecordsDistinct,
       InFlightInTable, LockKey, MakeRecord, newInMemoryLockRecord, Free
  <2> QED BY <1>1, <2>1, <2>2, ZenonT(60) DEF LockKey, getRecordWithLock
<1>2. ASSUME NEW p \in Proc, lockContext(p) PROVE InFlightInTable'
  <2>1. CASE LockFromWaiter(p)
    <3>1. UNCHANGED <<lockTable, pc, key, record, orphaned>>
      BY <1>2, <2>1, ZenonT(60) DEF lockContext, LockFromWaiter
    <3> QED BY <3>1 DEF InFlightInTable
  <2>2. CASE LockFree(p)
    BY LockManAssumption, <1>2, <2>2 DEF TypeOK, CallState, RecordsDistinct,
       InFlightInTable, lockContext, LockFree, TakeRecord, LockReturns
  <2>3. CASE LockAgain(p)
    BY LockManAssumption, <1>2, <2>3 DEF TypeOK, CallState, RecordsDistinct,
       InFlightInTable, lockContext, LockAgain, LockReturns
  <2>4. CASE LockTooDeep(p)
    BY LockManAssumption, <1>2, <2>4 DEF TypeOK, CallState, RecordsDistinct,
       InFlightInTable, lockContext, LockTooDeep
  <2>5. CASE StartWait(p)
    BY LockManAssumption, <1>2, <2>5 DEF TypeOK, CallState, RecordsDistinct,
       InFlightInTable, lockContext, StartWait, HeldByOther
  <2> QED BY <1>2, <2>1, <2>2, <2>3, <2>4, <2>5, ZenonT(60) DEF lockContext
<1>3. ASSUME NEW p \in Proc, WakeUp(p) PROVE InFlightInTable'
  <2>1. CASE WaitAgain(p)
    BY LockManAssumption, <1>3, <2>1 DEF TypeOK, CallState, RecordsDistinct,
       InFlightInTable, WakeUp, WaitAgain
  <2>2. CASE TakeReleased(p)
    BY LockManAssumption, <1>3, <2>2 DEF TypeOK, CallState, RecordsDistinct,
       InFlightInTable, WakeUp, TakeReleased, TakeRecord, LockReturns
  <2> QED BY <1>3, <2>1, <2>2, ZenonT(60) DEF WakeUp
<1>4. ASSUME NEW p \in Proc, NEW k \in Key, UnlockKey(p, k)
      PROVE  InFlightInTable'
  <2>1. CASE UnlockMissing(p, k) \/ UnlockNotHeld(p, k) \/ UnlockInner(p, k)
    <3>1. UNCHANGED <<lockTable, pc, key, record, orphaned>>
      BY <1>4, <2>1, ZenonT(60) DEF UnlockKey, UnlockMissing, UnlockNotHeld, UnlockInner
    <3> QED BY <3>1 DEF InFlightInTable
  <2>2. CASE UnlockSignal(p, k)
    BY LockManAssumption, <1>4, <2>2 DEF TypeOK, CallState, RecordsDistinct,
       InFlightInTable, UnlockKey, UnlockSignal, ReleaseHolder, Signal, Waiting
  <2>3. CASE UnlockClean(p, k)
    BY LockManAssumption, <1>4, <2>3 DEF TypeOK, CallState, RecordsDistinct,
       InFlightInTable, UnlockKey, UnlockClean, ReleaseHolder
  <2> QED BY <1>4, <2>1, <2>2, <2>3, ZenonT(60) DEF UnlockKey
<1>5. CASE UNCHANGED vars
  BY <1>5, ZenonT(60) DEF vars, InFlightInTable
<1> QED BY <1>1, <1>2, <1>3, <1>4, <1>5, ZenonT(60) DEF Next

-----------------------------------------------------------------------------
\* A holder at depth 0 is a creator about to lock.
LEMMA CreatorStep ==
  ASSUME PrivateContexts, TypeOK, CallState, RecordsDistinct, InFlightInTable,
         HolderKnown, CreatorEnters, [Next]_vars
  PROVE  CreatorEnters'
<1>1. ASSUME NEW p \in Proc, NEW k \in Key, LockKey(p, k) PROVE CreatorEnters'
  <2>1. CASE FindRecord(p, k)
    BY LockManAssumption, <1>1, <2>1 DEF PrivateContexts, TypeOK, CallState,
       RecordsDistinct, InFlightInTable, CreatorEnters, LockKey, FindRecord
  <2>2. CASE \E r \in Free : MakeRecord(p, k, r)
    BY LockManAssumption, <1>1, <2>2 DEF PrivateContexts, TypeOK, CallState,
       RecordsDistinct, InFlightInTable, CreatorEnters, LockKey, MakeRecord,
       newInMemoryLockRecord, Free
  <2> QED BY <1>1, <2>1, <2>2, ZenonT(60) DEF LockKey, getRecordWithLock
<1>2. ASSUME NEW p \in Proc, lockContext(p) PROVE CreatorEnters'
  <2>1. CASE LockFromWaiter(p)
    <3>1. UNCHANGED <<lockTable, holder, depth, pc, record, orphaned, overflowed>>
      BY <1>2, <2>1, ZenonT(60) DEF lockContext, LockFromWaiter
    <3> QED BY <3>1 DEF CreatorEnters
  <2>2. CASE LockFree(p)
    <3>1. SUFFICES ASSUME NEW l \in Key \ (orphaned \cup overflowed),
                          lockTable[l] # NoRec,
                          holder'[lockTable[l]] # NoCtx,
                          depth'[lockTable[l]] = 0
                   PROVE  \E q \in Proc : /\ pc'[q] = "enter"
                                          /\ record'[q] = lockTable[l]
                                          /\ holder'[lockTable[l]] = CtxOf[q]
      <4>1. UNCHANGED <<lockTable, orphaned, overflowed>>
        BY LockManAssumption, <1>2, <2>2, ZenonT(60) DEF LockFree
      <4> QED BY <4>1 DEF CreatorEnters
    <3>2. lockTable[l] # record[p] /\ lockTable[l] \in Rec
      BY LockManAssumption, <1>2, <2>2, <3>1
      DEF TypeOK, CallState, HolderKnown, lockContext, LockFree, TakeRecord, LockReturns
    <3>3. /\ holder'[lockTable[l]] = holder[lockTable[l]]
          /\ depth'[lockTable[l]] = depth[lockTable[l]]
      BY LockManAssumption, <1>2, <2>2, <3>2
      DEF TypeOK, CallState, HolderKnown, lockContext, LockFree, TakeRecord, LockReturns
    <3>4. PICK q \in Proc : /\ pc[q] = "enter"
                            /\ record[q] = lockTable[l]
                            /\ holder[lockTable[l]] = CtxOf[q]
      BY <3>1, <3>3, ZenonT(60) DEF CreatorEnters
    <3>5. pc'[q] = "enter" /\ record'[q] = record[q]
      BY LockManAssumption, <1>2, <2>2, <3>2, <3>4, ZenonT(60)
      DEF TypeOK, CallState, HolderKnown, lockContext, LockFree, TakeRecord, LockReturns
    <3> QED BY <3>3, <3>4, <3>5, ZenonT(60)
  <2>3. CASE LockAgain(p)
    <3>1. SUFFICES ASSUME NEW l \in Key \ (orphaned \cup overflowed),
                          lockTable[l] # NoRec,
                          holder'[lockTable[l]] # NoCtx,
                          depth'[lockTable[l]] = 0
                   PROVE  \E q \in Proc : /\ pc'[q] = "enter"
                                          /\ record'[q] = lockTable[l]
                                          /\ holder'[lockTable[l]] = CtxOf[q]
      <4>1. UNCHANGED <<lockTable, orphaned, overflowed>>
        BY LockManAssumption, <1>2, <2>3, ZenonT(60) DEF LockAgain
      <4> QED BY <4>1 DEF CreatorEnters
    <3>2. lockTable[l] # record[p] /\ lockTable[l] \in Rec
      BY LockManAssumption, <1>2, <2>3, <3>1
      DEF TypeOK, CallState, HolderKnown, lockContext, LockAgain, LockReturns
    <3>3. /\ holder'[lockTable[l]] = holder[lockTable[l]]
          /\ depth'[lockTable[l]] = depth[lockTable[l]]
      BY LockManAssumption, <1>2, <2>3, <3>2, ZenonT(60)
      DEF TypeOK, CallState, HolderKnown, lockContext, LockAgain, LockReturns
    <3>4. PICK q \in Proc : /\ pc[q] = "enter"
                            /\ record[q] = lockTable[l]
                            /\ holder[lockTable[l]] = CtxOf[q]
      BY <3>1, <3>3 DEF CreatorEnters
    <3>5. pc'[q] = "enter" /\ record'[q] = record[q]
      BY LockManAssumption, <1>2, <2>3, <3>2, <3>4, ZenonT(60)
      DEF TypeOK, CallState, HolderKnown, lockContext, LockAgain, LockReturns
    <3> QED BY <3>3, <3>4, <3>5
  <2>4. CASE LockTooDeep(p)
    BY LockManAssumption, <1>2, <2>4 DEF PrivateContexts, TypeOK, CallState,
       RecordsDistinct, InFlightInTable, CreatorEnters, lockContext,
       LockTooDeep
  <2>5. CASE StartWait(p)
    BY LockManAssumption, <1>2, <2>5 DEF PrivateContexts, TypeOK, CallState,
       RecordsDistinct, InFlightInTable, CreatorEnters, lockContext, StartWait,
       HeldByOther
  <2> QED BY <1>2, <2>1, <2>2, <2>3, <2>4, <2>5, ZenonT(60) DEF lockContext
<1>3. ASSUME NEW p \in Proc, WakeUp(p) PROVE CreatorEnters'
  <2>1. CASE WaitAgain(p)
    BY LockManAssumption, <1>3, <2>1 DEF PrivateContexts, TypeOK, CallState,
       RecordsDistinct, InFlightInTable, CreatorEnters, WakeUp, WaitAgain
  <2>2. CASE TakeReleased(p)
    <3>1. SUFFICES ASSUME NEW l \in Key \ (orphaned \cup overflowed),
                          lockTable[l] # NoRec,
                          holder'[lockTable[l]] # NoCtx,
                          depth'[lockTable[l]] = 0
                   PROVE  \E q \in Proc : /\ pc'[q] = "enter"
                                          /\ record'[q] = lockTable[l]
                                          /\ holder'[lockTable[l]] = CtxOf[q]
      <4>1. UNCHANGED <<lockTable, orphaned, overflowed>>
        BY LockManAssumption, <1>3, <2>2, ZenonT(60) DEF WakeUp, TakeReleased
      <4> QED BY <4>1 DEF CreatorEnters
    <3>2. lockTable[l] # record[p] /\ lockTable[l] \in Rec
      BY LockManAssumption, <1>3, <2>2, <3>1
      DEF TypeOK, CallState, WakeUp, TakeReleased, TakeRecord, LockReturns
    <3>3. /\ holder'[lockTable[l]] = holder[lockTable[l]]
          /\ depth'[lockTable[l]] = depth[lockTable[l]]
      BY LockManAssumption, <1>3, <2>2, <3>2
      DEF TypeOK, CallState, WakeUp, TakeReleased, TakeRecord, LockReturns
    <3>4. PICK q \in Proc : /\ pc[q] = "enter"
                            /\ record[q] = lockTable[l]
                            /\ holder[lockTable[l]] = CtxOf[q]
      BY <3>1, <3>3 DEF CreatorEnters
    <3>5. pc'[q] = "enter" /\ record'[q] = record[q]
      BY LockManAssumption, <1>3, <2>2, <3>2, <3>4
      DEF TypeOK, CallState, WakeUp, TakeReleased, TakeRecord, LockReturns
    <3> QED BY <3>3, <3>4, <3>5
  <2> QED BY <1>3, <2>1, <2>2, ZenonT(60) DEF WakeUp
<1>4. ASSUME NEW p \in Proc, NEW k \in Key, UnlockKey(p, k) PROVE CreatorEnters'
  <2>1. CASE UnlockMissing(p, k) \/ UnlockNotHeld(p, k)
    <3>1. UNCHANGED <<lockTable, holder, depth, pc, record, orphaned, overflowed>>
      BY <1>4, <2>1, ZenonT(60) DEF UnlockKey, UnlockMissing, UnlockNotHeld
    <3> QED BY <3>1 DEF CreatorEnters
  <2>2. CASE UnlockInner(p, k)
    BY LockManAssumption, <1>4, <2>2 DEF PrivateContexts, TypeOK, CallState,
       RecordsDistinct, InFlightInTable, CreatorEnters, UnlockKey, UnlockInner
  <2>3. CASE UnlockSignal(p, k)
    <3>0. UNCHANGED <<lockTable, orphaned, overflowed>>
      BY LockManAssumption, <1>4, <2>3, ZenonT(60) DEF UnlockKey, UnlockSignal
    <3>1. SUFFICES ASSUME NEW l \in Key \ (orphaned' \cup overflowed'),
                          lockTable'[l] # NoRec,
                          holder'[lockTable'[l]] # NoCtx,
                          depth'[lockTable'[l]] = 0
                   PROVE  \E q \in Proc : /\ pc'[q] = "enter"
                                          /\ record'[q] = lockTable'[l]
                                          /\ holder'[lockTable'[l]] = CtxOf[q]
      BY ZenonT(60) DEF CreatorEnters
    <3>a. /\ l \in Key \ (orphaned \cup overflowed) /\ lockTable[l] # NoRec
          /\ holder'[lockTable[l]] # NoCtx /\ depth'[lockTable[l]] = 0
      BY <3>0, <3>1, ZenonT(60)
    <3>2. lockTable[l] # lockTable[k] /\ lockTable[l] \in Rec
      BY LockManAssumption, <1>4, <2>3, <3>a
      DEF TypeOK, CallState, RecordsDistinct, UnlockSignal, ReleaseHolder
    <3>3. /\ holder'[lockTable[l]] = holder[lockTable[l]]
          /\ depth'[lockTable[l]] = depth[lockTable[l]]
      BY <2>3, <3>2 DEF TypeOK, UnlockSignal, ReleaseHolder
    <3>4. PICK q \in Proc : /\ pc[q] = "enter"
                            /\ record[q] = lockTable[l]
                            /\ holder[lockTable[l]] = CtxOf[q]
      BY <3>a, <3>3, ZenonT(60) DEF CreatorEnters
    <3>5. pc'[q] = "enter" /\ record'[q] = record[q]
      BY <1>4, <2>3, <3>2, <3>4
      DEF TypeOK, UnlockKey, UnlockSignal, Signal, Waiting
    <3> QED BY <3>0, <3>3, <3>4, <3>5, ZenonT(60)
  <2>4. CASE UnlockClean(p, k)
    BY LockManAssumption, <1>4, <2>4 DEF PrivateContexts, TypeOK, CallState,
       RecordsDistinct, InFlightInTable, CreatorEnters, UnlockKey, UnlockClean,
       ReleaseHolder
  <2> QED BY <1>4, <2>1, <2>2, <2>3, <2>4, ZenonT(60) DEF UnlockKey
<1>5. CASE UNCHANGED vars
  <2>1. UNCHANGED <<lockTable, holder, depth, pc, record, orphaned, overflowed>>
    BY <1>5, ZenonT(60) DEF vars
  <2> QED BY <2>1 DEF CreatorEnters
<1> QED BY <1>1, <1>2, <1>3, <1>4, <1>5, ZenonT(60) DEF Next



(***************************************************************************)
(* The waiters: the list is exactly the blocked goroutines, a release wakes*)
(* one of them, nobody waits twice; and who owes an unlock is the holder.  *)
(***************************************************************************)

\* The waiter list is exact.
LEMMA WaitersStep ==
  ASSUME PrivateContexts, TypeOK, CallState, WaitersExact, [Next]_vars
  PROVE  WaitersExact'
<1>1. ASSUME NEW p \in Proc, NEW k \in Key, LockKey(p, k) PROVE WaitersExact'
  <2>1. CASE FindRecord(p, k)
    BY LockManAssumption, <1>1, <2>1 DEF PrivateContexts, TypeOK, CallState,
       WaitersExact, LockKey, FindRecord
  <2>2. CASE \E r \in Free : MakeRecord(p, k, r)
    BY LockManAssumption, <1>1, <2>2 DEF PrivateContexts, TypeOK, CallState,
       WaitersExact, LockKey, MakeRecord, newInMemoryLockRecord, Free
  <2> QED BY <1>1, <2>1, <2>2, ZenonT(60) DEF LockKey, getRecordWithLock
<1>2. ASSUME NEW p \in Proc, lockContext(p) PROVE WaitersExact'
  <2>1. CASE LockFromWaiter(p)
    <3>1. UNCHANGED <<waiter, pc, record>>
      BY <1>2, <2>1, ZenonT(60) DEF lockContext, LockFromWaiter
    <3> QED BY <3>1 DEF WaitersExact
  <2>2. CASE LockFree(p)
    BY LockManAssumption, <1>2, <2>2 DEF PrivateContexts, TypeOK, CallState,
       WaitersExact, lockContext, LockFree, TakeRecord, LockReturns
  <2>3. CASE LockAgain(p)
    BY LockManAssumption, <1>2, <2>3 DEF PrivateContexts, TypeOK, CallState,
       WaitersExact, lockContext, LockAgain, LockReturns
  <2>4. CASE LockTooDeep(p)
    BY LockManAssumption, <1>2, <2>4 DEF PrivateContexts, TypeOK, CallState,
       WaitersExact, lockContext, LockTooDeep
  <2>5. CASE StartWait(p)
    BY LockManAssumption, <1>2, <2>5 DEF PrivateContexts, TypeOK, CallState,
       WaitersExact, lockContext, StartWait, HeldByOther
  <2> QED BY <1>2, <2>1, <2>2, <2>3, <2>4, <2>5 DEF lockContext
<1>3. ASSUME NEW p \in Proc, WakeUp(p) PROVE WaitersExact'
  <2>1. CASE WaitAgain(p)
    BY LockManAssumption, <1>3, <2>1 DEF PrivateContexts, TypeOK, CallState,
       WaitersExact, WakeUp, WaitAgain
  <2>2. CASE TakeReleased(p)
    BY LockManAssumption, <1>3, <2>2 DEF PrivateContexts, TypeOK, CallState,
       WaitersExact, WakeUp, TakeReleased, TakeRecord, LockReturns
  <2> QED BY <1>3, <2>1, <2>2, ZenonT(60) DEF WakeUp
<1>4. ASSUME NEW p \in Proc, NEW k \in Key, UnlockKey(p, k) PROVE WaitersExact'
  <2>1. CASE UnlockMissing(p, k) \/ UnlockNotHeld(p, k) \/ UnlockInner(p, k) \/ UnlockClean(p, k)
    <3>1. UNCHANGED <<waiter, pc, record>>
      BY <1>4, <2>1, ZenonT(60) DEF UnlockKey, UnlockMissing, UnlockNotHeld, UnlockInner,
         UnlockClean, ReleaseHolder
    <3> QED BY <3>1 DEF WaitersExact
  <2>2. CASE UnlockSignal(p, k)
    BY LockManAssumption, <1>4, <2>2 DEF PrivateContexts, TypeOK, CallState,
       WaitersExact, UnlockKey, UnlockSignal, ReleaseHolder, Signal, Waiting
  <2> QED BY <1>4, <2>1, <2>2 DEF UnlockKey
<1>5. CASE UNCHANGED vars
  BY <1>5, ZenonT(60) DEF vars, WaitersExact
<1> QED BY <1>1, <1>2, <1>3, <1>4, <1>5 DEF Next

\* A released record has a woken waiter.
LEMMA WakeupStep ==
  ASSUME PrivateContexts, TypeOK, CallState, RecordsDistinct, WaitersExact,
         NoLostWakeup, [Next]_vars
  PROVE  NoLostWakeup'
<1>1. ASSUME NEW p \in Proc, NEW k \in Key, LockKey(p, k) PROVE NoLostWakeup'
  <2>1. CASE FindRecord(p, k)
    BY LockManAssumption, <1>1, <2>1, ZenonT(60) DEF PrivateContexts, TypeOK, CallState,
       RecordsDistinct, WaitersExact, NoLostWakeup, LockKey, FindRecord
  <2>2. CASE \E r \in Free : MakeRecord(p, k, r)
    BY LockManAssumption, <1>1, <2>2 DEF PrivateContexts, TypeOK, CallState,
       RecordsDistinct, WaitersExact, NoLostWakeup, LockKey, MakeRecord,
       newInMemoryLockRecord, Free
  <2> QED BY <1>1, <2>1, <2>2, ZenonT(60) DEF LockKey, getRecordWithLock
<1>2. ASSUME NEW p \in Proc, lockContext(p) PROVE NoLostWakeup'
  <2>1. CASE LockFromWaiter(p)
    <3>1. UNCHANGED <<lockTable, holder, pc, record>>
      BY <1>2, <2>1, ZenonT(60) DEF lockContext, LockFromWaiter
    <3> QED BY <3>1 DEF NoLostWakeup
  <2>2. CASE LockFree(p)
    BY LockManAssumption, <1>2, <2>2 DEF PrivateContexts, TypeOK, CallState,
       RecordsDistinct, WaitersExact, NoLostWakeup, lockContext, LockFree,
       TakeRecord, LockReturns
  <2>3. CASE LockAgain(p)
    BY LockManAssumption, <1>2, <2>3, ZenonT(60) DEF PrivateContexts, TypeOK, CallState,
       RecordsDistinct, WaitersExact, NoLostWakeup, lockContext, LockAgain,
       LockReturns
  <2>4. CASE LockTooDeep(p)
    BY LockManAssumption, <1>2, <2>4, ZenonT(60) DEF PrivateContexts, TypeOK, CallState,
       RecordsDistinct, WaitersExact, NoLostWakeup, lockContext, LockTooDeep
  <2>5. CASE StartWait(p)
    BY LockManAssumption, <1>2, <2>5 DEF PrivateContexts, TypeOK, CallState,
       RecordsDistinct, WaitersExact, NoLostWakeup, lockContext, StartWait,
       HeldByOther
  <2> QED BY <1>2, <2>1, <2>2, <2>3, <2>4, <2>5 DEF lockContext
<1>3. ASSUME NEW p \in Proc, WakeUp(p) PROVE NoLostWakeup'
  <2>1. CASE WaitAgain(p)
    BY LockManAssumption, <1>3, <2>1 DEF PrivateContexts, TypeOK, CallState,
       RecordsDistinct, WaitersExact, NoLostWakeup, WakeUp, WaitAgain
  <2>2. CASE TakeReleased(p)
    BY LockManAssumption, <1>3, <2>2 DEF PrivateContexts, TypeOK, CallState,
       RecordsDistinct, WaitersExact, NoLostWakeup, WakeUp, TakeReleased,
       TakeRecord, LockReturns
  <2> QED BY <1>3, <2>1, <2>2, ZenonT(60) DEF WakeUp
<1>4. ASSUME NEW p \in Proc, NEW k \in Key, UnlockKey(p, k) PROVE NoLostWakeup'
  <2>1. CASE UnlockMissing(p, k) \/ UnlockNotHeld(p, k) \/ UnlockInner(p, k)
    <3>1. UNCHANGED <<lockTable, holder, pc, record>>
      BY <1>4, <2>1, ZenonT(60) DEF UnlockKey, UnlockMissing, UnlockNotHeld, UnlockInner
    <3> QED BY <3>1 DEF NoLostWakeup
  <2>2. CASE UnlockSignal(p, k)
    BY LockManAssumption, <1>4, <2>2 DEF PrivateContexts, TypeOK, CallState,
       RecordsDistinct, WaitersExact, NoLostWakeup, UnlockKey, UnlockSignal,
       ReleaseHolder, Signal, Waiting
  <2>3. CASE UnlockClean(p, k)
    BY LockManAssumption, <1>4, <2>3 DEF PrivateContexts, TypeOK, CallState,
       RecordsDistinct, WaitersExact, NoLostWakeup, UnlockKey, UnlockClean,
       ReleaseHolder
  <2> QED BY <1>4, <2>1, <2>2, <2>3, ZenonT(60) DEF UnlockKey
<1>5. CASE UNCHANGED vars
  BY <1>5 DEF vars, NoLostWakeup
<1> QED BY <1>1, <1>2, <1>3, <1>4, <1>5 DEF Next

\* With private contexts, a waiter is not in lockContext twice.
LEMMA FatalLockStep ==
  ASSUME PrivateContexts, TypeOK, CallState, WaitersExact, NoLockFromWaiter,
         [Next]_vars
  PROVE  NoLockFromWaiter'
<1>1. ASSUME NEW p \in Proc, NEW k \in Key, LockKey(p, k)
      PROVE  NoLockFromWaiter'
  BY <1>1, ZenonT(60) DEF NoLockFromWaiter, getRecordWithLock, LockKey, FindRecord,
     MakeRecord, newInMemoryLockRecord, Free
<1>2. ASSUME NEW p \in Proc, lockContext(p) PROVE NoLockFromWaiter'
  <2>1. CASE LockFree(p) \/ LockAgain(p) \/ LockTooDeep(p) \/ StartWait(p)
    <3>1. UNCHANGED <<fatal>>
      BY <1>2, <2>1 DEF lockContext, LockFree, TakeRecord, LockReturns,
         LockAgain, LockTooDeep, StartWait, HeldByOther
    <3> QED BY <3>1, ZenonT(60) DEF NoLockFromWaiter
  <2>2. CASE LockFromWaiter(p)
    BY LockManAssumption, <1>2, <2>2, ZenonT(60) DEF PrivateContexts, TypeOK, CallState,
       WaitersExact, NoLockFromWaiter, lockContext, LockFromWaiter
  <2> QED BY <1>2, <2>1, <2>2 DEF lockContext
<1>3. ASSUME NEW p \in Proc, WakeUp(p) PROVE NoLockFromWaiter'
  BY <1>3, ZenonT(60) DEF NoLockFromWaiter, WakeUp, WaitAgain, TakeReleased, TakeRecord,
     LockReturns
<1>4. ASSUME NEW p \in Proc, NEW k \in Key, UnlockKey(p, k)
      PROVE  NoLockFromWaiter'
  <2>1. CASE UnlockMissing(p, k) \/ UnlockInner(p, k) \/ UnlockSignal(p, k) \/ UnlockClean(p, k)
    <3>1. UNCHANGED <<fatal>>
      BY <1>4, <2>1 DEF UnlockKey, UnlockMissing, UnlockInner, UnlockSignal,
         ReleaseHolder, Signal, Waiting, UnlockClean
    <3> QED BY <3>1, ZenonT(60) DEF NoLockFromWaiter
  <2>2. CASE UnlockNotHeld(p, k)
    BY LockManAssumption, <1>4, <2>2, ZenonT(60) DEF PrivateContexts, TypeOK, CallState,
       WaitersExact, NoLockFromWaiter, UnlockKey, UnlockNotHeld
  <2> QED BY <1>4, <2>1, <2>2 DEF UnlockKey
<1>5. CASE UNCHANGED vars
  BY <1>5, ZenonT(60) DEF vars, NoLockFromWaiter
<1> QED BY <1>1, <1>2, <1>3, <1>4, <1>5, ZenonT(60) DEF Next

\* Who owes an unlock holds the key.
LEMMA OwingStep ==
  ASSUME PrivateContexts, TypeOK, CallState, RecordsDistinct, InFlightInTable,
         HolderKnown, OwingHolds, [Next]_vars
  PROVE  OwingHolds'
<1>1. ASSUME NEW p \in Proc, NEW k \in Key, LockKey(p, k) PROVE OwingHolds'
  <2>1. CASE FindRecord(p, k)
    <3>1. UNCHANGED <<lockTable, holder, depth, owed, orphaned>>
      BY <1>1, <2>1, ZenonT(60) DEF LockKey, FindRecord
    <3> QED BY <3>1, ZenonT(60) DEF OwingHolds
  <2>2. CASE \E r \in Free : MakeRecord(p, k, r)
    BY LockManAssumption, <1>1, <2>2 DEF PrivateContexts, TypeOK, CallState,
       RecordsDistinct, InFlightInTable, HolderKnown, OwingHolds, LockKey,
       MakeRecord, newInMemoryLockRecord, Free
  <2> QED BY <1>1, <2>1, <2>2, ZenonT(60) DEF LockKey, getRecordWithLock
<1>2. ASSUME NEW p \in Proc, lockContext(p) PROVE OwingHolds'
  <2>1. CASE LockFromWaiter(p) \/ StartWait(p)
    <3>1. UNCHANGED <<lockTable, holder, depth, owed, orphaned>>
      BY <1>2, <2>1, ZenonT(60) DEF lockContext, LockFromWaiter, StartWait, HeldByOther
    <3> QED BY <3>1, ZenonT(60) DEF OwingHolds
  <2>2. CASE LockFree(p)
    BY LockManAssumption, <1>2, <2>2 DEF PrivateContexts, TypeOK, CallState,
       RecordsDistinct, InFlightInTable, HolderKnown, OwingHolds, lockContext,
       LockFree, TakeRecord, LockReturns
  <2>3. CASE LockAgain(p)
    BY LockManAssumption, <1>2, <2>3 DEF PrivateContexts, TypeOK, CallState,
       RecordsDistinct, InFlightInTable, HolderKnown, OwingHolds, lockContext,
       LockAgain, LockReturns
  <2>4. CASE LockTooDeep(p)
    BY LockManAssumption, <1>2, <2>4 DEF PrivateContexts, TypeOK, CallState,
       RecordsDistinct, InFlightInTable, HolderKnown, OwingHolds, lockContext,
       LockTooDeep
  <2> QED BY <1>2, <2>1, <2>2, <2>3, <2>4, ZenonT(60) DEF lockContext
<1>3. ASSUME NEW p \in Proc, WakeUp(p) PROVE OwingHolds'
  <2>1. CASE WaitAgain(p)
    <3>1. UNCHANGED <<lockTable, holder, depth, owed, orphaned>>
      BY <1>3, <2>1, ZenonT(60) DEF WakeUp, WaitAgain
    <3> QED BY <3>1, ZenonT(60) DEF OwingHolds
  <2>2. CASE TakeReleased(p)
    BY LockManAssumption, <1>3, <2>2 DEF PrivateContexts, TypeOK, CallState,
       RecordsDistinct, InFlightInTable, HolderKnown, OwingHolds, WakeUp,
       TakeReleased, TakeRecord, LockReturns
  <2> QED BY <1>3, <2>1, <2>2, ZenonT(60) DEF WakeUp
<1>4. ASSUME NEW p \in Proc, NEW k \in Key, UnlockKey(p, k) PROVE OwingHolds'
  <2>1. CASE UnlockMissing(p, k)
    <3>1. k \in orphaned
      BY <1>4, <2>1, ZenonT(60) DEF TypeOK, OwingHolds, UnlockKey, UnlockMissing
    <3>2. \A q \in Proc, l \in Key \ orphaned : owed'[q][l] = owed[q][l]
      BY <1>4, <3>1 DEF TypeOK, UnlockKey
    <3>3. UNCHANGED <<lockTable, holder, depth, orphaned, overflowed>>
      BY <1>4, <2>1, ZenonT(60) DEF UnlockKey, UnlockMissing, recVars, history
    <3>4. \A q \in Proc, l \in Key \ orphaned :
            owed'[q][l] > 0 => /\ lockTable'[l] # NoRec
                               /\ holder'[lockTable'[l]] = CtxOf[q]
                               /\ depth'[lockTable'[l]] >= owed'[q][l]
      BY <3>2, <3>3 DEF OwingHolds
    <3>5. orphaned' = orphaned
      BY <3>3
    <3> QED BY <3>4, <3>5, ZenonT(60) DEF OwingHolds
  <2>2. CASE UnlockNotHeld(p, k)
    <3>1. k \in orphaned
      BY <1>4, <2>2, ZenonT(60) DEF TypeOK, OwingHolds, UnlockKey, UnlockNotHeld
    <3>2. \A q \in Proc, l \in Key \ orphaned : owed'[q][l] = owed[q][l]
      BY <1>4, <3>1 DEF TypeOK, UnlockKey
    <3>3. UNCHANGED <<lockTable, holder, depth, orphaned, overflowed>>
      BY <1>4, <2>2, ZenonT(60) DEF UnlockKey, UnlockNotHeld, recVars, history
    <3>4. \A q \in Proc, l \in Key \ orphaned :
            owed'[q][l] > 0 => /\ lockTable'[l] # NoRec
                               /\ holder'[lockTable'[l]] = CtxOf[q]
                               /\ depth'[lockTable'[l]] >= owed'[q][l]
      BY <3>2, <3>3 DEF OwingHolds
    <3>5. orphaned' = orphaned
      BY <3>3
    <3> QED BY <3>4, <3>5, ZenonT(60) DEF OwingHolds
  <2>3. CASE UnlockInner(p, k)
    BY LockManAssumption, <1>4, <2>3 DEF PrivateContexts, TypeOK, CallState,
       RecordsDistinct, InFlightInTable, HolderKnown, OwingHolds, UnlockKey,
       UnlockInner
  <2>4. CASE UnlockSignal(p, k)
    BY LockManAssumption, <1>4, <2>4 DEF PrivateContexts, TypeOK, CallState,
       RecordsDistinct, InFlightInTable, HolderKnown, OwingHolds, UnlockKey,
       UnlockSignal, ReleaseHolder, Signal, Waiting
  <2>5. CASE UnlockClean(p, k)
    BY LockManAssumption, <1>4, <2>5 DEF PrivateContexts, TypeOK, CallState,
       RecordsDistinct, InFlightInTable, HolderKnown, OwingHolds, UnlockKey,
       UnlockClean, ReleaseHolder
  <2> QED BY <1>4, <2>1, <2>2, <2>3, <2>4, <2>5, ZenonT(60) DEF UnlockKey
<1>5. CASE UNCHANGED vars
  <2>1. UNCHANGED <<lockTable, holder, depth, owed, orphaned, overflowed>>
    BY <1>5, ZenonT(60) DEF vars, recVars, procVars, history
  <2> QED BY <2>1, ZenonT(60) DEF OwingHolds
<1> QED BY <1>1, <1>2, <1>3, <1>4, <1>5, ZenonT(60) DEF Next

-----------------------------------------------------------------------------
(***************************************************************************)
(* The holder and its depth.                                               *)
(***************************************************************************)

\* A holder is a goroutine's context.
LEMMA HolderStep ==
  ASSUME TypeOK, CallState, HolderKnown, [Next]_vars
  PROVE  HolderKnown'
<1>1. ASSUME NEW p \in Proc, NEW k \in Key, LockKey(p, k) PROVE HolderKnown'
  <2>1. CASE FindRecord(p, k)
    <3>1. UNCHANGED <<holder, depth>>
      BY <1>1, <2>1, ZenonT(60) DEF LockKey, FindRecord
    <3> QED BY <3>1, ZenonT(60) DEF HolderKnown
  <2>2. CASE \E r \in Free : MakeRecord(p, k, r)
    BY LockManAssumption, <1>1, <2>2 DEF TypeOK, CallState, HolderKnown,
       LockKey, MakeRecord, newInMemoryLockRecord, Free
  <2> QED BY <1>1, <2>1, <2>2, ZenonT(60) DEF LockKey, getRecordWithLock
<1>2. ASSUME NEW p \in Proc, lockContext(p) PROVE HolderKnown'
  <2>1. CASE LockFromWaiter(p) \/ StartWait(p)
    <3>1. UNCHANGED <<holder, depth>>
      BY <1>2, <2>1, ZenonT(60) DEF lockContext, LockFromWaiter, StartWait, HeldByOther
    <3> QED BY <3>1 DEF HolderKnown
  <2>2. CASE LockFree(p)
    BY LockManAssumption, <1>2, <2>2 DEF TypeOK, CallState, HolderKnown,
       lockContext, LockFree, TakeRecord, LockReturns
  <2>3. CASE LockAgain(p)
    BY LockManAssumption, <1>2, <2>3 DEF TypeOK, CallState, HolderKnown,
       lockContext, LockAgain, LockReturns
  <2>4. CASE LockTooDeep(p)
    BY LockManAssumption, <1>2, <2>4 DEF TypeOK, CallState, HolderKnown,
       lockContext, LockTooDeep
  <2> QED BY <1>2, <2>1, <2>2, <2>3, <2>4, ZenonT(60) DEF lockContext
<1>3. ASSUME NEW p \in Proc, WakeUp(p) PROVE HolderKnown'
  <2>1. CASE WaitAgain(p)
    <3>1. UNCHANGED <<holder, depth>>
      BY <1>3, <2>1, ZenonT(60) DEF WakeUp, WaitAgain
    <3> QED BY <3>1 DEF HolderKnown
  <2>2. CASE TakeReleased(p)
    BY LockManAssumption, <1>3, <2>2 DEF TypeOK, CallState, HolderKnown,
       WakeUp, TakeReleased, TakeRecord, LockReturns
  <2> QED BY <1>3, <2>1, <2>2, ZenonT(60) DEF WakeUp
<1>4. ASSUME NEW p \in Proc, NEW k \in Key, UnlockKey(p, k) PROVE HolderKnown'
  <2>1. CASE UnlockMissing(p, k) \/ UnlockNotHeld(p, k)
    <3>1. UNCHANGED <<holder, depth>>
      BY <1>4, <2>1, ZenonT(60) DEF UnlockKey, UnlockMissing, UnlockNotHeld
    <3> QED BY <3>1 DEF HolderKnown
  <2>2. CASE UnlockInner(p, k)
    BY LockManAssumption, <1>4, <2>2 DEF TypeOK, CallState, HolderKnown,
       UnlockKey, UnlockInner
  <2>3. CASE UnlockSignal(p, k)
    BY LockManAssumption, <1>4, <2>3 DEF TypeOK, CallState, HolderKnown,
       UnlockKey, UnlockSignal, ReleaseHolder, Signal, Waiting
  <2>4. CASE UnlockClean(p, k)
    BY LockManAssumption, <1>4, <2>4 DEF TypeOK, CallState, HolderKnown,
       UnlockKey, UnlockClean, ReleaseHolder
  <2> QED BY <1>4, <2>1, <2>2, <2>3, <2>4 DEF UnlockKey
<1>5. CASE UNCHANGED vars
  BY <1>5, ZenonT(60) DEF vars, HolderKnown
<1> QED BY <1>1, <1>2, <1>3, <1>4, <1>5, ZenonT(60) DEF Next

\* The depth counts the unlocks owed.
LEMMA DepthStep ==
  ASSUME PrivateContexts, TypeOK, CallState, RecordsDistinct, InFlightInTable,
         OwingHolds, DepthCounts, [Next]_vars
  PROVE  DepthCounts'
<1>1. ASSUME NEW p \in Proc, NEW k \in Key, LockKey(p, k) PROVE DepthCounts'
  <2>1. CASE FindRecord(p, k)
    <3>1. UNCHANGED <<lockTable, holder, depth, owed, orphaned, overflowed>>
      BY <1>1, <2>1, ZenonT(60) DEF LockKey, FindRecord
    <3> QED BY <3>1, ZenonT(60) DEF DepthCounts
  <2>2. CASE \E r \in Free : MakeRecord(p, k, r)
    BY LockManAssumption, <1>1, <2>2 DEF PrivateContexts, TypeOK, CallState,
       RecordsDistinct, InFlightInTable, DepthCounts, LockKey, MakeRecord,
       newInMemoryLockRecord, Free
  <2> QED BY <1>1, <2>1, <2>2, ZenonT(60) DEF LockKey, getRecordWithLock
<1>2. ASSUME NEW p \in Proc, lockContext(p) PROVE DepthCounts'
  <2>1. CASE LockFromWaiter(p) \/ StartWait(p)
    <3>1. UNCHANGED <<lockTable, holder, depth, owed, orphaned, overflowed>>
      BY <1>2, <2>1, ZenonT(60) DEF lockContext, LockFromWaiter, StartWait, HeldByOther
    <3> QED BY <3>1, ZenonT(60) DEF DepthCounts
  <2>2. CASE LockFree(p)
    BY LockManAssumption, <1>2, <2>2 DEF PrivateContexts, TypeOK, CallState,
       RecordsDistinct, InFlightInTable, DepthCounts, lockContext, LockFree,
       TakeRecord, LockReturns
  <2>3. CASE LockAgain(p)
    BY LockManAssumption, <1>2, <2>3 DEF PrivateContexts, TypeOK, CallState,
       RecordsDistinct, InFlightInTable, DepthCounts, lockContext, LockAgain,
       LockReturns
  <2>4. CASE LockTooDeep(p)
    BY LockManAssumption, <1>2, <2>4 DEF PrivateContexts, TypeOK, CallState,
       RecordsDistinct, InFlightInTable, DepthCounts, lockContext, LockTooDeep
  <2> QED BY <1>2, <2>1, <2>2, <2>3, <2>4, ZenonT(60) DEF lockContext
<1>3. ASSUME NEW p \in Proc, WakeUp(p) PROVE DepthCounts'
  <2>1. CASE WaitAgain(p)
    <3>1. UNCHANGED <<lockTable, holder, depth, owed, orphaned, overflowed>>
      BY <1>3, <2>1, ZenonT(60) DEF WakeUp, WaitAgain
    <3> QED BY <3>1, ZenonT(60) DEF DepthCounts
  <2>2. CASE TakeReleased(p)
    BY LockManAssumption, <1>3, <2>2 DEF PrivateContexts, TypeOK, CallState,
       RecordsDistinct, InFlightInTable, DepthCounts, WakeUp, TakeReleased,
       TakeRecord, LockReturns
  <2> QED BY <1>3, <2>1, <2>2, ZenonT(60) DEF WakeUp
<1>4. ASSUME NEW p \in Proc, NEW k \in Key, UnlockKey(p, k) PROVE DepthCounts'
  <2>1. CASE UnlockMissing(p, k)
    <3>1. k \in orphaned
      BY <1>4, <2>1, ZenonT(60) DEF TypeOK, OwingHolds, UnlockKey, UnlockMissing
    <3>2. \A q \in Proc, l \in Key \ orphaned : owed'[q][l] = owed[q][l]
      BY <1>4, <3>1 DEF TypeOK, UnlockKey
    <3>3. UNCHANGED <<lockTable, holder, depth, orphaned, overflowed>>
      BY <1>4, <2>1, ZenonT(60) DEF UnlockKey, UnlockMissing, recVars, history
    <3>4. \A l \in Key \ (orphaned \cup overflowed), q \in Proc : owed'[q][l] = owed[q][l]
      BY <3>2
    <3>5. \A l \in Key \ (orphaned \cup overflowed), q \in Proc :
            owed'[q][l] = IF lockTable'[l] # NoRec /\ holder'[lockTable'[l]] = CtxOf[q]
                          THEN depth'[lockTable'[l]] ELSE 0
      BY <3>3, <3>4 DEF DepthCounts
    <3>6. orphaned' \cup overflowed' = orphaned \cup overflowed
      BY <3>3
    <3> QED BY <3>5, <3>6, ZenonT(60) DEF DepthCounts
  <2>2. CASE UnlockNotHeld(p, k)
    <3>1. k \in orphaned
      BY <1>4, <2>2, ZenonT(60) DEF TypeOK, OwingHolds, UnlockKey, UnlockNotHeld
    <3>2. \A q \in Proc, l \in Key \ orphaned : owed'[q][l] = owed[q][l]
      BY <1>4, <3>1 DEF TypeOK, UnlockKey
    <3>3. UNCHANGED <<lockTable, holder, depth, orphaned, overflowed>>
      BY <1>4, <2>2, ZenonT(60) DEF UnlockKey, UnlockNotHeld, recVars, history
    <3>4. \A l \in Key \ (orphaned \cup overflowed), q \in Proc : owed'[q][l] = owed[q][l]
      BY <3>2
    <3>5. \A l \in Key \ (orphaned \cup overflowed), q \in Proc :
            owed'[q][l] = IF lockTable'[l] # NoRec /\ holder'[lockTable'[l]] = CtxOf[q]
                          THEN depth'[lockTable'[l]] ELSE 0
      BY <3>3, <3>4 DEF DepthCounts
    <3>6. orphaned' \cup overflowed' = orphaned \cup overflowed
      BY <3>3
    <3> QED BY <3>5, <3>6, ZenonT(60) DEF DepthCounts
  <2>3. CASE UnlockInner(p, k)
    BY LockManAssumption, <1>4, <2>3 DEF PrivateContexts, TypeOK, CallState,
       RecordsDistinct, InFlightInTable, DepthCounts, UnlockKey, UnlockInner
  <2>4. CASE UnlockSignal(p, k)
    BY LockManAssumption, <1>4, <2>4 DEF PrivateContexts, TypeOK, CallState,
       RecordsDistinct, InFlightInTable, DepthCounts, UnlockKey, UnlockSignal,
       ReleaseHolder, Signal, Waiting
  <2>5. CASE UnlockClean(p, k)
    BY LockManAssumption, <1>4, <2>5 DEF PrivateContexts, TypeOK, CallState,
       RecordsDistinct, InFlightInTable, DepthCounts, UnlockKey, UnlockClean,
       ReleaseHolder
  <2> QED BY <1>4, <2>1, <2>2, <2>3, <2>4, <2>5, ZenonT(60) DEF UnlockKey
<1>5. CASE UNCHANGED vars
  <2>1. UNCHANGED <<lockTable, holder, depth, owed, orphaned, overflowed>>
    BY <1>5, ZenonT(60) DEF vars, recVars, procVars, history
  <2> QED BY <2>1, ZenonT(60) DEF DepthCounts
<1> QED BY <1>1, <1>2, <1>3, <1>4, <1>5, ZenonT(60) DEF Next

\* The process ends in unlockContext only after a record in use was dropped.
LEMMA FatalUnlockStep ==
  ASSUME TypeOK, CallState, OwingHolds, FatalUnlockNeedsOrphan, [Next]_vars
  PROVE  FatalUnlockNeedsOrphan'
<1>1. ASSUME NEW p \in Proc, NEW k \in Key, LockKey(p, k)
      PROVE  FatalUnlockNeedsOrphan'
  BY <1>1, ZenonT(60) DEF FatalUnlockNeedsOrphan, getRecordWithLock, LockKey, FindRecord,
     MakeRecord, newInMemoryLockRecord, Free
<1>2. ASSUME NEW p \in Proc, lockContext(p) PROVE FatalUnlockNeedsOrphan'
  <2>1. CASE LockFree(p) \/ LockAgain(p) \/ LockTooDeep(p) \/ StartWait(p)
    BY <1>2, <2>1, ZenonT(60) DEF FatalUnlockNeedsOrphan, lockContext, LockFree,
       TakeRecord, LockReturns, LockAgain, LockTooDeep, StartWait, HeldByOther
  <2>2. CASE LockFromWaiter(p)
    BY LockManAssumption, <1>2, <2>2, ZenonT(60) DEF TypeOK, CallState, OwingHolds,
       FatalUnlockNeedsOrphan, lockContext, LockFromWaiter
  <2> QED BY <1>2, <2>1, <2>2 DEF lockContext
<1>3. ASSUME NEW p \in Proc, WakeUp(p) PROVE FatalUnlockNeedsOrphan'
  BY <1>3, ZenonT(60) DEF FatalUnlockNeedsOrphan, WakeUp, WaitAgain, TakeReleased,
     TakeRecord, LockReturns
<1>4. ASSUME NEW p \in Proc, NEW k \in Key, UnlockKey(p, k)
      PROVE  FatalUnlockNeedsOrphan'
  <2>1. CASE UnlockMissing(p, k) \/ UnlockInner(p, k) \/ UnlockSignal(p, k) \/ UnlockClean(p, k)
    BY <1>4, <2>1, ZenonT(60) DEF FatalUnlockNeedsOrphan, UnlockKey, UnlockMissing,
       UnlockInner, UnlockSignal, UnlockClean
  <2>2. CASE UnlockNotHeld(p, k)
    <3>1. k \in orphaned
      BY <1>4, <2>2, ZenonT(60) DEF TypeOK, OwingHolds, UnlockKey, UnlockNotHeld
    <3> QED BY <1>4, <2>2, <3>1, ZenonT(60) DEF FatalUnlockNeedsOrphan, UnlockKey, UnlockNotHeld
  <2> QED BY <1>4, <2>1, <2>2 DEF UnlockKey
<1>5. CASE UNCHANGED vars
  BY <1>5, ZenonT(60) DEF vars, FatalUnlockNeedsOrphan
<1> QED BY <1>1, <1>2, <1>3, <1>4, <1>5 DEF Next

\* Nothing is held, nobody waits and no key has a record at the start.
LEMMA InitIInv == Init => IInv
BY LockManAssumption
DEF Init, IInv, TypeOK, CallState, RecordsDistinct, InFlightInTable, WaitersExact,
    OwingHolds, HolderKnown, CreatorEnters, DepthCounts, NoLostWakeup,
    FatalUnlockNeedsOrphan, NoLockFromWaiter

\* The invariant is inductive when contexts are private.
LEMMA StepIInv == ASSUME PrivateContexts PROVE IInv /\ [Next]_vars => IInv'
<1> SUFFICES ASSUME IInv, [Next]_vars PROVE IInv'
  OBVIOUS
<1>1. TypeOK' /\ CallState'
  BY TypeStep DEF IInv, WellFormed
<1>2. RecordsDistinct' /\ InFlightInTable'
  BY RecordsStep, InFlightStep DEF IInv
<1>3. WaitersExact' /\ NoLostWakeup'
  BY WaitersStep, WakeupStep, ZenonT(60) DEF IInv
<1>4. OwingHolds' /\ DepthCounts' /\ HolderKnown' /\ CreatorEnters'
  BY OwingStep, DepthStep, HolderStep, CreatorStep DEF IInv
<1>5. FatalUnlockNeedsOrphan' /\ NoLockFromWaiter'
  BY FatalUnlockStep, FatalLockStep DEF IInv
<1> QED BY <1>1, <1>2, <1>3, <1>4, <1>5 DEF IInv

\* LockMan keeps its inductive invariant, however many goroutines nest locks
\* of however many keys, each with a context of its own.
THEOREM Invariance == ASSUME PrivateContexts PROVE Spec => []IInv
BY InitIInv, StepIInv, PTL DEF Spec

\* Two goroutines whose LockKey of one key has returned are the same one, as
\* long as UnlockKey dropped no record of that key that was in use.
THEOREM Exclusion == ASSUME PrivateContexts PROVE Spec => []MutualExclusion
<1>1. IInv => MutualExclusion
  BY ZenonT(60) DEF IInv, OwingHolds, MutualExclusion
<1> QED BY <1>1, Invariance, PTL

\* A release is never lost: a record without a holder has a woken waiter.
THEOREM WakeupsNotLost == ASSUME PrivateContexts PROVE Spec => []NoLostWakeup
<1>1. IInv => NoLostWakeup
  BY DEF IInv
<1> QED BY <1>1, Invariance, PTL

\* The table holds records only for keys that are locked or being locked.
THEOREM TableDoesNotLeak == ASSUME PrivateContexts PROVE Spec => []NoLeak
<1>1. IInv => NoLeak
  <2> SUFFICES ASSUME IInv,
                      NEW k \in Key \ (orphaned \cup overflowed),
                      \A p \in Proc : owed[p][k] = 0 /\ ~InFlight(p, k),
                      lockTable[k] # NoRec
               PROVE  FALSE
    BY DEF NoLeak
  <2>1. lockTable[k] \in Rec
    BY ZenonT(60) DEF IInv, TypeOK
  <2>2. CASE holder[lockTable[k]] = NoCtx
    BY <2>1, <2>2, ZenonT(60) DEF IInv, NoLostWakeup, RecordsDistinct, InFlight
  <2>3. CASE holder[lockTable[k]] # NoCtx
    <3>1. PICK p \in Proc : holder[lockTable[k]] = CtxOf[p]
      BY <2>1, <2>3, ZenonT(60) DEF IInv, HolderKnown
    <3>2. depth[lockTable[k]] = 0
      BY <3>1, ZenonT(60) DEF IInv, DepthCounts
    <3> QED BY <2>1, <2>3, <3>2, ZenonT(60) DEF IInv, CreatorEnters, RecordsDistinct, InFlight
  <2> QED BY <2>2, <2>3, ZenonT(60)
<1> QED BY <1>1, Invariance, PTL

\* Unless a panic or a dropped record spoilt the key, depth is exactly what the
\* holder owes: unlockContext gives the lock away at the last unlock, neither
\* before nor after.
THEOREM DepthsExact == ASSUME PrivateContexts PROVE Spec => []DepthCounts
<1>1. IInv => DepthCounts
  BY DEF IInv
<1> QED BY <1>1, Invariance, PTL

\* unlockContext ends the process only after a record in use was dropped.
THEOREM FatalUnlockCause ==
  ASSUME PrivateContexts PROVE Spec => []FatalUnlockNeedsOrphan
<1>1. IInv => FatalUnlockNeedsOrphan
  BY DEF IInv
<1> QED BY <1>1, Invariance, PTL

\* lockContext ends the process only where two goroutines have one context,
\* whatever contexts they have.
THEOREM FatalLockCause == Spec => []FatalLockNeedsSharing
<1>1. CASE PrivateContexts
  <2>1. IInv => FatalLockNeedsSharing
    BY DEF IInv, FatalLockNeedsSharing, NoLockFromWaiter
  <2> QED BY <1>1, <2>1, Invariance, PTL
<1>2. CASE ~PrivateContexts
  <2>1. FatalLockNeedsSharing
    BY <1>2 DEF FatalLockNeedsSharing
  <2> QED BY <2>1, PTL
<1> QED BY <1>1, <1>2
=============================================================================
