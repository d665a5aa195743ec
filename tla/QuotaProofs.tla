---------------------------- MODULE QuotaProofs -----------------------------
(***************************************************************************)
(* Quotas are kept for any number of requests and administrators, any      *)
(* default quota and any number of restarts: WithinQuota, PendingCovers    *)
(* and PendingIsHeld of Quota.  The first part says what each kind of step *)
(* does to the balance between the usage, the pending usage and the        *)
(* reservations.                                                           *)
(***************************************************************************)
EXTENDS Quota, FiniteSetTheorems, TLAPS

\* Provers: the default time limits, then longer ones.
USE SMT, Zenon, SMTT(60), ZenonT(60)

CH(d) == Cardinality(Held(d))
CO(d) == Cardinality(Open(d))

Early == {"idle", "validate", "check"}

\* The types the proof rests on.
Amounts ==
  /\ quota \in [Dims -> Nat] /\ used \in [Dims -> Nat] /\ pend \in [Dims -> Nat]
  /\ oquota \in [Admin -> [Dims -> Nat]]
  /\ res \in [Request -> [Dims -> {"none", "open", "used"}]]

Places ==
  /\ kind \in [Request -> DOMAIN Wants]
  /\ pc \in [Request -> PCs]
  /\ seen \in [Request -> [Dims -> Nat]]

\* A request that has not been admitted holds nothing, and one that compares
\* has the lock.
Fresh ==
  \A r \in Request :
    /\ pc[r] \in Early => \A d \in Dims : res[r][d] = "none"
    /\ pc[r] = "check" => lock = r

\* What a check has read, with what is pending now, is no less than what is used
\* and promised.
Current ==
  \A r \in Request : pc[r] = "check" =>
    \A d \in Dims \ cut : used[d] + CO(d) <= seen[r][d] + pend[d]

Kept == \A d \in Dims \ (cut \cup lowered) : used[d] + CO(d) <= StoredQuota[d]
Covered == \A d \in Dims \ cut : CH(d) <= pend[d]
Owned == \A d \in Dims \ leak : pend[d] <= CH(d)

Balance == Current /\ Kept /\ Covered /\ Owned
QInv == Amounts /\ Places /\ Fresh /\ Balance

\* The requests move, and none of them starts a check in this step.
Moves ==
  /\ Places'
  /\ \A q \in Request :
       /\ pc'[q] \in Early => pc[q] \in Early
       /\ pc'[q] = "check" => pc[q] = "check" /\ lock' = lock /\ seen'[q] = seen[q]

\* No reservation appears in this step.
NoneAdded == \A q \in Request, d \in Dims : res[q][d] = "none" => res'[q][d] = "none"

\* The reservations are finite sets, the open ones among those held.
LEMMA Counts ==
  ASSUME Amounts, NEW d \in Dims
  PROVE  /\ IsFiniteSet(Held(d)) /\ IsFiniteSet(Open(d))
         /\ CH(d) \in Nat /\ CO(d) \in Nat /\ CO(d) <= CH(d)
<1>1. Held(d) \subseteq Request /\ Open(d) \subseteq Held(d)
  BY DEF Held, Open
<1>2. IsFiniteSet(Held(d)) /\ IsFiniteSet(Open(d))
  BY <1>1, FS_Subset, QuotaAssumption
<1>3. QED
  BY <1>1, <1>2, FS_Subset, FS_CardinalityType DEF CH, CO

\* What Mark does to the reservations,
LEMMA MarkTypes ==
  ASSUME Amounts, NEW r \in Request, NEW S \in SUBSET Dims,
         NEW how \in {"none", "open", "used"}, Mark(r, S, how)
  PROVE  /\ res' \in [Request -> [Dims -> {"none", "open", "used"}]]
         /\ how = "none" => NoneAdded
<1>1. res' \in [Request -> [Dims -> {"none", "open", "used"}]]
  BY DEF Mark, Amounts
<1>2. how = "none" => NoneAdded
  BY DEF Mark, Amounts, NoneAdded
<1>3. QED
  BY <1>1, <1>2

\* and to the two sets of them.
LEMMA MarkSets ==
  ASSUME Amounts, NEW r \in Request, NEW S \in SUBSET Dims,
         NEW how \in {"none", "open", "used"}, Mark(r, S, how), NEW d \in Dims
  PROVE  /\ d \notin S => Held(d)' = Held(d) /\ Open(d)' = Open(d)
         /\ d \in S /\ how = "none" =>
              Held(d)' = Held(d) \ {r} /\ Open(d)' = Open(d) \ {r}
         /\ d \in S /\ how = "open" =>
              Held(d)' = Held(d) \cup {r} /\ Open(d)' = Open(d) \cup {r}
         /\ d \in S /\ how = "used" =>
              Held(d)' = Held(d) \cup {r} /\ Open(d)' = Open(d) \ {r}
<1>1. \A q \in Request : res'[q][d] = IF q = r /\ d \in S THEN how ELSE res[q][d]
  BY DEF Mark, Amounts
<1>2. Held(d)' = {q \in Request : res'[q][d] # "none"}
  BY DEF Held
<1>3. Open(d)' = {q \in Request : res'[q][d] = "open"}
  BY DEF Open
<1>4. QED
  BY <1>1, <1>2, <1>3 DEF Held, Open

\* The counts after a reservation is cancelled or abandoned.
LEMMA MarkNone ==
  ASSUME Amounts, NEW r \in Request, NEW S \in SUBSET Dims, Mark(r, S, "none"),
         NEW d \in Dims
  PROVE  /\ CH(d) \in Nat /\ CO(d) \in Nat /\ CH(d)' \in Nat /\ CO(d)' \in Nat
         /\ CH(d)' = IF d \in S /\ res[r][d] # "none" THEN CH(d) - 1 ELSE CH(d)
         /\ CO(d)' = IF d \in S /\ res[r][d] = "open" THEN CO(d) - 1 ELSE CO(d)
<1>1. CH(d)' = Cardinality(Held(d)') /\ CO(d)' = Cardinality(Open(d)')
  BY DEF CH, CO
<1>2. /\ r \in Held(d) <=> res[r][d] # "none"
      /\ r \in Open(d) <=> res[r][d] = "open"
  BY DEF Held, Open
<1>3. /\ r \in Held(d) => Cardinality(Held(d) \ {r}) = CH(d) - 1
      /\ r \in Open(d) => Cardinality(Open(d) \ {r}) = CO(d) - 1
  BY Counts, FS_RemoveElement, ZenonT(60) DEF CH, CO
<1>4. IsFiniteSet(Held(d)') /\ IsFiniteSet(Open(d)')
  <2>1. Held(d)' \subseteq Held(d) /\ Open(d)' \subseteq Open(d)
    BY MarkSets
  <2>2. QED
    BY <2>1, Counts, FS_Subset
<1>5. /\ CH(d) \in Nat /\ CO(d) \in Nat
      /\ CH(d)' \in Nat /\ CO(d)' \in Nat
  BY <1>1, <1>4, Counts, FS_CardinalityType
<1>6. CASE d \in S
  <2>1. Held(d)' = Held(d) \ {r} /\ Open(d)' = Open(d) \ {r}
    BY <1>6, MarkSets
  <2>2. r \notin Held(d) => CH(d)' = CH(d)
    BY <1>1, <2>1 DEF CH
  <2>3. r \notin Open(d) => CO(d)' = CO(d)
    BY <1>1, <2>1, ZenonT(60) DEF CO
  <2>4. QED
    BY <1>1, <1>2, <1>3, <1>5, <1>6, <2>1, <2>2, <2>3
<1>7. CASE d \notin S
  <2>1. Held(d)' = Held(d) /\ Open(d)' = Open(d)
    BY <1>7, MarkSets
  <2>2. CH(d)' = CH(d) /\ CO(d)' = CO(d)
    BY <1>1, <2>1 DEF CH, CO
  <2>3. QED
    BY <1>5, <1>7, <2>2
<1>8. QED
  BY <1>6, <1>7

\* The counts when a row appears for a reservation.
LEMMA MarkUsed ==
  ASSUME Amounts, NEW r \in Request, NEW e \in Dims, Mark(r, {e}, "used"),
         res[r][e] = "open", NEW d \in Dims
  PROVE  /\ CH(d)' = CH(d)
         /\ CO(d)' = IF d = e THEN CO(d) - 1 ELSE CO(d)
<1>1. CH(d)' = Cardinality(Held(d)') /\ CO(d)' = Cardinality(Open(d)')
  BY ZenonT(60) DEF CH, CO
<1>2. CASE d = e
  <2>1. r \in Held(d) /\ r \in Open(d)
    BY <1>2 DEF Held, Open
  <2>2. Held(d)' = Held(d) \cup {r} /\ Open(d)' = Open(d) \ {r}
    BY <1>2, MarkSets
  <2>3. Held(d)' = Held(d)
    BY <2>1, <2>2
  <2>4. Cardinality(Open(d) \ {r}) = CO(d) - 1
    BY <2>1, Counts, FS_RemoveElement, ZenonT(60) DEF CO
  <2>5. QED
    BY <1>1, <1>2, <2>2, <2>3, <2>4 DEF CH
<1>3. CASE d # e
  <2>1. Held(d)' = Held(d) /\ Open(d)' = Open(d)
    BY <1>3, MarkSets
  <2>2. QED
    BY <1>1, <1>3, <2>1, ZenonT(60) DEF CH, CO
<1>4. QED
  BY <1>2, <1>3

\* The counts when a request that holds nothing is admitted.
LEMMA MarkOpen ==
  ASSUME Amounts, NEW r \in Request, NEW S \in SUBSET Dims, Mark(r, S, "open"),
         \A e \in Dims : res[r][e] = "none", NEW d \in Dims
  PROVE  /\ CH(d)' = IF d \in S THEN CH(d) + 1 ELSE CH(d)
         /\ CO(d)' = IF d \in S THEN CO(d) + 1 ELSE CO(d)
<1>1. CH(d)' = Cardinality(Held(d)') /\ CO(d)' = Cardinality(Open(d)')
  BY ZenonT(60) DEF CH, CO
<1>2. r \notin Held(d) /\ r \notin Open(d)
  BY ZenonT(60) DEF Held, Open
<1>3. CASE d \in S
  <2>1. Held(d)' = Held(d) \cup {r} /\ Open(d)' = Open(d) \cup {r}
    BY <1>3, MarkSets
  <2>2. Cardinality(Held(d) \cup {r}) = CH(d) + 1 /\ Cardinality(Open(d) \cup {r}) = CO(d) + 1
    BY <1>2, Counts, FS_AddElement, ZenonT(60) DEF CH, CO
  <2>3. QED
    BY <1>1, <1>3, <2>1, <2>2, ZenonT(60)
<1>4. CASE d \notin S
  <2>1. Held(d)' = Held(d) /\ Open(d)' = Open(d)
    BY <1>4, MarkSets
  <2>2. QED
    BY <1>1, <1>4, <2>1, ZenonT(60) DEF CH, CO
<1>5. QED
  BY <1>3, <1>4

-----------------------------------------------------------------------------
(***************************************************************************)
(* The kinds of steps.                                                     *)
(***************************************************************************)
\* Steps that touch no usage.
LEMMA QuietKeeps ==
  ASSUME QInv, UNCHANGED <<db, pend, oquota, hist, lowered>>, Moves
  PROVE  Amounts' /\ NoneAdded /\ Balance'
<1>1. \A d \in Dims : CH(d)' = CH(d) /\ CO(d)' = CO(d)
  BY DEF CH, CO, Held, Open, hist
<1>2. StoredQuota' = StoredQuota
  BY ZenonT(60) DEF StoredQuota, db
<1>3. Amounts' /\ NoneAdded
  BY ZenonT(60) DEF QInv, Amounts, NoneAdded, db, hist
<1>4. Balance'
  BY <1>1, <1>2 DEF QInv, Balance, Current, Kept, Covered, Owned, Moves, db, hist
<1>5. QED
  BY <1>3, <1>4, ZenonT(60)

\* CancelPendingUsage: while the lock is free nobody compares; what is cancelled
\* was held, or the dimension is cut.
LEMMA CancelKeeps ==
  ASSUME QInv, NEW r \in Request, NEW S \in SUBSET Dims, CancelPendingUsage(r, S),
         UNCHANGED <<db, oquota, lowered>>, Moves
  PROVE  Amounts' /\ NoneAdded /\ Balance'
<1>1. Mark(r, S, "none") /\ lock = Nobody /\ leak' = leak
  BY ZenonT(60) DEF CancelPendingUsage
<1>2. \A d \in Dims :
        /\ CH(d) \in Nat /\ CO(d) \in Nat /\ CH(d)' \in Nat /\ CO(d)' \in Nat
        /\ CH(d)' = IF d \in S /\ res[r][d] # "none" THEN CH(d) - 1 ELSE CH(d)
        /\ CO(d)' = IF d \in S /\ res[r][d] = "open" THEN CO(d) - 1 ELSE CO(d)
  BY <1>1, MarkNone, ZenonT(60) DEF QInv
<1>3. \A d \in Dims :
        /\ pend[d] \in Nat
        /\ pend'[d] = IF d \in S THEN (IF pend[d] > 1 THEN pend[d] - 1 ELSE 0)
                                 ELSE pend[d]
  BY DEF CancelPendingUsage, Sub, Units, QInv, Amounts
<1>4. \A d \in Dims : d \in cut' <=> d \in cut \/ (d \in S /\ res[r][d] = "none")
  BY DEF CancelPendingUsage
<1>5. StoredQuota' = StoredQuota /\ used' = used /\ lowered' = lowered
  BY ZenonT(60) DEF StoredQuota, db
<1>6. Current'
  BY <1>1, QuotaAssumption, ZenonT(60) DEF Current, Moves, QInv, Fresh
<1>7. Kept'
  <2> SUFFICES ASSUME NEW d \in Dims, d \notin cut', d \notin lowered
               PROVE  used[d] + CO(d)' <= StoredQuota[d]
    BY <1>5, ZenonT(60) DEF Kept
  <2>1. used[d] + CO(d) <= StoredQuota[d] /\ used[d] \in Nat
    BY <1>4, ZenonT(60) DEF QInv, Balance, Kept, Amounts
  <2>2. StoredQuota[d] \in Nat
    BY QuotaAssumption, ZenonT(60) DEF StoredQuota, QInv, Amounts
  <2>3. QED
    BY <1>2, <2>1, <2>2
<1>8. Covered'
  <2> SUFFICES ASSUME NEW d \in Dims, d \notin cut'  PROVE CH(d)' <= pend'[d]
    BY ZenonT(60) DEF Covered
  <2>1. CH(d) <= pend[d] /\ (d \in S => res[r][d] # "none")
    BY <1>4, ZenonT(60) DEF QInv, Balance, Covered
  <2>2. QED
    BY <1>2, <1>3, <2>1
<1>9. Owned'
  <2> SUFFICES ASSUME NEW d \in Dims, d \notin leak  PROVE pend'[d] <= CH(d)'
    BY <1>1, ZenonT(60) DEF Owned
  <2>1. pend[d] <= CH(d)
    BY ZenonT(60) DEF QInv, Balance, Owned
  <2>2. QED
    BY <1>2, <1>3, <2>1
<1>10. Amounts' /\ NoneAdded
  <2>1. pend' \in [Dims -> Nat]
    BY <1>3 DEF CancelPendingUsage, Sub
  <2>2. QED
    BY <1>1, <2>1, MarkTypes, ZenonT(60) DEF QInv, Amounts, db
<1>11. QED
  BY <1>6, <1>7, <1>8, <1>9, <1>10, ZenonT(60) DEF Balance

\* A counted row: its reservation goes from open to used, or the dimension is
\* cut.
LEMMA CountedKeeps ==
  ASSUME QInv, NEW r \in Request, NEW e \in Dims, Counted(r, e),
         UNCHANGED <<quota, pend, oquota, leak, lowered>>, Moves
  PROVE  Amounts' /\ NoneAdded /\ Balance'
<1>1. \A d \in Dims :
        /\ CH(d)' = CH(d)
        /\ d \notin cut' => used'[d] + CO(d)' = used[d] + CO(d)
  <2> TAKE d \in Dims
  <2>0. Amounts /\ CO(d) \in Nat /\ used[d] \in Nat
    BY Counts, ZenonT(60) DEF QInv, Amounts
  <2>1. CASE res[r][e] = "open"
    <3>1. Mark(r, {e}, "used")
      BY <2>1, ZenonT(60) DEF Counted
    <3>2. /\ CH(d)' = CH(d)
          /\ CO(d)' = IF d = e THEN CO(d) - 1 ELSE CO(d)
      BY <2>0, <2>1, <3>1, MarkUsed, ZenonT(60)
    <3>3. used'[d] = IF d = e THEN used[d] + 1 ELSE used[d]
      BY <2>0, ZenonT(60) DEF Counted, Amounts
    <3>4. QED
      BY <2>0, <3>2, <3>3
  <2>2. CASE res[r][e] # "open"
    <3>1. \A q \in Request : res'[q][d] = res[q][d]
      BY <2>0, <2>2 DEF Counted, Mark, Amounts
    <3>2. CH(d)' = CH(d) /\ CO(d)' = CO(d)
      BY <3>1, ZenonT(60) DEF CH, CO, Held, Open
    <3>3. d \notin cut' => used'[d] = used[d]
      BY <2>0, <2>2 DEF Counted, Amounts
    <3>4. QED
      BY <3>2, <3>3, ZenonT(60)
  <2>3. QED
    BY <2>1, <2>2
<1>2. cut \subseteq cut'
  BY DEF Counted
<1>3. StoredQuota' = StoredQuota
  BY ZenonT(60) DEF StoredQuota
<1>4. Amounts' /\ NoneAdded
  <2>1. used' \in [Dims -> Nat]
    BY DEF Counted, QInv, Amounts
  <2>2. res' \in [Request -> [Dims -> {"none", "open", "used"}]]
    BY MarkTypes DEF Counted, QInv, Amounts
  <2>3. NoneAdded
    BY ZenonT(60) DEF Counted, Mark, NoneAdded, QInv, Amounts
  <2>4. QED
    BY <2>1, <2>2, <2>3, ZenonT(60) DEF QInv, Amounts
<1>5. Balance'
  BY <1>1, <1>2, <1>3
     DEF QInv, Balance, Current, Kept, Covered, Owned, Moves
<1>6. QED
  BY <1>4, <1>5, ZenonT(60)

\* An abandoned reservation stays pending, in a dimension with a leak.
LEMMA AbandonKeeps ==
  ASSUME QInv, NEW r \in Request, Abandon(r), UNCHANGED <<db, pend, oquota, lowered>>, Moves
  PROVE  Amounts' /\ NoneAdded /\ Balance'
<1>1. Mark(r, Dims, "none")
  BY ZenonT(60) DEF Abandon
<1>2. \A d \in Dims :
        /\ CH(d) \in Nat /\ CO(d) \in Nat /\ CH(d)' \in Nat /\ CO(d)' \in Nat
        /\ CH(d)' = IF res[r][d] # "none" THEN CH(d) - 1 ELSE CH(d)
        /\ CO(d)' = IF res[r][d] = "open" THEN CO(d) - 1 ELSE CO(d)
  BY <1>1, MarkNone, ZenonT(60) DEF QInv
<1>3. \A d \in Dims : used[d] \in Nat /\ pend[d] \in Nat /\ StoredQuota[d] \in Nat
  BY QuotaAssumption, ZenonT(60) DEF QInv, Amounts, StoredQuota
<1>4. \A d \in Dims : d \notin leak' => d \notin leak /\ res[r][d] = "none"
  BY ZenonT(60) DEF Abandon
<1>5. StoredQuota' = StoredQuota /\ used' = used /\ cut' = cut
  BY ZenonT(60) DEF StoredQuota, db, Abandon
<1>6. Kept' /\ Covered'
  BY <1>2, <1>3, <1>5 DEF QInv, Balance, Kept, Covered
<1>7. Owned'
  BY <1>2, <1>4, ZenonT(60) DEF QInv, Balance, Owned
<1>8. Current'
  <2> SUFFICES ASSUME NEW q \in Request, pc[q] = "check", NEW d \in Dims, d \notin cut
               PROVE  used[d] + CO(d)' <= seen[q][d] + pend[d]
    BY <1>5, ZenonT(60) DEF Current, Moves
  <2>1. used[d] + CO(d) <= seen[q][d] + pend[d] /\ seen[q][d] \in Nat
    BY ZenonT(60) DEF QInv, Balance, Current, Places
  <2>2. QED
    BY <1>2, <1>3, <2>1
<1>9. Amounts' /\ NoneAdded
  BY <1>1, MarkTypes, ZenonT(60) DEF QInv, Amounts, db
<1>10. QED
  BY <1>6, <1>7, <1>8, <1>9, ZenonT(60) DEF Balance

\* The disk of a guest: the row and the cancellation in one step.
LEMMA AllocKeeps ==
  ASSUME QInv, NEW r \in Request, AllocDisk(r)
  PROVE  Amounts' /\ NoneAdded /\ Balance'
<1>1. Mark(r, {"disk"}, "none") /\ lock = Nobody
  BY ZenonT(60) DEF AllocDisk
<1>2. \A d \in Dims :
        /\ CH(d) \in Nat /\ CO(d) \in Nat /\ CH(d)' \in Nat /\ CO(d)' \in Nat
        /\ CH(d)' = IF d = "disk" /\ res[r][d] # "none" THEN CH(d) - 1 ELSE CH(d)
        /\ CO(d)' = IF d = "disk" /\ res[r][d] = "open" THEN CO(d) - 1 ELSE CO(d)
  BY <1>1, MarkNone DEF QInv, Dims
<1>3. \A d \in Dims :
        /\ pend[d] \in Nat /\ used[d] \in Nat /\ used'[d] \in Nat
        /\ pend'[d] = IF d = "disk" THEN (IF pend[d] > 1 THEN pend[d] - 1 ELSE 0)
                                     ELSE pend[d]
        /\ used'[d] <= IF d = "disk" THEN used[d] + 1 ELSE used[d]
  BY DEF AllocDisk, Sub, Units, QInv, Amounts
<1>4. \A d \in Dims : d \notin cut' => d \notin cut /\ (d = "disk" => res[r][d] = "open")
  BY ZenonT(60) DEF AllocDisk
<1>5. StoredQuota' = StoredQuota /\ lowered' = lowered /\ leak' = leak
  BY ZenonT(60) DEF AllocDisk, StoredQuota, adm
<1>6. \A d \in Dims : StoredQuota[d] \in Nat
  BY QuotaAssumption, ZenonT(60) DEF QInv, Amounts, StoredQuota
<1>7. Current'
  <2>1. \A q \in Request : pc'[q] # "check"
    BY <1>1, QuotaAssumption, ZenonT(60) DEF AllocDisk, Goto, QInv, Fresh, Places
  <2>2. QED
    BY <2>1, ZenonT(60) DEF Current
<1>8. Kept'
  BY <1>2, <1>3, <1>4, <1>5, <1>6 DEF QInv, Balance, Kept
<1>9. Covered'
  BY <1>2, <1>3, <1>4 DEF QInv, Balance, Covered
<1>10. Owned'
  BY <1>2, <1>3, <1>5 DEF QInv, Balance, Owned
<1>11. Amounts' /\ NoneAdded
  <2>1. pend' \in [Dims -> Nat]
    BY <1>3 DEF AllocDisk, Sub
  <2>2. used' \in [Dims -> Nat]
    <3>1. used' = used \/ used' = [used EXCEPT !["disk"] = used["disk"] + 1]
      BY ZenonT(60) DEF AllocDisk
    <3>2. QED
      BY <3>1 DEF QInv, Amounts, Dims
  <2>3. QED
    BY <1>1, <2>1, <2>2, MarkTypes, ZenonT(60) DEF AllocDisk, QInv, Amounts, Dims, adm
<1>12. QED
  BY <1>7, <1>8, <1>9, <1>10, <1>11, ZenonT(60) DEF Balance

\* The admission of a request: the comparison covers all that is promised.
LEMMA AdmitKeeps ==
  ASSUME QInv, NEW r \in Request, Admit(r)
  PROVE  Amounts' /\ Balance'
<1> DEFINE W == Wants[kind[r]]
<1>0. W \in SUBSET Dims
  BY DEF QInv, Places, Wants, Dims
<1>1. Mark(r, W, "open") /\ \A e \in Dims : res[r][e] = "none"
  BY ZenonT(60) DEF Admit, QInv, Fresh, Early
<1>2. \A d \in Dims :
        /\ CH(d)' = IF d \in W THEN CH(d) + 1 ELSE CH(d)
        /\ CO(d)' = IF d \in W THEN CO(d) + 1 ELSE CO(d)
        /\ CH(d) \in Nat /\ CO(d) \in Nat
  <2> HIDE DEF W
  <2> QED
    BY <1>0, <1>1, MarkOpen, Counts, ZenonT(60) DEF QInv
<1>3. \A d \in Dims :
        /\ pend[d] \in Nat /\ used[d] \in Nat /\ seen[r][d] \in Nat
        /\ pend'[d] = IF d \in W THEN pend[d] + 1 ELSE pend[d]
  BY DEF Admit, Add, Units, QInv, Amounts, Places
<1>4. StoredQuota' = StoredQuota /\ lowered' = lowered /\ leak' = leak /\ cut' = cut
      /\ used' = used
  BY ZenonT(60) DEF Admit, StoredQuota, db, adm
<1>5. \A d \in Dims : StoredQuota[d] \in Nat
  BY QuotaAssumption DEF QInv, Amounts, StoredQuota
<1>6. Current'
  <2>1. \A q \in Request : pc'[q] # "check"
    BY QuotaAssumption DEF Admit, Goto, QInv, Fresh, Places
  <2>2. QED
    BY <2>1 DEF Current
<1>7. \A d \in W : seen[r][d] + pend[d] + 1 <= StoredQuota[d]
  BY <1>0, <1>3, <1>5 DEF Admit, Exceed
<1>8. \A d \in Dims \ cut : used[d] + CO(d) <= seen[r][d] + pend[d]
  BY DEF Admit, QInv, Balance, Current
<1> HIDE DEF W
<1>9. Kept'
  BY <1>0, <1>2, <1>3, <1>4, <1>5, <1>7, <1>8 DEF QInv, Balance, Kept
<1>10. Covered' /\ Owned'
  BY <1>2, <1>3, <1>4 DEF QInv, Balance, Covered, Owned
<1>11. Amounts'
  <2>1. pend' \in [Dims -> Nat]
    BY <1>3 DEF Admit, Add
  <2>2. QED
    BY <1>0, <1>1, <2>1, MarkTypes, ZenonT(60) DEF Admit, QInv, Amounts, adm, db
<1>12. QED
  BY <1>6, <1>9, <1>10, <1>11, ZenonT(60) DEF Balance

\* The start of a check: all that is promised is pending.
LEMMA ReadKeeps ==
  ASSUME QInv, NEW r \in Request, ReadUsage(r)
  PROVE  Amounts' /\ Balance'
<1>1. \A d \in Dims : CH(d)' = CH(d) /\ CO(d)' = CO(d)
  BY DEF ReadUsage, Lock, CH, CO, Held, Open, hist
<1>2. \A d \in Dims : CO(d) <= CH(d) /\ CO(d) \in Nat /\ CH(d) \in Nat
  BY Counts, ZenonT(60) DEF QInv
<1>3. StoredQuota' = StoredQuota
  BY ZenonT(60) DEF ReadUsage, Lock, StoredQuota, db
<1>4. \A q \in Request : pc'[q] = "check" => seen'[q] = used
  BY QuotaAssumption, ZenonT(60) DEF ReadUsage, Lock, Goto, QInv, Fresh, Places
<1>5. UNCHANGED <<used, pend, cut, leak, lowered>>
  BY ZenonT(60) DEF ReadUsage, Lock, db, hist, adm
<1>6. \A d \in Dims : used[d] \in Nat /\ pend[d] \in Nat
  BY ZenonT(60) DEF QInv, Amounts
<1>7. Current'
  BY <1>1, <1>2, <1>4, <1>5, <1>6 DEF QInv, Balance, Current, Covered
<1>8. Kept' /\ Covered' /\ Owned'
  BY <1>1, <1>3, <1>5 DEF QInv, Balance, Kept, Covered, Owned
<1>9. Amounts'
  BY ZenonT(60) DEF ReadUsage, Lock, QInv, Amounts, db, adm, hist
<1>10. QED
  BY <1>7, <1>8, <1>9, ZenonT(60) DEF Balance


\* A deletion gives usage back.
LEMMA DeleteKeeps ==
  ASSUME QInv, NEW e \in Dims, Delete(e)
  PROVE  Amounts' /\ Balance'
<1>1. \A d \in Dims : CH(d)' = CH(d) /\ CO(d)' = CO(d) /\ CO(d) \in Nat
  BY Counts, ZenonT(60) DEF Delete, CH, CO, Held, Open, hist, QInv
<1>2. StoredQuota' = StoredQuota /\ \A d \in Dims : StoredQuota[d] \in Nat
  BY QuotaAssumption, ZenonT(60) DEF Delete, StoredQuota, QInv, Amounts
<1>3. \A d \in Dims : used'[d] <= used[d] /\ used[d] \in Nat /\ used'[d] \in Nat
  BY DEF Delete, QInv, Amounts
<1>4. UNCHANGED <<pend, cut, leak, lowered, pc, seen>>
  BY ZenonT(60) DEF Delete, hist, adm, req
<1>5. \A d \in Dims : pend[d] \in Nat /\ \A q \in Request : seen[q][d] \in Nat
  BY DEF QInv, Amounts, Places
<1>6. Amounts'
  BY DEF Delete, QInv, Amounts, adm, hist
<1>7. Balance'
  BY <1>1, <1>2, <1>3, <1>4, <1>5
     DEF QInv, Balance, Current, Kept, Covered, Owned
<1>8. QED
  BY <1>6, <1>7

\* A new quota: where it is lower, the dimension is marked.
LEMMA SetQuotaKeeps ==
  ASSUME QInv, NEW a \in Admin, SetQuota(a)
  PROVE  Amounts' /\ Balance'
<1>1. \A d \in Dims : CH(d)' = CH(d) /\ CO(d)' = CO(d) /\ CO(d) \in Nat
  BY Counts, ZenonT(60) DEF SetQuota, CH, CO, Held, Open, hist, QInv
<1>2. quota' = Merged(a) /\ UNCHANGED <<used, pend, cut, leak, pc, seen>>
  BY ZenonT(60) DEF SetQuota, hist, req
<1>3. Merged(a) \in [Dims -> Nat] /\ Merged(a) # Zero
  BY QuotaAssumption DEF Merged, Zero, QInv, Amounts
<1>4. StoredQuota' = Merged(a)
  BY <1>2, <1>3, ZenonT(60) DEF StoredQuota, Zero
<1>5. \A d \in Dims : d \notin lowered' => d \notin lowered /\ ~(Merged(a)[d] < StoredQuota[d])
  BY ZenonT(60) DEF SetQuota
<1>6. \A d \in Dims : StoredQuota[d] \in Nat /\ used[d] \in Nat
  BY QuotaAssumption, ZenonT(60) DEF QInv, Amounts, StoredQuota
<1>7. Kept'
  BY <1>1, <1>2, <1>3, <1>4, <1>5, <1>6 DEF QInv, Balance, Kept
<1>8. Current' /\ Covered' /\ Owned'
  BY <1>1, <1>2, ZenonT(60) DEF QInv, Balance, Current, Covered, Owned
<1>9. oquota' \in [Admin -> [Dims -> Nat]]
  BY ZenonT(60) DEF SetQuota, Zero, QInv, Amounts
<1>10. Amounts'
  BY <1>2, <1>3, <1>9 DEF SetQuota, QInv, Amounts, hist
<1>11. QED
  BY <1>7, <1>8, <1>10 DEF Balance

\* A restart drops all that is pending with all that holds it.
LEMMA RestartKeeps ==
  ASSUME QInv, Restart
  PROVE  Amounts' /\ Balance'
<1>1. \A d \in Dims : CH(d)' = 0 /\ CO(d)' = 0
  <2> TAKE d \in Dims
  <2>1. Held(d)' = {} /\ Open(d)' = {}
    BY ZenonT(60) DEF Restart, Held, Open
  <2>2. QED
    BY <2>1, FS_EmptySet DEF CH, CO
<1>2. \A d \in Dims : CO(d) \in Nat /\ used[d] \in Nat /\ StoredQuota[d] \in Nat
  BY Counts, QuotaAssumption, ZenonT(60) DEF QInv, Amounts, StoredQuota
<1>3. StoredQuota' = StoredQuota /\ UNCHANGED <<used, cut, lowered>>
  BY ZenonT(60) DEF Restart, StoredQuota, db
<1>4. \A d \in Dims : pend'[d] = 0
  BY ZenonT(60) DEF Restart, Zero
<1>5. Current'
  BY ZenonT(60) DEF Current, Restart, Remote
<1>6. Kept' /\ Covered' /\ Owned'
  BY <1>1, <1>2, <1>3, <1>4 DEF QInv, Balance, Kept, Covered, Owned
<1>7. Amounts'
  <2>1. pend' \in [Dims -> Nat] /\ oquota' \in [Admin -> [Dims -> Nat]]
    BY ZenonT(60) DEF Restart, Zero
  <2>2. res' \in [Request -> [Dims -> {"none", "open", "used"}]]
    BY ZenonT(60) DEF Restart
  <2>3. QED
    BY <1>3, <2>1, <2>2, ZenonT(60) DEF Restart, QInv, Amounts, db
<1>8. QED
  BY <1>5, <1>6, <1>7 DEF Balance

\* A request that moves on by Goto to a place after the check.
LEMMA GotoMoves ==
  ASSUME QInv, NEW r \in Request, NEW to \in PCs, Goto(r, to),
         to \in Early => pc[r] \in Early, to # "check",
         UNCHANGED <<kind, lock, seen>>
  PROVE  Moves
<1>1. pc' = [pc EXCEPT ![r] = to] /\ pc \in [Request -> PCs]
  BY ZenonT(60) DEF Goto, QInv, Places
<1>2. Places'
  BY <1>1, ZenonT(60) DEF QInv, Places
<1>3. \A q \in Request : pc'[q] = IF q = r THEN to ELSE pc[q]
  BY <1>1, ZenonT(60)
<1>4. QED
  BY <1>2, <1>3, ZenonT(60) DEF Moves

\* Every step of a request but the two of the check is such a move.
LEMMA StepMoves ==
  ASSUME QInv, NEW r \in Request, Step(r), ~ReadUsage(r), ~Admit(r)
  PROVE  Moves
<1>1. CASE Refuse(r)
  <2>1. pc' = [pc EXCEPT ![r] = "done"] /\ lock = r
    BY <1>1, ZenonT(60) DEF Refuse, Goto, QInv, Fresh
  <2>2. \A q \in Request : pc'[q] = IF q = r THEN "done" ELSE pc[q]
    BY <2>1, ZenonT(60) DEF QInv, Places
  <2>3. \A q \in Request : q # r => pc[q] # "check"
    BY <2>1, ZenonT(60) DEF QInv, Fresh
  <2>4. Places'
    <3>1. pc' \in [Request -> PCs]
      BY <2>1, ZenonT(60) DEF QInv, Places, PCs
    <3>2. seen' \in [Request -> [Dims -> Nat]] /\ kind' = kind
      BY <1>1, ZenonT(60) DEF Refuse, QInv, Places, Zero
    <3>3. QED
      BY <3>1, <3>2, ZenonT(60) DEF QInv, Places
  <2>5. QED
    BY <2>2, <2>3, <2>4, ZenonT(60) DEF Moves, Early
<1>2. CASE ReleaseCopy(r)
  BY <1>2, ZenonT(60) DEF ReleaseCopy, Moves, QInv, Places
<1>3. CASE Arrive(r) \/ SkipCheck(r)
  <2>1. PICK to \in {"validate", "insert"} : Goto(r, to)
    BY <1>3, ZenonT(60) DEF Arrive, SkipCheck
  <2>2. UNCHANGED <<kind, lock, seen>> /\ pc[r] \in Early
    BY <1>3, ZenonT(60) DEF Arrive, SkipCheck, Early
  <2>3. QED
    BY <2>1, <2>2, GotoMoves, ZenonT(60) DEF PCs
<1>4. CASE \/ NewTask(r) \/ StartTask(r) \/ ScheduleFails(r) \/ AllocFails(r)
          \/ GuestFails(r) \/ ResizeFails(r) \/ NotInserted(r) \/ NoTask(r)
          \/ ConfigFails(r)
  <2>1. PICK to \in {"queued", "release", "resize", "change", "sched", "done", "failed"} : Goto(r, to)
    BY <1>4, ZenonT(60) DEF NewTask, StartTask, ScheduleFails, AllocFails, GuestFails,
       ResizeFails, NotInserted, NoTask, ConfigFails
  <2>2. UNCHANGED <<kind, lock, seen>>
    BY <1>4, ZenonT(60) DEF NewTask, StartTask, ScheduleFails, AllocFails, GuestFails,
       ResizeFails, NotInserted, NoTask, ConfigFails
  <2>3. QED
    BY <2>1, <2>2, GotoMoves, ZenonT(60) DEF Early, PCs
<1>5. CASE \/ CancelCpu(r) \/ StartCreateDisk(r) \/ SetStorageFails(r)
          \/ Release(r) \/ CancelChange(r) \/ AllocDisk(r)
  <2>1. PICK to \in {"alloc", "release", "building", "done"} : Goto(r, to)
    BY <1>5, ZenonT(60) DEF CancelCpu, StartCreateDisk, SetStorageFails, Release, CancelChange,
       AllocDisk
  <2>2. UNCHANGED <<kind, lock, seen>>
    BY <1>5, ZenonT(60) DEF CancelCpu, StartCreateDisk, SetStorageFails, Release, CancelChange,
       AllocDisk
  <2>3. QED
    BY <2>1, <2>2, GotoMoves, ZenonT(60) DEF Early, PCs
<1>6. CASE \/ Insert(r) \/ ToHost(r) \/ GuestBuilt(r) \/ ResizeDone(r)
          \/ ChangeCpu(r)
  <2>1. PICK to \in {"complete", "hosted", "done", "change", "release", "changed"} : Goto(r, to)
    BY <1>6, ZenonT(60) DEF Insert, ToHost, GuestBuilt, ResizeDone, ChangeCpu
  <2>2. UNCHANGED <<kind, lock, seen>>
    BY <1>6, ZenonT(60) DEF Insert, ToHost, GuestBuilt, ResizeDone, ChangeCpu
  <2>3. QED
    BY <2>1, <2>2, GotoMoves, ZenonT(60) DEF Early, PCs
<1>7. QED
  BY <1>1, <1>2, <1>3, <1>4, <1>5, <1>6, ZenonT(60) DEF Step

\* What the steps of a request other than those of the check and AllocDisk do to
\* the usage.
LEMMA StepEffect ==
  ASSUME QInv, NEW r \in Request, Step(r), ~ReadUsage(r), ~Admit(r), ~AllocDisk(r)
  PROVE  /\ UNCHANGED <<quota, oquota, lowered>>
         /\ \/ UNCHANGED <<used, pend, hist>>
            \/ UNCHANGED used /\ \E S \in SUBSET Dims : CancelPendingUsage(r, S)
            \/ UNCHANGED <<pend, leak>> /\ \E e \in Dims : Counted(r, e)
            \/ UNCHANGED <<used, pend>> /\ Abandon(r)
<1> USE DEF db, adm, hist
<1>1. CASE \/ Arrive(r) \/ SkipCheck(r) \/ Refuse(r) \/ NewTask(r)
          \/ StartTask(r) \/ ScheduleFails(r) \/ AllocFails(r) \/ GuestFails(r)
          \/ ResizeFails(r)
  BY <1>1, ZenonT(60) DEF Arrive, SkipCheck, Refuse, NewTask, StartTask, ScheduleFails,
     AllocFails, GuestFails, ResizeFails
<1>2. CASE CancelCpu(r) \/ CancelChange(r)
  BY <1>2, ZenonT(60) DEF CancelCpu, CancelChange, Dims
<1>3. CASE StartCreateDisk(r) \/ SetStorageFails(r)
  BY <1>3, ZenonT(60) DEF StartCreateDisk, SetStorageFails, Dims
<1>4. CASE Release(r)
  BY <1>4, ZenonT(60) DEF Release
<1>5. CASE ReleaseCopy(r)
  <2>1. Wants[kind[r]] \in SUBSET Dims
    BY DEF QInv, Places, Wants, Dims
  <2>2. QED
    BY <1>5, <2>1, ZenonT(60) DEF ReleaseCopy
<1>6. CASE Insert(r)
  <2>1. Wants[kind[r]] \in SUBSET Dims
    BY DEF QInv, Places, Wants, Dims
  <2>2. QED
    BY <1>6, <2>1, ZenonT(60) DEF Insert
<1>7. CASE ToHost(r) \/ GuestBuilt(r) \/ ResizeDone(r) \/ ChangeCpu(r)
  BY <1>7, ZenonT(60) DEF ToHost, GuestBuilt, ResizeDone, ChangeCpu, Dims
<1>8. CASE NotInserted(r) \/ NoTask(r) \/ ConfigFails(r)
  BY <1>8, ZenonT(60) DEF NotInserted, NoTask, ConfigFails
<1>9. QED
  BY <1>1, <1>2, <1>3, <1>4, <1>5, <1>6, <1>7, <1>8, ZenonT(60) DEF Step

\* A step of a request keeps the invariant.
LEMMA StepKeeps ==
  ASSUME QInv, NEW r \in Request, Step(r)
  PROVE  QInv'
<1>1. CASE ReadUsage(r)
  <2>1. Places'
    <3>1. pc' \in [Request -> PCs]
      BY <1>1, ZenonT(60) DEF ReadUsage, Lock, Goto, QInv, Places, PCs
    <3>2. seen' \in [Request -> [Dims -> Nat]] /\ kind' = kind
      BY <1>1 DEF ReadUsage, Lock, QInv, Places, Amounts
    <3>3. QED
      BY <3>1, <3>2, ZenonT(60) DEF QInv, Places
  <2>2. Fresh'
    BY <1>1, QuotaAssumption, ZenonT(60)
       DEF ReadUsage, Lock, Goto, QInv, Fresh, Places, Early, hist
  <2>3. QED
    BY <1>1, <2>1, <2>2, ReadKeeps, ZenonT(60) DEF QInv
<1>2. CASE Admit(r)
  <2>1. Places'
    <3>1. PICK to \in {"alloc", "insert", "complete"} : pc' = [pc EXCEPT ![r] = to]
      BY <1>2, ZenonT(60) DEF Admit, Goto
    <3>2. pc' \in [Request -> PCs]
      BY <3>1, ZenonT(60) DEF QInv, Places, PCs
    <3>3. seen' \in [Request -> [Dims -> Nat]] /\ kind' = kind
      BY <1>2 DEF Admit, QInv, Places, Zero
    <3>4. QED
      BY <3>2, <3>3, ZenonT(60) DEF QInv, Places
  <2>2. \A q \in Request : q # r => res'[q] = res[q] /\ pc'[q] = pc[q]
    BY <1>2, ZenonT(60) DEF Admit, Mark, Goto, QInv, Amounts, Places
  <2>3. pc'[r] \notin Early /\ lock = r
    BY <1>2, ZenonT(60) DEF Admit, Goto, QInv, Places, Fresh, Early
  <2>4. Fresh'
    BY <2>2, <2>3, ZenonT(60) DEF QInv, Fresh, Early
  <2>5. QED
    BY <1>2, <2>1, <2>4, AdmitKeeps DEF QInv
<1>3. CASE ~ReadUsage(r) /\ ~Admit(r)
  <2>1. Moves
    BY <1>3, StepMoves, ZenonT(60)
  <2>2. Amounts' /\ NoneAdded /\ Balance'
    <3>1. CASE AllocDisk(r)
      BY <3>1, AllocKeeps, ZenonT(60)
    <3>2. CASE ~AllocDisk(r)
      BY <1>3, <2>1, <3>2, StepEffect, QuietKeeps, CancelKeeps, CountedKeeps, AbandonKeeps,
         ZenonT(60) DEF db
    <3>3. QED
      BY <3>1, <3>2, ZenonT(60)
  <2>3. Fresh'
    BY <2>1, <2>2 DEF QInv, Fresh, Moves, NoneAdded, Early
  <2>4. QED
    BY <2>1, <2>2, <2>3 DEF QInv, Moves
<1>4. QED
  BY <1>1, <1>2, <1>3, ZenonT(60)

\* The requests stay where they are.
LEMMA PlacesSame ==
  ASSUME Places, Fresh, UNCHANGED <<kind, pc, seen, lock, res>>
  PROVE  Places' /\ Fresh'
<1>1. Places'
  BY ZenonT(60) DEF Places
<1>2. Fresh'
  BY ZenonT(60) DEF Fresh
<1> QED BY <1>1, <1>2, ZenonT(60)

\* Deletions, administrators and restarts keep it.
LEMMA OtherKeeps ==
  ASSUME QInv, \/ \E d \in Dims : Delete(d)
               \/ \E a \in Admin : ReadQuota(a) \/ SetQuota(a)
               \/ Restart
               \/ UNCHANGED vars
  PROVE  QInv'
<1>1. ASSUME NEW d \in Dims, Delete(d)  PROVE QInv'
  <2>1. Places' /\ Fresh'
    <3>1. UNCHANGED <<kind, pc, seen, lock, res>>
      BY <1>1, ZenonT(60) DEF Delete, req, hist
    <3>2. QED
      BY <3>1, PlacesSame, ZenonT(60) DEF QInv
  <2>2. QED
    BY <1>1, <2>1, DeleteKeeps, ZenonT(60) DEF QInv
<1>2. ASSUME NEW a \in Admin, ReadQuota(a)  PROVE QInv'
  <2>1. Places' /\ Fresh'
    <3>1. UNCHANGED <<kind, pc, seen, lock, res>>
      BY <1>2, ZenonT(60) DEF ReadQuota, req, hist
    <3>2. QED
      BY <3>1, PlacesSame, ZenonT(60) DEF QInv
  <2>2. Balance'
    <3>1. \A d \in Dims : CH(d)' = CH(d) /\ CO(d)' = CO(d)
      BY <1>2, ZenonT(60) DEF ReadQuota, CH, CO, Held, Open, hist
    <3>2. StoredQuota' = StoredQuota
      BY <1>2, ZenonT(60) DEF ReadQuota, StoredQuota, db
    <3>3. QED
      BY <1>2, <3>1, <3>2 DEF ReadQuota, QInv, Balance, Current, Kept, Covered, Owned, db,
         req, hist
  <2>3. Amounts'
    <3>1. StoredQuota \in [Dims -> Nat]
      BY QuotaAssumption, ZenonT(60) DEF QInv, Amounts, StoredQuota
    <3>2. QED
      BY <1>2, <3>1, ZenonT(60) DEF ReadQuota, QInv, Amounts, db, hist
  <2>4. QED
    BY <2>1, <2>2, <2>3, ZenonT(60) DEF QInv
<1>3. ASSUME NEW a \in Admin, SetQuota(a)  PROVE QInv'
  <2>1. Places' /\ Fresh'
    <3>1. UNCHANGED <<kind, pc, seen, lock, res>>
      BY <1>3, ZenonT(60) DEF SetQuota, req, hist
    <3>2. QED
      BY <3>1, PlacesSame DEF QInv
  <2>2. QED
    BY <1>3, <2>1, SetQuotaKeeps DEF QInv
<1>4. ASSUME Restart  PROVE QInv'
  <2>1. pc' \in [Request -> PCs] /\ \A q \in Request : pc'[q] # "check"
    BY <1>4 DEF Restart, Remote, QInv, Places, PCs
  <2>2. seen' \in [Request -> [Dims -> Nat]] /\ kind' = kind
    BY <1>4, ZenonT(60) DEF Restart, Zero
  <2>3. Places'
    BY <2>1, <2>2 DEF QInv, Places
  <2>4. Fresh'
    BY <1>4, <2>1, ZenonT(60) DEF Restart, Fresh
  <2>5. QED
    BY <1>4, <2>3, <2>4, RestartKeeps, ZenonT(60) DEF QInv
<1>5. ASSUME UNCHANGED vars  PROVE QInv'
  <2>1. UNCHANGED <<kind, pc, seen, lock, res>>
    BY <1>5, ZenonT(60) DEF vars, req, hist
  <2>2. UNCHANGED <<db, pend, oquota, hist, lowered>>
    BY <1>5, ZenonT(60) DEF vars, adm
  <2>3. Places' /\ Fresh'
    BY <2>1, PlacesSame, ZenonT(60) DEF QInv
  <2>4. Moves
    BY <2>1, <2>3, ZenonT(60) DEF Moves
  <2>5. QED
    BY <2>2, <2>3, <2>4, QuietKeeps, ZenonT(60) DEF QInv
<1>6. QED
  BY <1>1, <1>2, <1>3, <1>4, <1>5, ZenonT(60)

\* Before anything happens nothing is used, pending or held.
LEMMA InitKeeps == Init => QInv
<1> SUFFICES ASSUME Init  PROVE QInv
  OBVIOUS
<1>1. Amounts /\ Places
  <2>1. Zero \in [Dims -> Nat]
    BY ZenonT(60) DEF Zero
  <2>2. kind \in [Request -> DOMAIN Wants] /\ pc \in [Request -> PCs]
    BY QuotaAssumption, ZenonT(60) DEF Init, PCs
  <2>3. QED
    BY <2>1, <2>2, ZenonT(60) DEF Init, Amounts, Places
<1>2. Fresh /\ Current
  BY ZenonT(60) DEF Init, Fresh, Current
<1>3. \A d \in Dims : CH(d) = 0 /\ CO(d) = 0
  <2> TAKE d \in Dims
  <2>1. Held(d) = {} /\ Open(d) = {}
    BY ZenonT(60) DEF Init, Held, Open
  <2>2. QED
    BY <2>1, FS_EmptySet DEF CH, CO
<1>4. Kept /\ Covered /\ Owned
  BY <1>3, QuotaAssumption DEF Init, Kept, Covered, Owned, StoredQuota, Zero
<1>5. QED
  BY <1>1, <1>2, <1>4 DEF QInv, Balance

\* The balance holds at the start and ever after.
LEMMA Balanced == Spec => []QInv
<1>1. QInv /\ [Next]_vars => QInv'
  BY StepKeeps, OtherKeeps DEF Next, Finished
<1>2. QED
  BY <1>1, InitKeeps, PTL DEF Spec

\* Used and promised usage stay within the quota wherever no step of the code
\* has used or cancelled what was not set aside and no administrator has
\* lowered the quota.
THEOREM QuotaKept == Spec => []WithinQuota
<1>1. QInv => WithinQuota
  BY ZenonT(60) DEF QInv, Balance, Kept, CO, WithinQuota
<1>2. QED
  BY <1>1, Balanced, PTL

\* The pending usage in memory covers every reservation that a handler or a
\* task has yet to cancel.
THEOREM PendingSuffices == Spec => []PendingCovers
<1>1. QInv => PendingCovers
  BY ZenonT(60) DEF QInv, Balance, Covered, CH, PendingCovers
<1>2. QED
  BY <1>1, Balanced, PTL

\* All of the pending usage belongs to a reservation, but for the dimensions in
\* which one was left behind.
THEOREM PendingOwned == Spec => []PendingIsHeld
<1>1. QInv => PendingIsHeld
  BY ZenonT(60) DEF QInv, Balance, Owned, CH, PendingIsHeld
<1>2. QED
  BY <1>1, Balanced, PTL
=============================================================================
