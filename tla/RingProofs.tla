----------------------------- MODULE RingProofs -----------------------------
(***************************************************************************)
(* For every size, the ring buffer implements the bounded queue.           *)
(***************************************************************************)
EXTENDS Ring, SequenceTheorems, TLAPS

\* Provers: the default time limits, then longer ones.
USE SMT, Zenon, SMTT(60), ZenonT(60)

USE RingAssumption

-----------------------------------------------------------------------------
(***************************************************************************)
(* Arithmetic of the two pointers.                                         *)
(***************************************************************************)

\* What a step from one slot to the next does to a pointer.
LEMMA NextPointerRange ==
  ASSUME NEW i \in 0..RingSize
  PROVE  nextPointer(i) \in 0..RingSize
BY DEF nextPointer, Slots

\* A ring holds at most Capacity values, and the slots of its values are
\* slots of the buffer other than the one header points to.
LEMMA SlotRange ==
  ASSUME TypeOK
  PROVE  /\ Size \in 0..RingSize
         /\ \A i \in 1..Size : SlotOf(i) \in 0..RingSize /\ SlotOf(i) # header
BY DEF TypeOK, Size, SlotOf, Slots

\* The test of Push for a full ring is that Size has reached Capacity, the
\* one of Pop for an empty ring that Size is 0, and header is where the next
\* value goes.
LEMMA FullAndEmpty ==
  ASSUME TypeOK
  PROVE  /\ nextPointer(header) = tail <=> Size = Capacity
         /\ tail = header <=> Size = 0
         /\ Size < Capacity => SlotOf(Size + 1) = header
BY DEF TypeOK, Size, SlotOf, Slots, Capacity, nextPointer

\* Contents is a sequence of Size values or nils.
LEMMA ContentsSeq ==
  ASSUME TypeOK
  PROVE  /\ Contents \in Seq(Val \cup {Nil})
         /\ Len(Contents) = Size
         /\ DOMAIN Contents = 1..Size
<1>1. Size \in Nat  BY SlotRange
<1>2. \A i \in 1..Size : buffer[SlotOf(i)] \in Val \cup {Nil}
  BY SlotRange DEF TypeOK
<1> QED  BY <1>1, <1>2 DEF Contents

-----------------------------------------------------------------------------
(***************************************************************************)
(* Type correctness, with values in every slot that counts.                *)
(***************************************************************************)
LEMMA InitInv == Init => NoNilInside
BY DEF Init, NoNilInside, TypeOK, Size

\* How a successful Push and a successful Pop change the size and the slots.
LEMMA PushMoves ==
  ASSUME TypeOK, NEW v \in Val, nextPointer(header) # tail,
         header' = nextPointer(header), tail' = tail,
         buffer' = [buffer EXCEPT ![header] = v]
  PROVE  /\ Size' = Size + 1
         /\ \A i \in 1..Size : SlotOf(i)' = SlotOf(i)
         /\ \A i \in Nat : i = Size + 1 => SlotOf(i)' = header
BY DEF TypeOK, Size, SlotOf, Slots, nextPointer

\* Pop takes the element at the tail.
LEMMA PopMoves ==
  ASSUME TypeOK, tail # header,
         header' = header, tail' = nextPointer(tail)
  PROVE  /\ Size' = Size - 1
         /\ SlotOf(1) = tail
         /\ \A i \in 1..Size - 1 : SlotOf(i)' = SlotOf(i + 1)
BY DEF TypeOK, Size, SlotOf, Slots, nextPointer

\* A successful Push appends its value to Contents.
LEMMA PushAppends ==
  ASSUME TypeOK, NEW v \in Val, nextPointer(header) # tail,
         header' = nextPointer(header), tail' = tail,
         buffer' = [buffer EXCEPT ![header] = v]
  PROVE  Contents' = Append(Contents, v)
<1>a. Size' = Size + 1  BY PushMoves, ZenonT(60)
<1>b. Size \in Nat  BY SlotRange
<1>1. Size' = Size + 1 /\ Size \in Nat  BY <1>a, <1>b
<1>2. Contents' = [i \in 1..Size + 1 |-> buffer'[SlotOf(i)']]
  BY <1>1 DEF Contents
<1>3. \A i \in 1..Size : buffer'[SlotOf(i)'] = Contents[i]
  <2> SUFFICES ASSUME NEW i \in 1..Size PROVE buffer'[SlotOf(i)'] = Contents[i]
    OBVIOUS
  <2>1. SlotOf(i)' = SlotOf(i)  BY PushMoves, ZenonT(60)
  <2>2. SlotOf(i) \in 0..RingSize /\ SlotOf(i) # header  BY SlotRange
  <2>3. buffer'[SlotOf(i)] = buffer[SlotOf(i)]  BY <2>2 DEF TypeOK
  <2> QED  BY <2>1, <2>3 DEF Contents
<1>4. \A i \in Nat : i = Size + 1 => buffer'[SlotOf(i)'] = v
  BY PushMoves, ZenonT(60) DEF TypeOK
<1>5. Append(Contents, v) =
        [i \in 1..Size + 1 |-> IF i = Size + 1 THEN v ELSE Contents[i]]
  <2> DEFINE t == Append(Contents, v)
  <2>1. /\ t \in Seq(Val \cup {Nil})
        /\ Len(t) = Size + 1
        /\ \A i \in 1..Size : t[i] = Contents[i]
        /\ t[Size + 1] = v
    BY ContentsSeq, AppendProperties
  <2>a. t \in [1..Size + 1 -> Val \cup {Nil}]  BY <2>1, LenProperties, ZenonT(60)
  <2> HIDE DEF t
  <2>2. t = [i \in 1..Size + 1 |-> t[i]]  BY <2>a
  <2>3. \A i \in 1..Size + 1 : t[i] = IF i = Size + 1 THEN v ELSE Contents[i]
    BY <2>1, <1>1
  <2> QED  BY <2>2, <2>3, ZenonT(60) DEF t
<1>6. \A i \in 1..Size + 1 :
        buffer'[SlotOf(i)'] = IF i = Size + 1 THEN v ELSE Contents[i]
  BY <1>1, <1>3, <1>4
<1> QED  BY <1>2, <1>5, <1>6

\* A successful Pop takes the head of Contents off.
LEMMA PopTakesHead ==
  ASSUME TypeOK, tail # header, header' = header,
         tail' = nextPointer(tail), buffer' = buffer
  PROVE  /\ Contents # <<>>
         /\ buffer[tail] = Head(Contents)
         /\ Contents' = Tail(Contents)
<1>1. Size' = Size - 1 /\ Size \in Nat /\ Size # 0
  BY PopMoves, SlotRange, FullAndEmpty
<1>2. Contents # <<>>  BY <1>1, ContentsSeq
<1>3. Head(Contents) = Contents[1]  BY <1>1, <1>2, ContentsSeq
<1>4. Contents[1] = buffer[tail]  BY <1>1, PopMoves DEF Contents
<1>5. Contents' = [i \in 1..Size - 1 |-> buffer[SlotOf(i)']]
  BY <1>1 DEF Contents
<1>6. Tail(Contents) = [i \in 1..Size - 1 |-> Contents[i + 1]]
  <2> DEFINE t == Tail(Contents)
  <2>1. /\ t \in Seq(Val \cup {Nil})
        /\ Len(t) = Size - 1
        /\ \A i \in 1..Len(t) : t[i] = Contents[i + 1]
    BY <1>2, ContentsSeq, HeadTailProperties
  <2>a. t \in [1..Size - 1 -> Val \cup {Nil}]  BY <2>1, LenProperties, ZenonT(60)
  <2> HIDE DEF t
  <2>2. t = [i \in 1..Size - 1 |-> t[i]]  BY <2>a
  <2>3. 1..Len(t) = 1..Size - 1  BY <2>1
  <2>4. Tail(Contents) = [i \in 1..Size - 1 |-> Contents[i + 1]]  BY <2>1, <2>2, <2>3 DEF t
  <2> QED  BY <2>4
<1>7. \A i \in 1..Size - 1 : buffer[SlotOf(i)'] = Contents[i + 1]
  BY <1>1, PopMoves DEF Contents
<1> QED  BY <1>2, <1>3, <1>4, <1>5, <1>6, <1>7

-----------------------------------------------------------------------------
\* Push and Pop keep values in every slot that counts.
LEMMA StepInv == NoNilInside /\ [Next]_vars => NoNilInside'
<1> SUFFICES ASSUME NoNilInside, [Next]_vars PROVE NoNilInside'
  OBVIOUS
<1>1. TypeOK /\ TypeOK'
  BY NextPointerRange, ZenonT(60) DEF NoNilInside, TypeOK, Next, Push, Pop, vars
<1>2. ASSUME NEW v \in Val, Push(v) PROVE NoNilInside'
  <2>1. CASE nextPointer(header) = tail
    BY <1>1, <1>2, <2>1 DEF Push, NoNilInside, Contents, Size, SlotOf
  <2>2. CASE nextPointer(header) # tail
    <3>1. Contents' = Append(Contents, v)  BY <1>1, <1>2, <2>2, PushAppends DEF Push
    <3>2. Size' = Size + 1  BY <1>1, <1>2, <2>2, PushMoves DEF Push
    <3> QED  BY <1>1, <3>1, <3>2, ContentsSeq, SlotRange DEF NoNilInside
  <2> QED  BY <2>1, <2>2
<1>3. ASSUME Pop PROVE NoNilInside'
  <2>1. CASE tail = header
    BY <1>1, <1>3, <2>1, SMTT(60) DEF Pop, NoNilInside, Contents, Size, SlotOf
  <2>2. CASE tail # header
    <3>1. Contents' = Tail(Contents) /\ Contents # <<>>
      BY <1>1, <1>3, <2>2, PopTakesHead, SMTT(60) DEF Pop
    <3>2. Size' = Size - 1  BY <1>1, <1>3, <2>2, PopMoves, SMTT(60) DEF Pop
    <3> QED  BY <1>1, <3>1, <3>2, ContentsSeq, SlotRange, SMTT(60) DEF NoNilInside
  <2> QED  BY <2>1, <2>2
<1>4. CASE UNCHANGED vars
  BY <1>1, <1>4, SMTT(60) DEF NoNilInside, Contents, Size, SlotOf, vars
<1> QED  BY <1>2, <1>3, <1>4 DEF Next

\* Pop never hands out a nil for a queued value (ring.go Pop), for any size.
THEOREM ValuesInside == Spec => []NoNilInside
BY InitInv, StepInv, PTL DEF Spec

-----------------------------------------------------------------------------
(***************************************************************************)
(* Refinement.                                                             *)
(***************************************************************************)
LEMMA InitRefines == Init => Queue!Init
<1> SUFFICES ASSUME Init PROVE Queue!Init
  OBVIOUS
<1>1. TypeOK /\ Size = 0  BY DEF Init, TypeOK, Size
<1>2. Contents = <<>>  BY <1>1, ContentsSeq
<1> QED  BY <1>2 DEF Init, Queue!Init

LEMMA StepRefines ==
  ASSUME TypeOK, [Next]_vars
  PROVE  [Queue!Next]_<<Contents, pushed, popped>>
<1>1. ASSUME NEW v \in Val, Push(v) PROVE Queue!Push(v)
  <2>1. CASE nextPointer(header) = tail
    <3>1. Contents' = Contents  BY <1>1, <2>1 DEF Push, Contents, Size, SlotOf
    <3>2. Len(Contents) >= Capacity
      BY <2>1, FullAndEmpty, ContentsSeq, SlotRange, SMTT(60) DEF Capacity, Slots
    <3> QED  BY <1>1, <2>1, <3>1, <3>2, SMTT(60) DEF Push, Queue!Push
  <2>2. CASE nextPointer(header) # tail
    <3>1. Contents' = Append(Contents, v)  BY <1>1, <2>2, PushAppends DEF Push
    <3>2. Len(Contents) < Capacity
      BY <2>2, FullAndEmpty, ContentsSeq, SlotRange DEF Capacity, Slots
    <3> QED  BY <1>1, <2>2, <3>1, <3>2, SMTT(60) DEF Push, Queue!Push
  <2> QED  BY <2>1, <2>2
<1>2. ASSUME Pop PROVE Queue!Pop
  <2>1. CASE tail = header
    <3>1. Contents' = Contents  BY <1>2, <2>1 DEF Pop, Contents, Size, SlotOf
    <3>2. Contents = <<>>  BY <2>1, FullAndEmpty, ContentsSeq
    <3> QED  BY <1>2, <2>1, <3>1, <3>2, SMTT(60) DEF Pop, Queue!Pop
  <2>2. CASE tail # header
    <3>1. /\ Contents # <<>>
          /\ buffer[tail] = Head(Contents)
          /\ Contents' = Tail(Contents)
      BY <1>2, <2>2, PopTakesHead DEF Pop
    <3> QED  BY <1>2, <2>2, <3>1 DEF Pop, Queue!Pop
  <2> QED  BY <2>1, <2>2
<1>3. CASE UNCHANGED vars
  BY <1>3 DEF vars, Contents, Size, SlotOf
<1> QED  BY <1>1, <1>2, <1>3, SMTT(60) DEF Next, Queue!Next

\* The ring answers every Push and Pop as the bounded queue does, for any
\* size and any values.
THEOREM Refinement == Spec => ImplementsQueue
<1>1. NoNilInside => TypeOK  BY DEF NoNilInside
<1> QED
  BY <1>1, ValuesInside, InitRefines, StepRefines, PTL
  DEF Spec, ImplementsQueue, Queue!Spec
=============================================================================
