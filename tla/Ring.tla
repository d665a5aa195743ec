-------------------------------- MODULE Ring --------------------------------
(***************************************************************************)
(* The circular buffer of pkg/appsrv (ring.go): size + 1 slots, of which   *)
(* one stays free so that header = tail means empty.  Every operation runs *)
(* under the ring's lock.  It implements BoundedQueue.                     *)
(***************************************************************************)
EXTENDS Integers, Sequences

CONSTANTS
  Val, Nil,   \* the values pushed; nil
  RingSize    \* the size NewRing was called with

ASSUME RingAssumption == RingSize \in Nat /\ Nil \notin Val

VARIABLES
  buffer, header, tail,
  pushed, popped   \* what the last Push and the last Pop returned

vars == <<buffer, header, tail, pushed, popped>>

Slots == RingSize + 1

TypeOK ==
  /\ buffer \in [0..RingSize -> Val \cup {Nil}]
  /\ header \in 0..RingSize
  /\ tail \in 0..RingSize
  /\ pushed \in BOOLEAN
  /\ popped \in Val \cup {Nil}

\* NewRing
Init ==
  /\ buffer = [i \in 0..RingSize |-> Nil]
  /\ header = 0
  /\ tail = 0
  /\ pushed = TRUE
  /\ popped = Nil

nextPointer(idx) == IF idx + 1 >= Slots THEN 0 ELSE idx + 1

Push(v) ==
  \/ /\ nextPointer(header) = tail
     /\ pushed' = FALSE
     /\ UNCHANGED <<buffer, header, tail, popped>>
  \/ /\ nextPointer(header) # tail
     /\ buffer' = [buffer EXCEPT ![header] = v]
     /\ header' = nextPointer(header)
     /\ pushed' = TRUE
     /\ UNCHANGED <<tail, popped>>

Pop ==
  \/ /\ tail = header
     /\ popped' = Nil
     /\ UNCHANGED <<buffer, header, tail, pushed>>
  \/ /\ tail # header
     /\ popped' = buffer[tail]
     /\ tail' = nextPointer(tail)
     /\ UNCHANGED <<buffer, header, pushed>>

Capacity == Slots - 1

\* Mistake: measures from the last slot, not from the end of the buffer.
SizeShort == IF tail <= header THEN header - tail ELSE Capacity - tail + header

Size == IF tail <= header THEN header - tail ELSE Slots - tail + header

Next == Pop \/ \E v \in Val : Push(v)

Spec == Init /\ [][Next]_vars

-----------------------------------------------------------------------------
(***************************************************************************)
(* The queue a ring stands for.                                            *)
(***************************************************************************)

\* The slot of the i-th oldest value.
SlotOf(i) == IF tail + i - 1 < Slots THEN tail + i - 1 ELSE tail + i - 1 - Slots

Contents == [i \in 1..Size |-> buffer[SlotOf(i)]]

Queue == INSTANCE BoundedQueue WITH q <- Contents

\* Push and Pop answer as a first-in first-out queue of Capacity values does,
\* however often the two pointers have wrapped around, and Size is the number
\* of values in it.
ImplementsQueue == Queue!Spec

\* Every slot that Size counts holds a value that was pushed: Pop never hands
\* out a nil for a queued task, which a worker would take for an empty queue.
NoNilInside == TypeOK /\ \A i \in 1..Size : Contents[i] \in Val

=============================================================================
