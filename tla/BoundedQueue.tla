---------------------------- MODULE BoundedQueue ----------------------------
(***************************************************************************)
(* What the worker manager expects of its queue: a first-in first-out      *)
(* queue of Capacity values whose Push refuses a value when it is full and *)
(* whose Pop returns Nil when it is empty.                                 *)
(***************************************************************************)
EXTENDS Integers, Sequences

CONSTANTS Val, Nil, Capacity

VARIABLES
  q,        \* the values, oldest first
  pushed,   \* what the last Push returned
  popped    \* what the last Pop returned

Init == q = <<>> /\ pushed = TRUE /\ popped = Nil

Push(v) ==
  /\ \/ /\ Len(q) < Capacity
        /\ q' = Append(q, v)
        /\ pushed' = TRUE
     \/ /\ Len(q) >= Capacity
        /\ pushed' = FALSE
        /\ UNCHANGED q
  /\ UNCHANGED popped

Pop ==
  /\ \/ /\ q # <<>>
        /\ popped' = Head(q)
        /\ q' = Tail(q)
     \/ /\ q = <<>>
        /\ popped' = Nil
        /\ UNCHANGED q
  /\ UNCHANGED pushed

Next == Pop \/ \E v \in Val : Push(v)

Spec == Init /\ [][Next]_<<q, pushed, popped>>
=============================================================================
