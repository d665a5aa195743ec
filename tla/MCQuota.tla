------------------------------ MODULE MCQuota ------------------------------
(***************************************************************************)
(* An instance of Quota: requests of every kind, a default quota of one in *)
(* each dimension, two administrators that set different dimensions.       *)
(***************************************************************************)
EXTENDS Quota, TLC

CONSTANTS r1, r2, a1, a2

MCAsks == (a1 :> <<"cpu", 2>>) @@ (a2 :> <<"eip", 1>>)
MCDefault == [d \in Dims |-> 1]
AllKinds == DOMAIN Wants

Symmetry == Permutations(Request)
=============================================================================
