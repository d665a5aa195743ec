-------------------------- MODULE MCAccountDelete --------------------------
(***************************************************************************)
(* Instances of AccountDelete for TLC: one run for each task and one       *)
(* wake-up of the account's task by each subtask.  The system stops when   *)
(* all runs are over; that it stops nowhere else is the check for          *)
(* deadlock of the object locks and the locks of parent tasks.             *)
(***************************************************************************)
EXTENDS AccountDelete, TLC

EnoughRuns == 1 + 2 * Cardinality(Provider)

ProviderSymmetry == Permutations(Provider)

Finished == Idle /\ UNCHANGED vars

MCSpec == Init /\ [][Next \/ Finished]_vars
=============================================================================
