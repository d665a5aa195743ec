---------------------------- MODULE MCWorkerMan ----------------------------
(***************************************************************************)
(* Instances of WorkerMan for TLC.  A worker is started by a Run or by a   *)
(* Detach, each of which happens at most once per task.                    *)
(***************************************************************************)
EXTENDS WorkerMan, TLC

EnoughWorkers == Cardinality(Task) + Cardinality(WithChan)

TaskSymmetry == Permutations(WithChan) \cup Permutations(Task \ WithChan)
=============================================================================
