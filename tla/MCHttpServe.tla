---------------------------- MODULE MCHttpServe ----------------------------
(***************************************************************************)
(* Instances of HttpServe for TLC: every request starts at most one worker *)
(* when it is submitted and one when it detaches its own.                  *)
(***************************************************************************)
EXTENDS HttpServe

EnoughWorkers == 2 * Cardinality(Task)
=============================================================================
