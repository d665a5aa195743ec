----------------------------- MODULE MCLockMan -----------------------------
(***************************************************************************)
(* Instances of LockMan for TLC.  A goroutine's own context is named after *)
(* it; Sharing is the set of goroutines that pass context.Background(),    *)
(* as the cloud provider sync workers do.                                  *)
(***************************************************************************)
EXTENDS LockMan, FiniteSetsExt, TLC

CONSTANTS Sharing, Background

OwnOrBackground == [p \in Proc |-> IF p \in Sharing THEN Background ELSE p]

Contexts == Proc \cup {Background}

\* Goroutines that share the background context are alike, and so are the
\* ones that do not.
Symmetry ==
  Permutations(Rec) \cup Permutations(Sharing) \cup Permutations(Proc \ Sharing)

\* With shared contexts the depth of a record counts the unlocks that all the
\* goroutines of its holder's context owe: the record is released only when
\* the last of them has unlocked.
SharedDepthCounts ==
  \A k \in Key \ (orphaned \cup overflowed) : \A c \in Ctx :
    MapThenSumSet(LAMBDA p : owed[p][k], {p \in Proc : CtxOf[p] = c})
      = IF lockTable[k] # NoRec /\ holder[lockTable[k]] = c
        THEN depth[lockTable[k]] ELSE 0
=============================================================================
