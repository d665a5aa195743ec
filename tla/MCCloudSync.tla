---------------------------- MODULE MCCloudSync ----------------------------
(* An account with one provider and two regions, which the hash ring gives *)
(* to different sync workers.                                              *)
EXTENDS CloudSync, TLC

CONSTANTS p1, r1, r2, w1, w2

TwoRegions == (r1 :> p1) @@ (r2 :> p1)
TwoWorkers == (r1 :> w1) @@ (r2 :> w2)
=============================================================================
