---------------------------- MODULE MCGuestPower ----------------------------
(* Bounds for GuestPower: the requests are model values.                   *)
EXTENDS GuestPower, TLC

\* Requests differ in nothing but their names.
SymmetricRequests == Permutations(Op)

=============================================================================
