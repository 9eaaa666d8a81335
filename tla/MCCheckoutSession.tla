------------------------- MODULE MCCheckoutSession --------------------------
(***************************************************************************)
(* A small instance of CheckoutSession for TLC.                            *)
(***************************************************************************)
EXTENDS CheckoutSession, TLC

CONSTANTS k1, k2, r1, r2

TwoKeys == {k1, k2}
TwoRequests == {r1, r2}

Symmetry == Permutations(TwoKeys) \cup Permutations(TwoRequests)
=============================================================================
