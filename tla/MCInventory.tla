---------------------------- MODULE MCInventory ----------------------------
(***************************************************************************)
(* A small instance of Inventory for TLC.                                  *)
(***************************************************************************)
EXTENDS Inventory, TLC

CONSTANTS p1, o1, c1, a1, k1, k2

OneProduct == {p1}
TwoKeys == {k1, k2}
Unit == [p \in Products |-> 1]

Symmetry == Permutations(TwoKeys)
=============================================================================
