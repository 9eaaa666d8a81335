----------------------------- MODULE MCCheckout -----------------------------
(***************************************************************************)
(* Small instances of Checkout for TLC.  The configurations choose which   *)
(* of these definitions are the constants.                                 *)
(***************************************************************************)
EXTENDS Checkout, TLC

CONSTANTS p1, c1, c2, h1, h2

OneProduct == {p1}
OneCheckout == {c1}
TwoCheckouts == {c1, c2}
TwoHandlers == {h1, h2}

\* Handlers are interchangeable, and so are customers; used for invariants only.
HandlerSymmetry == Permutations(TwoHandlers)
FullSymmetry == HandlerSymmetry \cup Permutations(TwoCheckouts)

\* Two customers want the last unit; three want two pairs.
LastUnit == [p \in Products |-> 1]
TwoUnits == [p \in Products |-> 2]
FourUnits == [p \in Products |-> 4]
OneOfEach == {[p \in Products |-> 1]}
TwoOfEach == {[p \in Products |-> 2]}
OneOrTwo == {[p \in Products |-> n] : n \in 1..2}
=============================================================================
