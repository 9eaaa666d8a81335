-------------------------- MODULE MCOrderLifecycle --------------------------
(***************************************************************************)
(* A small instance of OrderLifecycle for TLC.                             *)
(***************************************************************************)
EXTENDS OrderLifecycle, TLC

CONSTANTS cod, online, e1, e2, k1, k2, t1, t2, a1, a2

TwoOrders == {cod, online}
CodOrder == {cod}
OnlineOrder == {online}
OneStaff == {e1}
TwoStaff == {e1, e2}
TwoKeys == {k1, k2}
TwoReferences == {t1, t2}
TwoAdmins == {a1, a2}

\* Windows that overlap without being the same.
TwoWindows == {<<1, 3>>, <<2, 4>>}
OneWindow == {<<1, 2>>}

\* Two units of one item and one of another, at these prices and discounts:
\* one that does not divide, ties, free units, no discount, everything free.
Bill(prices, discount) ==
  [quantity |-> <<2, 1>>, price |-> prices, discount |-> discount]
OneBill == {Bill(<<3, 2>>, 3)}
SomeBills == OneBill \cup
  {Bill(<<1, 1>>, 1), Bill(<<4, 0>>, 3), Bill(<<2, 2>>, 5),
   Bill(<<3, 1>>, 0), Bill(<<3, 2>>, 8), Bill(<<5, 3>>, 7)}
AmountOf == [o \in Orders |-> 8]

OneOrBoth == {<<1, 0>>, <<1, 1>>, <<2, 0>>}

Symmetry ==
  Permutations(TwoStaff) \cup Permutations(TwoKeys)
    \cup Permutations(TwoReferences) \cup Permutations(TwoAdmins)
=============================================================================
