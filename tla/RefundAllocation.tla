-------------------------- MODULE RefundAllocation --------------------------
(***************************************************************************)
(* What each unit of an order is worth when it comes back: its price, less *)
(* its share of the order's merchandise discount.  Shares are whole dong,  *)
(* by largest remainder.                                                   *)
(***************************************************************************)
EXTENDS Sums, Sequences, FiniteSets

\* A bill: order items with their quantity and price, and the discount.
IsBill(b) ==
  /\ b.quantity \in Seq(Nat)
  /\ b.price \in [DOMAIN b.quantity -> Nat]
  /\ b.discount \in Nat

\* The units of a bill, by order item and index within it.
Units(b) ==
  UNION {{i} \X (0 .. (b.quantity[i] - 1)) : i \in DOMAIN b.quantity}

Gross(b, u) == b.price[u[1]]
Subtotal(b, U) == SumOf([u \in U |-> Gross(b, u)], U)

\* The whole part of a unit's share of the discount, and what it leaves.
Share(b, u, sub) == IF sub = 0 THEN 0 ELSE (b.discount * Gross(b, u)) \div sub
Remainder(b, u, sub) == IF sub = 0 THEN 0 ELSE (b.discount * Gross(b, u)) % sub

\* Who gets the dong that are left: the larger remainder, then the later unit.
Later(u, v) == u[1] > v[1] \/ (u[1] = v[1] /\ u[2] > v[2])
Before(b, u, v, sub) ==
  \/ Remainder(b, u, sub) > Remainder(b, v, sub)
  \/ Remainder(b, u, sub) = Remainder(b, v, sub) /\ Later(u, v)

\* Mutant of Discounts: the dong that are left are not handed out.
RoundedDown(b, U) ==
  LET sub == Subtotal(b, U) IN [u \in U |-> Share(b, u, sub)]

\* The dong that whole shares leave, and how many units come before u for them.
Left(b, U, sub) == b.discount - SumOf([u \in U |-> Share(b, u, sub)], U)
Rank(b, U, u, sub) == Cardinality({v \in U : Before(b, v, u, sub)})

\* The discount of each unit: allocateRefundUnits.
Discounts(b, U) ==
  LET sub == Subtotal(b, U)
      left == Left(b, U, sub)
  IN  [u \in U |-> Share(b, u, sub) + IF Rank(b, U, u, sub) < left THEN 1 ELSE 0]

Nets(b) ==
  LET U == Units(b)
      discount == Discounts(b, U)
  IN  [u \in U |-> Gross(b, u) - discount[u]]
=============================================================================
