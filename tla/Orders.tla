------------------------------- MODULE Orders -------------------------------
(***************************************************************************)
(* What the fulfilment of an order and its after-sales care share: the     *)
(* order, its latest payment, and the bill both were created with.         *)
(*                                                                         *)
(* An order paid through PayOS exists only once the money has been seen,   *)
(* so its payment starts as paid; one paid in cash starts as pending.      *)
(***************************************************************************)
EXTENDS Naturals, FiniteSets

CONSTANTS
  Orders,   \* orders with an internal delivery, created by a checkout
  Cash,     \* those to be paid to the courier; PayOS took the others' money
  Amount    \* order_payments.amount: merchandise, less discounts, plus delivery

ASSUME OrderAssumption ==
  /\ Cash \subseteq Orders
  /\ Amount \in [Orders -> Nat \ {0}]

VARIABLES
  order,    \* orders.status
  payment   \* order_payments: status and refunded_amount

OrderStates == {"PENDING", "DONE", "CANCELED"}
PaymentStates == {"pending", "paid", "partially_refunded", "refunded"}

OrdersOK ==
  /\ order \in [Orders -> OrderStates]
  /\ payment \in [Orders -> [status: PaymentStates, refunded: Nat]]

OrdersInit ==
  /\ order = [o \in Orders |-> "PENDING"]
  /\ payment = [o \in Orders |->
       [status |-> IF o \in Cash THEN "pending" ELSE "paid", refunded |-> 0]]
=============================================================================
