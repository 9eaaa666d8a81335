--------------------------- MODULE OrderLifecycle ---------------------------
(***************************************************************************)
(* An order from the checkout that created it to its last refund: the      *)
(* fulfilment and the after-sales care, which share the order and its      *)
(* payment, and what holds of them together.                               *)
(***************************************************************************)
EXTENDS Fulfilment, AfterSales

vars == <<order, payment, fulfilment, afterSales>>

Init == OrdersInit /\ FulfilmentInit /\ AfterSalesInit

Next ==
  \/ FulfilmentNext /\ UNCHANGED afterSales
  \/ AfterSalesNext /\ UNCHANGED fulfilment

Spec == Init /\ [][Next]_vars

-----------------------------------------------------------------------------
(* Properties *)

FulfilmentOK ==
  /\ shipment \in [Orders -> ShipmentStates]
  /\ assignment \in [Orders -> Seq(Assignment)]
  /\ staff \in SUBSET Staff
  /\ settlement \in [Orders -> Settlement]
  /\ \A r \in transfer : /\ r.reference \in Transfers
                         /\ r.order \in Orders /\ r.amount \in Remits

\* Every variable has its type.
TypeOK ==
  /\ OrdersOK
  /\ bill \in [Orders -> Bills]
  /\ FulfilmentOK
  /\ \A r \in DOMAIN request : /\ request[r].order \in Claimed
                               /\ request[r].quantity \in Asks
                               /\ request[r].status \in RequestStates
  /\ \A p \in operation : /\ p.request \in DOMAIN request
                          /\ p.order \in Claimed
                          /\ p.units \subseteq Units(bill[p.order])
                          /\ p.amount \in Nat

\* A courier on the way: only to a pending order that is packed and may be
\* delivered, and nobody else has it.  The courier's updates check none of this
\* (delivery-assignment.service.ts transition); they rely on what packing,
\* cancellation, refunds and assignment leave alone.
CourierExpected ==
  \A o \in Orders : Active(o) # {} =>
    /\ Cardinality(Active(o)) = 1
    /\ order[o] = "PENDING" /\ shipment[o] = "READY_TO_SHIP" /\ Payable(o)

\* No employee is on two orders whose schedules overlap, however assignments,
\* reassignments, outcomes and cancellations of different orders interleave.
SchedulesApart ==
  \A o, p \in Orders : \A k \in Active(o), l \in Active(p) :
    /\ o # p
    /\ assignment[o][k].staff = assignment[p][l].staff
    => ~Overlap(assignment[o][k].slot, assignment[p][l].slot)

Handed(o) ==
  {k \in DOMAIN assignment[o] : assignment[o][k].status = "DELIVERED"}

\* Delivery, completion and money are one event: an order is done exactly when
\* one of its assignments was delivered; then its payment has been received and
\* the cash it was due is in the books, once.  A settlement is MATCHED exactly
\* when the cash was collected and all of it handed in, in whichever order the
\* two were recorded.
DeliveredSettled ==
  \A o \in Orders : LET s == settlement[o] IN
    /\ order[o] = "DONE" <=> Handed(o) # {}
    /\ Cardinality(Handed(o)) <= 1
    /\ order[o] = "DONE" => payment[o].status # "pending"
    /\ s.collected = IF order[o] = "DONE" THEN Due(o) ELSE 0
    /\ s.status = "MATCHED" => s.collected = Due(o) /\ s.remitted = Due(o)
    /\ s.collected = Due(o) /\ s.remitted = Due(o) /\ Due(o) > 0
         => s.status = "MATCHED"

\* An order paid through PayOS is never cancelled: cancellation waits for its
\* money to go back, and a refund needs a claim, which needs a delivered order.
PrepaidKept == \A o \in Orders \ Cash : order[o] # "CANCELED"

\* A unit is refunded once, a claim is refunded once, and a transfer pays for one
\* refund, whatever administrators record at the same time and however claims on
\* the same units follow each other.
RefundedOnce ==
  \A p, q \in operation : p # q =>
    /\ p.request # q.request
    /\ p.key # q.key /\ p.reference # q.reference
    /\ p.order = q.order => p.units \cap q.units = {}

\* The payment's refunded amount is the sum of the recorded transfers, never
\* more than the merchandise cost the customer: the delivery fee stays.
RefundsAccounted ==
  \A o \in Orders :
    /\ payment[o].refunded = SumOf([p \in Refunds(o) |-> p.amount], Refunds(o))
    /\ payment[o].refunded <= Subtotal(bill[o], Units(bill[o])) - bill[o].discount

\* The allocation against what it should be: the units' net values add up to
\* what the customer paid for the merchandise, none is negative or more than its
\* price, and each discount is within a dong of its proportional share.
AllocationFair ==
  \A o \in Orders :
    LET U == Units(bill[o])
        sub == Subtotal(bill[o], U)
        paid == sub - bill[o].discount
        net == Nets(bill[o])
    IN  /\ SumOf(net, U) = paid
        /\ \A u \in U :
             /\ net[u] \in 0 .. Gross(bill[o], u)
             /\ net[u] * sub - Gross(bill[o], u) * paid \in -sub .. sub

-----------------------------------------------------------------------------
(* The delivery seen from outside *)

Phase(o) ==
  IF order[o] = "CANCELED" THEN "CANCELED"
  ELSE IF assignment[o] = <<>> THEN "UNASSIGNED"
  ELSE assignment[o][Len(assignment[o])].status

Abstract == INSTANCE Delivery WITH phase <- [o \in Orders |-> Phase(o)]

\* Fulfilment and after-sales care together implement the delivery protocol:
\* assignments, outcomes and cancellation of an order follow each other as the
\* design says, and nothing else touches them.
DeliveryProtocol == Abstract!Spec
=============================================================================
