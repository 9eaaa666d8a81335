----------------------------- MODULE Fulfilment -----------------------------
(***************************************************************************)
(* Packing, the assignment of couriers, delivery, cancellation and cash on *)
(* delivery.  Every transaction locks the order before anything else, then *)
(* the employee, so each is one action.  A courier's update looks its      *)
(* order up before it locks it and reads the payment in that snapshot, but *)
(* a pending order's payment only goes from pending to paid, and both let  *)
(* a cash order be delivered: the snapshot's age makes no difference here. *)
(*                                                                         *)
(* The administrator's own "mark as done" asks for a delivered assignment, *)
(* and recording one completes the order in the same transaction, so it    *)
(* never has anything to do.  The internal carrier's fee is 0.             *)
(***************************************************************************)
EXTENDS Orders, Sequences

CONSTANTS
  Staff,        \* delivery employees
  Slots,        \* schedules, <<start, end>>
  MaxAttempts,  \* bound: assignments of an order
  Remits,       \* bound: amounts a courier hands in
  Transfers     \* bound: references of the transfers they are handed in by

ASSUME FulfilmentAssumption ==
  /\ Slots \subseteq Nat \X Nat
  /\ MaxAttempts \in Nat
  /\ Remits \subseteq Nat

VARIABLES
  shipment,    \* shipments.state
  assignment,  \* delivery_assignments of an order, oldest first
  staff,       \* employees whose account is active and of the right role
  settlement,  \* cod_settlements
  transfer     \* cod_settlement_events with a transfer_reference

fulfilment == <<shipment, assignment, staff, settlement, transfer>>

-----------------------------------------------------------------------------
(* Values *)

Packing == <<"UNFULFILLED", "CONFIRMED", "PICKING", "PACKED", "READY_TO_SHIP">>
ShipmentStates == {Packing[i] : i \in 1..5} \cup {"CANCELED"}

Underway == {"ASSIGNED", "OUT_FOR_DELIVERY"}
AssignmentStates ==
  Underway \cup {"DELIVERED", "DELIVERY_FAILED", "REASSIGNED"}
Assignment == [staff: Staff, slot: Slots, status: AssignmentStates]

Settlement == [collected: Nat, remitted: Nat,
               status: {"PENDING", "MATCHED", "MISMATCH"}]

\* expected_cod_vnd.
Due(o) == IF o \in Cash THEN Amount[o] ELSE 0

FulfilmentInit ==
  /\ shipment = [o \in Orders |-> "UNFULFILLED"]
  /\ assignment = [o \in Orders |-> <<>>]
  /\ staff = Staff
  /\ settlement = [o \in Orders |->
                     [collected |-> 0, remitted |-> 0, status |-> "PENDING"]]
  /\ transfer = {}

-----------------------------------------------------------------------------
(* Packing and assignment *)

Active(o) == {k \in DOMAIN assignment[o] : assignment[o][k].status \in Underway}

Pack(o) ==
  /\ order[o] = "PENDING"
  /\ \E i \in 1..4 :
       /\ shipment[o] = Packing[i]
       /\ shipment' = [shipment EXCEPT ![o] = Packing[i + 1]]
  /\ UNCHANGED <<order, payment, assignment, staff, settlement, transfer>>

\* assertEligiblePayment.
Payable(o) ==
  payment[o].status \in IF o \in Cash THEN {"pending", "paid"} ELSE {"paid"}

Overlap(s, t) == s[1] < t[2] /\ t[1] < s[2]

\* Mutant of Replaced: the one it replaces stays assigned.
KeptAssigned(o) == assignment[o]

\* The new assignment replaces one that has not left the store.
Replaced(o) ==
  [k \in DOMAIN assignment[o] |->
     IF k \in Active(o) THEN [assignment[o][k] EXCEPT !.status = "REASSIGNED"]
     ELSE assignment[o][k]]

\* Mutant of Conflict: a schedule conflicts only with the same schedule.
SameSlot(o, s, slot) ==
  \E p \in Orders \ {o} : \E k \in Active(p) :
    /\ assignment[p][k].staff = s
    /\ assignment[p][k].slot = slot

\* findScheduleConflict, over every order, once the old one is replaced.
Conflict(o, s, slot) ==
  \E p \in Orders \ {o} : \E k \in Active(p) :
    /\ assignment[p][k].staff = s
    /\ Overlap(assignment[p][k].slot, slot)

Assign(o, s, slot) ==
  /\ Len(assignment[o]) < MaxAttempts
  /\ order[o] = "PENDING"
  /\ shipment[o] = "READY_TO_SHIP"
  /\ Payable(o)
  /\ s \in staff
  /\ Cardinality(Active(o)) <= 1
  /\ \A k \in Active(o) : assignment[o][k].status = "ASSIGNED"
  /\ ~Conflict(o, s, slot)
  /\ assignment' = [assignment EXCEPT ![o] = Append(Replaced(o),
       [staff |-> s, slot |-> slot, status |-> "ASSIGNED"])]
  /\ UNCHANGED <<order, payment, shipment, staff, settlement, transfer>>

\* An administrator suspends an employee, or lets them work again.
SetStaff(s) ==
  /\ staff' = IF s \in staff THEN staff \ {s} ELSE staff \cup {s}
  /\ UNCHANGED <<order, payment, shipment, assignment, settlement, transfer>>

-----------------------------------------------------------------------------
(* The courier's updates *)

Marked(o, k, st) == [assignment EXCEPT ![o][k].status = st]

\* transition: the courier's own assignment, while their account is active.
\* It looks neither at the order nor at the shipment.
SetOut(o) ==
  /\ \E k \in Active(o) :
       /\ assignment[o][k].staff \in staff
       /\ assignment[o][k].status = "ASSIGNED"
       /\ assignment' = Marked(o, k, "OUT_FOR_DELIVERY")
  /\ UNCHANGED <<order, payment, shipment, staff, settlement, transfer>>

Carried(o) ==
  {k \in Active(o) : /\ assignment[o][k].status = "OUT_FOR_DELIVERY"
                     /\ assignment[o][k].staff \in staff}

FailDelivery(o) ==
  /\ \E k \in Carried(o) : assignment' = Marked(o, k, "DELIVERY_FAILED")
  /\ UNCHANGED <<order, payment, shipment, staff, settlement, transfer>>

\* What recordCollection and recordRemittance make of the amounts.
Judged(c, r, due) ==
  IF c = due /\ r = c THEN "MATCHED" ELSE "MISMATCH"

\* Mutant of Collected: what was handed in early is not compared.
CollectedBlind(o, s) ==
  IF s.collected = Due(o) THEN s
  ELSE [s EXCEPT !.collected = Due(o), !.status = "PENDING"]

\* recordCollection: once, and nothing for a prepaid order.
Collected(o, s) ==
  IF s.collected = Due(o) THEN s
  ELSE [s EXCEPT !.collected = Due(o),
          !.status = IF s.remitted = 0 THEN "PENDING"
                     ELSE Judged(Due(o), s.remitted, Due(o))]

\* completeDeliveredOrder marks pending cash as paid.
Settled(p) == [p EXCEPT !.status = IF @ = "pending" THEN "paid" ELSE @]

Deliver(o) ==
  /\ order[o] = "PENDING" /\ Payable(o) /\ shipment[o] = "READY_TO_SHIP"
  /\ \E k \in Carried(o) : assignment' = Marked(o, k, "DELIVERED")
  /\ order' = [order EXCEPT ![o] = "DONE"]
  /\ payment' = [payment EXCEPT ![o] = Settled(@)]
  /\ settlement' = [settlement EXCEPT ![o] = Collected(o, @)]
  /\ UNCHANGED <<shipment, staff, transfer>>

-----------------------------------------------------------------------------
(* Cancellation and cash *)

\* Mutant of Cancellable: the assignment is not looked at.
PendingUnpaid(o) ==
  /\ order[o] = "PENDING"
  /\ o \notin Cash => payment[o].status \notin {"paid", "partially_refunded"}

\* cancelInTransaction.  PayOS money must have gone back first; a courier must
\* not have the order.  The states that mean a parcel on its way back belong to
\* the retired carrier: an internal shipment never has them.
Cancellable(o) ==
  /\ order[o] = "PENDING"
  /\ o \notin Cash => payment[o].status \notin {"paid", "partially_refunded"}
  /\ Active(o) = {}

CancelOrder(o) ==
  /\ Cancellable(o)
  /\ order' = [order EXCEPT ![o] = "CANCELED"]
  /\ shipment' = [shipment EXCEPT ![o] = "CANCELED"]
  /\ UNCHANGED <<payment, assignment, staff, settlement, transfer>>

\* An administrator confirms that the cash has come in, whatever the order's state.
ConfirmCod(o) ==
  /\ o \in Cash
  /\ payment[o].status \in {"pending", "paid"}
  /\ payment' = [payment EXCEPT ![o].status = "paid"]
  /\ UNCHANGED <<order, fulfilment>>

\* insertRemittance; a transfer's reference is used once.
Remit(o, x, t) ==
  /\ \A r \in transfer : r.reference # t
  /\ transfer' = transfer \cup {[reference |-> t, order |-> o, amount |-> x]}
  /\ LET s == settlement[o] IN settlement' = [settlement EXCEPT ![o] =
       [s EXCEPT !.remitted = @ + x,
                 !.status = Judged(s.collected, s.remitted + x, Due(o))]]
  /\ UNCHANGED <<order, payment, shipment, assignment, staff>>

FulfilmentNext ==
  \/ \E o \in Orders :
       \/ Pack(o) \/ SetOut(o) \/ FailDelivery(o) \/ Deliver(o)
       \/ CancelOrder(o) \/ ConfirmCod(o)
       \/ \E s \in Staff, slot \in Slots : Assign(o, s, slot)
       \/ \E x \in Remits, t \in Transfers : Remit(o, x, t)
  \/ \E s \in Staff : SetStaff(s)
=============================================================================
