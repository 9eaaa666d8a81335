-------------------------- MODULE LifecycleProofs --------------------------
(***************************************************************************)
(* Theorems about OrderLifecycle, for any number of orders, employees,     *)
(* schedules, claims and refunds.                                          *)
(***************************************************************************)
EXTENDS OrderLifecycle, SumTheorems, FiniteSetTheorems, TLAPS

-----------------------------------------------------------------------------
(* The invariant *)

Last(o) == Len(assignment[o])

\* Only the latest assignment counts: the courier's updates look at no other
\* table, so what an order and its parcel may be while a courier has it is
\* whatever packing, cancellation and refunds leave alone.
Attended(o) ==
  /\ \A k \in Active(o) \cup Handed(o) : k = Last(o)
  /\ assignment[o] # <<>> => assignment[o][Last(o)].status # "REASSIGNED"
  /\ Active(o) # {} => order[o] = "PENDING" /\ shipment[o] = "READY_TO_SHIP"
  /\ order[o] = "DONE" <=> Handed(o) # {}

\* The payment of a pending order has no refunds, so it may be delivered, and
\* one that PayOS took cannot be cancelled.
Paying(o) ==
  /\ order[o] = "PENDING" => Payable(o)
  /\ order[o] = "DONE" => payment[o].status # "pending"
  /\ order[o] = "CANCELED" => o \in Cash

Booked(o) == LET s == settlement[o] IN
  /\ s.collected = IF order[o] = "DONE" THEN Due(o) ELSE 0
  /\ s.status = "MATCHED" => s.collected = Due(o) /\ s.remitted = Due(o)
  /\ s.collected = Due(o) /\ s.remitted = Due(o) /\ Due(o) > 0
       => s.status = "MATCHED"

Claim == [order : Claimed, quantity : Asks, status : RequestStates]

\* Claims, and so refunds, are about delivered orders.
ClaimsOK ==
  /\ request \in Seq(Claim)
  /\ \A r \in DOMAIN request : order[request[r].order] = "DONE"
  /\ refunding = [a \in Admins |-> refunding[a]]
  /\ \A a \in Admins : refunding[a] # Idle => refunding[a].request \in DOMAIN request

Entry(p) == p = [status |-> p.status, refunded |-> p.refunded]
PaymentsOK ==
  /\ payment = [o \in Orders |-> payment[o]]
  /\ \A o \in Orders : Entry(payment[o])

LifeInv ==
  /\ order \in [Orders -> OrderStates]
  /\ PaymentsOK
  /\ FulfilmentOK
  /\ ClaimsOK
  /\ \A o \in Orders : Attended(o) /\ Paying(o) /\ Booked(o)
  /\ SchedulesApart

LEMMA Constants ==
  /\ Cash \subseteq Orders /\ Claimed \subseteq Orders
  /\ Amount \in [Orders -> Nat \ {0}]
  /\ Remits \subseteq Nat /\ MaxAttempts \in Nat
BY OrderAssumption, FulfilmentAssumption, AfterSalesAssumption

LEMMA DueType == \A o \in Orders : Due(o) \in Nat /\ (o \in Cash <=> Due(o) # 0)
BY Constants DEF Due

LEMMA LifeInit == Init => LifeInv
<1> SUFFICES ASSUME Init PROVE LifeInv
  OBVIOUS
<1> USE DEF Init, OrdersInit, FulfilmentInit, AfterSalesInit
<1>1. order \in [Orders -> OrderStates] /\ PaymentsOK
  BY DEF OrderStates, PaymentsOK, Entry
<1>2. FulfilmentOK
  BY DEF FulfilmentOK, ShipmentStates, Packing, Settlement
<1>3. ClaimsOK
  BY DEF ClaimsOK
<1>4. \A o \in Orders : Active(o) = {} /\ Handed(o) = {}
  BY DEF Active, Handed
<1>5. ASSUME NEW o \in Orders PROVE Attended(o) /\ Paying(o) /\ Booked(o)
  <2>1. Attended(o)
    BY <1>4 DEF Attended
  <2>2. Paying(o)
    BY DEF Paying, Payable
  <2>3. Booked(o)
    BY DueType DEF Booked
  <2> QED
    BY <2>1, <2>2, <2>3
<1>6. SchedulesApart
  BY <1>4 DEF SchedulesApart
<1> QED
  BY <1>1, <1>2, <1>3, <1>5, <1>6 DEF LifeInv

-----------------------------------------------------------------------------
(* What the steps do to the assignments *)

\* An order a step leaves alone.
LEMMA Untouched ==
  ASSUME LifeInv, NEW p \in Orders,
         order'[p] = order[p], shipment'[p] = shipment[p],
         assignment'[p] = assignment[p], settlement'[p] = settlement[p],
         payment'[p].status = payment[p].status
  PROVE  Attended(p)' /\ Paying(p)' /\ Booked(p)'
<1>1. Attended(p)'
  BY DEF LifeInv, Attended, Active, Handed, Last
<1>2. Paying(p)'
  BY DEF LifeInv, Paying, Payable
<1>3. Booked(p)'
  BY DEF LifeInv, Booked, Due
<1> QED
  BY <1>1, <1>2, <1>3

\* No schedule is added.
LEMMA NoneAdded ==
  ASSUME SchedulesApart,
         \A p \in Orders : \A k \in Active(p)' :
           /\ k \in Active(p)
           /\ assignment'[p][k].staff = assignment[p][k].staff
           /\ assignment'[p][k].slot = assignment[p][k].slot
  PROVE  SchedulesApart'
BY DEF SchedulesApart

LEMMA Assignments ==
  ASSUME LifeInv, NEW o \in Orders
  PROVE  /\ assignment[o] \in Seq(Assignment)
         /\ DOMAIN assignment[o] = 1 .. Last(o)
         /\ Last(o) \in Nat
         /\ \A k \in 1 .. Last(o) : assignment[o][k] \in Assignment
         /\ Active(o) \cup Handed(o) \subseteq 1 .. Last(o)
<1>1. assignment[o] \in Seq(Assignment)
  BY DEF LifeInv, FulfilmentOK
<1>2. /\ DOMAIN assignment[o] = 1 .. Last(o)
      /\ Last(o) \in Nat
      /\ \A k \in 1 .. Last(o) : assignment[o][k] \in Assignment
  BY <1>1 DEF Last
<1> QED
  BY <1>1, <1>2 DEF Active, Handed

\* A courier's update moves the latest assignment on.
LEMMA MarkedFacts ==
  ASSUME LifeInv, NEW o \in Orders, NEW k \in Active(o), NEW st \in AssignmentStates,
         assignment' = Marked(o, k, st)
  PROVE  /\ assignment' \in [Orders -> Seq(Assignment)]
         /\ \A p \in Orders \ {o} : assignment'[p] = assignment[p]
         /\ k = Last(o) /\ Last(o)' = Last(o) /\ assignment'[o] # <<>>
         /\ assignment'[o][k].status = st
         /\ Active(o)' = IF st \in Underway THEN {k} ELSE {}
         /\ Handed(o)' = IF st = "DELIVERED" THEN {k} ELSE {}
         /\ order[o] = "PENDING" /\ shipment[o] = "READY_TO_SHIP"
         /\ assignment'[o][k].staff = assignment[o][k].staff
         /\ assignment'[o][k].slot = assignment[o][k].slot
<1>1. /\ k \in 1 .. Last(o) /\ assignment[o] \in Seq(Assignment) /\ Last(o) \in Nat
      /\ DOMAIN assignment[o] = 1 .. Last(o)
      /\ assignment[o][k] \in Assignment
  BY Assignments
<1>2. /\ k = Last(o) /\ order[o] = "PENDING" /\ shipment[o] = "READY_TO_SHIP"
      /\ \A j \in Active(o) : j = k
      /\ Handed(o) = {}
  BY DEF LifeInv, Attended
<1>3. /\ assignment \in [Orders -> Seq(Assignment)]
      /\ assignment' = [assignment EXCEPT ![o] =
                          [assignment[o] EXCEPT ![k] =
                             [assignment[o][k] EXCEPT !.status = st]]]
  BY DEF LifeInv, FulfilmentOK, Marked
<1>4. [assignment[o][k] EXCEPT !.status = st] \in Assignment
  BY <1>1 DEF Assignment
<1>5. [assignment[o] EXCEPT ![k] = [assignment[o][k] EXCEPT !.status = st]]
        \in Seq(Assignment)
  BY <1>1, <1>4
<1>6. /\ assignment' \in [Orders -> Seq(Assignment)]
      /\ \A p \in Orders \ {o} : assignment'[p] = assignment[p]
  BY <1>3, <1>5
<1>7. /\ assignment'[o] = [assignment[o] EXCEPT ![k] =
                             [assignment[o][k] EXCEPT !.status = st]]
  BY <1>3
<1>8. /\ DOMAIN assignment'[o] = 1 .. Last(o) /\ Len(assignment'[o]) = Last(o)
      /\ assignment'[o][k] = [assignment[o][k] EXCEPT !.status = st]
      /\ \A j \in 1 .. Last(o) : j # k => assignment'[o][j] = assignment[o][j]
  <2>1. DOMAIN assignment'[o] = 1 .. Last(o)
    BY <1>1, <1>7
  <2>2. Len(assignment'[o]) = Last(o)
    BY <1>1, <1>5, <1>7, <2>1
  <2> QED
    BY <1>1, <1>7, <2>1, <2>2
<1>9. /\ assignment'[o][k].status = st
      /\ assignment'[o][k].staff = assignment[o][k].staff
      /\ assignment'[o][k].slot = assignment[o][k].slot
  BY <1>1, <1>8 DEF Assignment
<1>10. \A j \in 1 .. Last(o) : j # k => /\ assignment'[o][j].status \notin Underway
                                        /\ assignment'[o][j].status # "DELIVERED"
  BY <1>1, <1>2, <1>8 DEF Active, Handed
<1>11. /\ Active(o)' = IF st \in Underway THEN {k} ELSE {}
       /\ Handed(o)' = IF st = "DELIVERED" THEN {k} ELSE {}
  <2>1. /\ Active(o)' = {j \in 1 .. Last(o) : assignment'[o][j].status \in Underway}
        /\ Handed(o)' = {j \in 1 .. Last(o) : assignment'[o][j].status = "DELIVERED"}
    BY <1>8 DEF Active, Handed
  <2>2. \A j \in 1 .. Last(o) :
          /\ assignment'[o][j].status \in Underway <=> j = k /\ st \in Underway
          /\ assignment'[o][j].status = "DELIVERED" <=> j = k /\ st = "DELIVERED"
    BY <1>9, <1>10
  <2>3. /\ Active(o)' = {j \in 1 .. Last(o) : j = k /\ st \in Underway}
        /\ Handed(o)' = {j \in 1 .. Last(o) : j = k /\ st = "DELIVERED"}
    BY <2>1, <2>2
  <2> QED
    BY <1>1, <2>3
<1>12. Last(o)' = Last(o) /\ assignment'[o] # <<>>
  BY <1>1, <1>8 DEF Last
<1> QED
  BY <1>2, <1>6, <1>9, <1>11, <1>12

\* An assignment takes the place of the one that had not left the store.
LEMMA AssignFacts ==
  ASSUME LifeInv, NEW o \in Orders, NEW s \in Staff, NEW slot \in Slots, Assign(o, s, slot)
  PROVE  /\ assignment' \in [Orders -> Seq(Assignment)]
         /\ \A p \in Orders \ {o} : assignment'[p] = assignment[p]
         /\ Last(o)' = Last(o) + 1 /\ assignment'[o] # <<>>
         /\ assignment'[o][Last(o) + 1] = [staff |-> s, slot |-> slot, status |-> "ASSIGNED"]
         /\ Active(o)' = {Last(o) + 1}
         /\ Handed(o) = {} /\ Handed(o)' = {}
<1> DEFINE new == [staff |-> s, slot |-> slot, status |-> "ASSIGNED"]
<1>1. /\ assignment[o] \in Seq(Assignment) /\ Last(o) \in Nat
      /\ DOMAIN assignment[o] = 1 .. Last(o)
      /\ \A k \in 1 .. Last(o) : assignment[o][k] \in Assignment
  BY Assignments
<1>2. assignment' = [assignment EXCEPT ![o] = Append(Replaced(o), new)]
  BY DEF Assign
<1>3. new \in Assignment
  BY DEF Assignment, AssignmentStates, Underway
<1>4. /\ Replaced(o) = [k \in 1 .. Last(o) |-> Replaced(o)[k]]
      /\ \A k \in 1 .. Last(o) :
           Replaced(o)[k] = IF k \in Active(o)
                            THEN [assignment[o][k] EXCEPT !.status = "REASSIGNED"]
                            ELSE assignment[o][k]
  BY <1>1 DEF Replaced
<1>5. \A k \in 1 .. Last(o) : Replaced(o)[k] \in Assignment
  BY <1>1, <1>4 DEF Assignment, AssignmentStates, Underway
<1>6. Replaced(o) \in Seq(Assignment) /\ Len(Replaced(o)) = Last(o)
  BY <1>1, <1>4, <1>5
<1>7. /\ Append(Replaced(o), new) \in Seq(Assignment)
      /\ Len(Append(Replaced(o), new)) = Last(o) + 1
      /\ Append(Replaced(o), new)[Last(o) + 1] = new
      /\ \A k \in 1 .. Last(o) : Append(Replaced(o), new)[k] = Replaced(o)[k]
  BY <1>3, <1>6
<1>8. assignment \in [Orders -> Seq(Assignment)]
  BY DEF LifeInv, FulfilmentOK
<1>9. assignment'[o] = Append(Replaced(o), new)
  BY <1>2, <1>8
<1> HIDE DEF new
<1>10. /\ assignment' \in [Orders -> Seq(Assignment)]
       /\ \A p \in Orders \ {o} : assignment'[p] = assignment[p]
  BY <1>2, <1>7, <1>8
<1>11. /\ Last(o)' = Last(o) + 1
       /\ DOMAIN assignment'[o] = 1 .. Last(o) + 1
       /\ assignment'[o] # <<>>
  <2>1. assignment'[o] \in Seq(Assignment) /\ Len(assignment'[o]) = Last(o) + 1
    BY <1>7, <1>9
  <2>2. DOMAIN assignment'[o] = 1 .. Last(o) + 1 /\ assignment'[o] # <<>>
    BY <1>1, <2>1
  <2> QED
    BY <2>1, <2>2 DEF Last
<1>12. /\ assignment'[o][Last(o) + 1] = new
       /\ \A k \in 1 .. Last(o) : assignment'[o][k] = Replaced(o)[k]
  BY <1>7, <1>9
<1>13. order[o] = "PENDING" /\ Handed(o) = {}
  BY DEF Assign, LifeInv, Attended
<1>14. ASSUME NEW k \in 1 .. Last(o)
       PROVE  /\ Replaced(o)[k].status \notin Underway
              /\ Replaced(o)[k].status # "DELIVERED"
  <2>1. CASE k \in Active(o)
    BY <1>1, <1>4, <2>1 DEF Assignment, Underway
  <2>2. CASE k \notin Active(o)
    BY <1>1, <1>4, <1>13, <2>2 DEF Active, Handed
  <2> QED
    BY <2>1, <2>2
<1>15. new.status = "ASSIGNED"
  BY DEF new
<1>16. \A k \in 1 .. Last(o) + 1 :
         /\ assignment'[o][k].status \in Underway <=> k = Last(o) + 1
         /\ assignment'[o][k].status # "DELIVERED"
  BY <1>1, <1>12, <1>14, <1>15 DEF Underway
<1>17. /\ Active(o)' = {k \in 1 .. Last(o) + 1 : k = Last(o) + 1}
       /\ Handed(o)' = {}
  BY <1>11, <1>16 DEF Active, Handed
<1>18. Active(o)' = {Last(o) + 1}
  BY <1>1, <1>17
<1> QED
  BY <1>10, <1>11, <1>12, <1>13, <1>17, <1>18 DEF new

-----------------------------------------------------------------------------
(* The steps of the fulfilment *)

LEMMA ClaimType ==
  ASSUME ClaimsOK, NEW r \in DOMAIN request
  PROVE  /\ request[r] \in Claim
         /\ request[r].order \in Claimed /\ request[r].order \in Orders
         /\ request[r].status \in RequestStates
<1>1. request \in Seq(Claim)
  BY DEF ClaimsOK
<1>2. request[r] \in Claim
  BY <1>1
<1> QED
  BY <1>2, Constants DEF Claim

\* What a step of the fulfilment leaves of the claims and the payments.
LEMMA ClaimsKept ==
  ASSUME ClaimsOK, UNCHANGED afterSales,
         \A o \in Orders : order[o] = "DONE" => order'[o] = "DONE"
  PROVE  ClaimsOK'
<1>1. request' = request /\ refunding' = refunding
  BY DEF afterSales
<1>2. \A r \in DOMAIN request : request[r].order \in Orders
  BY ClaimType
<1>3. (\A r \in DOMAIN request : order[request[r].order] = "DONE")'
  BY <1>1, <1>2 DEF ClaimsOK
<1>4. request' \in Seq(Claim)
  BY <1>1 DEF ClaimsOK
<1>5. (refunding = [a \in Admins |-> refunding[a]])'
  BY <1>1 DEF ClaimsOK
<1>6. (\A a \in Admins : refunding[a] # Idle => refunding[a].request \in DOMAIN request)'
  BY <1>1 DEF ClaimsOK
<1> QED
  BY <1>3, <1>4, <1>5, <1>6 DEF ClaimsOK

LEMMA PaymentsKept ==
  ASSUME PaymentsOK, UNCHANGED payment
  PROVE  PaymentsOK'
<1>1. (payment = [o \in Orders |-> payment[o]])'
  BY DEF PaymentsOK
<1>2. (\A o \in Orders : Entry(payment[o]))'
  BY DEF PaymentsOK, Entry
<1> QED
  BY <1>1, <1>2 DEF PaymentsOK

LEMMA StatusSet ==
  ASSUME PaymentsOK, NEW o \in Orders, NEW st,
         payment' = [payment EXCEPT ![o].status = st]
  PROVE  /\ PaymentsOK'
         /\ payment'[o].status = st
         /\ \A p \in Orders \ {o} : payment'[p] = payment[p]
<1>1. Entry(payment[o]) /\ payment = [p \in Orders |-> payment[p]]
  BY DEF PaymentsOK
<1>2. payment'[o] = [payment[o] EXCEPT !.status = st]
  BY <1>1
<1>3. payment'[o] = [status |-> st, refunded |-> payment[o].refunded]
  BY <1>1, <1>2 DEF Entry
<1>4. \A p \in Orders \ {o} : payment'[p] = payment[p]
  BY <1>1
<1>5. (payment = [p \in Orders |-> payment[p]])'
  BY <1>1
<1>6. (\A p \in Orders : Entry(payment[p]))'
  <2> TAKE p \in Orders
  <2>1. CASE p = o
    BY <1>3, <2>1 DEF Entry
  <2>2. CASE p # o
    BY <1>4, <2>2 DEF PaymentsOK, Entry
  <2> QED
    BY <2>1, <2>2
<1> QED
  BY <1>3, <1>4, <1>5, <1>6 DEF PaymentsOK

LEMMA PackStep ==
  ASSUME LifeInv, UNCHANGED afterSales, NEW o \in Orders, Pack(o)
  PROVE  LifeInv'
<1>1. /\ UNCHANGED <<order, payment, assignment, staff, settlement, transfer>>
      /\ order[o] = "PENDING"
  BY DEF Pack
<1>2. PICK i \in 1 .. 4 : /\ shipment[o] = Packing[i]
                          /\ shipment' = [shipment EXCEPT ![o] = Packing[i + 1]]
  BY DEF Pack
<1>3. Packing[i + 1] \in ShipmentStates /\ Packing[i] # "READY_TO_SHIP"
  BY <1>2 DEF Packing, ShipmentStates
<1>4. shipment \in [Orders -> ShipmentStates]
  BY DEF LifeInv, FulfilmentOK
<1>5. /\ shipment' \in [Orders -> ShipmentStates]
      /\ \A p \in Orders \ {o} : shipment'[p] = shipment[p]
  BY <1>2, <1>3, <1>4
<1>6. Active(o) = {}
  BY <1>2, <1>3 DEF LifeInv, Attended
<1>7. \A p \in Orders : Active(p)' = Active(p) /\ Handed(p)' = Handed(p) /\ Last(p)' = Last(p)
  BY <1>1 DEF Active, Handed, Last
<1>8. ASSUME NEW p \in Orders PROVE Attended(p)' /\ Paying(p)' /\ Booked(p)'
  <2>1. CASE p = o
    <3>1. Attended(p)'
      BY <1>1, <1>6, <1>7, <2>1 DEF LifeInv, Attended
    <3>2. Paying(p)' /\ Booked(p)'
      BY <1>1, <2>1 DEF LifeInv, Paying, Payable, Booked, Due
    <3> QED
      BY <3>1, <3>2
  <2>2. CASE p # o
    BY <1>1, <1>5, <2>2, Untouched
  <2> QED
    BY <2>1, <2>2
<1>9. SchedulesApart'
  BY <1>1, <1>7, NoneAdded DEF LifeInv
<1>10. FulfilmentOK' /\ PaymentsOK' /\ ClaimsOK' /\ (order \in [Orders -> OrderStates])'
  <2>1. PaymentsOK' /\ ClaimsOK'
    BY <1>1, PaymentsKept, ClaimsKept DEF LifeInv
  <2>2. FulfilmentOK' /\ (order \in [Orders -> OrderStates])'
    BY <1>1, <1>5 DEF LifeInv, FulfilmentOK
  <2> QED
    BY <2>1, <2>2
<1> QED
  BY <1>8, <1>9, <1>10 DEF LifeInv

\* SetOut and FailDelivery move nothing but the assignment.
LEMMA CourierStep ==
  ASSUME LifeInv, UNCHANGED afterSales, NEW o \in Orders, NEW k \in Active(o),
         NEW st \in {"OUT_FOR_DELIVERY", "DELIVERY_FAILED"},
         assignment' = Marked(o, k, st),
         UNCHANGED <<order, payment, shipment, staff, settlement, transfer>>
  PROVE  LifeInv'
<1>1. st \in AssignmentStates /\ st # "DELIVERED" /\ st # "REASSIGNED"
  BY DEF AssignmentStates, Underway
<1>2. /\ assignment' \in [Orders -> Seq(Assignment)]
      /\ \A p \in Orders \ {o} : assignment'[p] = assignment[p]
      /\ k = Last(o) /\ Last(o)' = Last(o) /\ assignment'[o] # <<>>
      /\ assignment'[o][k].status = st
      /\ Active(o)' = IF st \in Underway THEN {k} ELSE {}
      /\ Handed(o)' = {}
      /\ order[o] = "PENDING" /\ shipment[o] = "READY_TO_SHIP"
      /\ assignment'[o][k].staff = assignment[o][k].staff
      /\ assignment'[o][k].slot = assignment[o][k].slot
  BY <1>1, MarkedFacts
<1>3. ASSUME NEW p \in Orders PROVE Attended(p)' /\ Paying(p)' /\ Booked(p)'
  <2>1. CASE p = o
    <3>1. Attended(p)'
      BY <1>1, <1>2, <2>1 DEF Attended
    <3>2. Paying(p)' /\ Booked(p)'
      BY <2>1 DEF LifeInv, Paying, Payable, Booked, Due
    <3> QED
      BY <3>1, <3>2
  <2>2. CASE p # o
    BY <1>2, <2>2, Untouched
  <2> QED
    BY <2>1, <2>2
<1>4. ASSUME NEW p \in Orders, NEW j \in Active(p)'
      PROVE  /\ j \in Active(p)
             /\ assignment'[p][j].staff = assignment[p][j].staff
             /\ assignment'[p][j].slot = assignment[p][j].slot
  BY <1>2, <1>4 DEF Active
<1>5. SchedulesApart'
  BY <1>4, NoneAdded DEF LifeInv
<1>6. PaymentsOK' /\ ClaimsOK'
  BY PaymentsKept, ClaimsKept DEF LifeInv
<1>7. FulfilmentOK' /\ (order \in [Orders -> OrderStates])'
  BY <1>2 DEF LifeInv, FulfilmentOK
<1> QED
  BY <1>3, <1>5, <1>6, <1>7 DEF LifeInv

LEMMA CarriedActive ==
  ASSUME NEW o, NEW k \in Carried(o)
  PROVE  k \in Active(o) /\ assignment[o][k].status = "OUT_FOR_DELIVERY"
BY DEF Carried

LEMMA DeliverStep ==
  ASSUME LifeInv, UNCHANGED afterSales, NEW o \in Orders, Deliver(o)
  PROVE  LifeInv'
<1>1. PICK k \in Active(o) : assignment' = Marked(o, k, "DELIVERED")
  BY CarriedActive DEF Deliver
<1>2. "DELIVERED" \in AssignmentStates /\ "DELIVERED" \notin Underway
  BY DEF AssignmentStates, Underway
<1>3. /\ assignment' \in [Orders -> Seq(Assignment)]
      /\ \A p \in Orders \ {o} : assignment'[p] = assignment[p]
      /\ k = Last(o) /\ Last(o)' = Last(o) /\ assignment'[o] # <<>>
      /\ assignment'[o][k].status = "DELIVERED"
      /\ Active(o)' = {} /\ Handed(o)' = {k}
  BY <1>1, <1>2, MarkedFacts
<1>4. /\ order \in [Orders -> OrderStates] /\ PaymentsOK /\ FulfilmentOK /\ ClaimsOK
      /\ SchedulesApart
  BY DEF LifeInv
<1>5. /\ order' = [order EXCEPT ![o] = "DONE"] /\ order[o] = "PENDING" /\ Payable(o)
      /\ payment' = [payment EXCEPT ![o] = Settled(@)]
      /\ settlement' = [settlement EXCEPT ![o] = Collected(o, @)]
      /\ shipment' = shipment /\ staff' = staff /\ transfer' = transfer
  BY DEF Deliver
<1>6. /\ order' \in [Orders -> OrderStates] /\ order'[o] = "DONE"
      /\ \A p \in Orders \ {o} : order'[p] = order[p]
  BY <1>4, <1>5 DEF OrderStates
<1>7. /\ PaymentsOK' /\ \A p \in Orders \ {o} : payment'[p] = payment[p]
      /\ payment'[o].status # "pending"
  <2> DEFINE st == IF payment[o].status = "pending" THEN "paid" ELSE payment[o].status
  <2>1. payment' = [payment EXCEPT ![o].status = st]
    BY <1>5 DEF Settled
  <2>2. st # "pending"
    OBVIOUS
  <2> HIDE DEF st
  <2> QED
    BY <1>4, <2>1, <2>2, StatusSet
<1>8. settlement \in [Orders -> Settlement]
  BY <1>4 DEF FulfilmentOK
<1>9. /\ settlement[o] \in Settlement /\ Due(o) \in Nat /\ Booked(o)
      /\ settlement[o].collected = 0
  BY <1>5, <1>8, DueType DEF LifeInv, Booked
<1>10. Collected(o, settlement[o]) \in Settlement
  BY <1>9 DEF Collected, Judged, Settlement
<1>11. /\ settlement' \in [Orders -> Settlement]
       /\ settlement'[o] = Collected(o, settlement[o])
       /\ \A p \in Orders \ {o} : settlement'[p] = settlement[p]
  BY <1>5, <1>8, <1>10
<1>12. LET s == Collected(o, settlement[o]) IN
         /\ s.collected = Due(o)
         /\ s.status = "MATCHED" => s.remitted = Due(o)
         /\ s.remitted = Due(o) /\ Due(o) > 0 => s.status = "MATCHED"
  <2>1. CASE Due(o) = 0
    BY <1>9, <2>1 DEF Collected, Booked
  <2>2. CASE Due(o) # 0
    BY <1>9, <2>2 DEF Collected, Judged, Settlement
  <2> QED
    BY <2>1, <2>2
<1>13. ASSUME NEW p \in Orders PROVE Attended(p)' /\ Paying(p)' /\ Booked(p)'
  <2>1. CASE p = o
    <3>1. Attended(p)'
      BY <1>3, <1>6, <2>1 DEF Attended
    <3>2. Paying(p)'
      BY <1>6, <1>7, <2>1 DEF Paying
    <3>3. Due(o)' = Due(o)
      BY DEF Due
    <3>4. Booked(p)'
      BY <1>6, <1>11, <1>12, <2>1, <3>3 DEF Booked
    <3> QED
      BY <3>1, <3>2, <3>4
  <2>2. CASE p # o
    BY <1>3, <1>5, <1>6, <1>7, <1>11, <2>2, Untouched
  <2> QED
    BY <2>1, <2>2
<1>14. ASSUME NEW p \in Orders, NEW j \in Active(p)'
       PROVE  /\ j \in Active(p)
              /\ assignment'[p][j].staff = assignment[p][j].staff
              /\ assignment'[p][j].slot = assignment[p][j].slot
  BY <1>3, <1>14 DEF Active
<1>15. SchedulesApart'
  BY <1>4, <1>14, NoneAdded
<1>16. ClaimsOK'
  BY <1>4, <1>6, ClaimsKept
<1>17. FulfilmentOK'
  BY <1>3, <1>4, <1>5, <1>11 DEF FulfilmentOK
<1> QED
  BY <1>6, <1>7, <1>13, <1>15, <1>16, <1>17 DEF LifeInv

\* A new assignment: whoever it goes to is free in its window.
LEMMA AssignStep ==
  ASSUME LifeInv, UNCHANGED afterSales,
         NEW o \in Orders, NEW s \in Staff, NEW slot \in Slots, Assign(o, s, slot)
  PROVE  LifeInv'
<1>1. /\ assignment' \in [Orders -> Seq(Assignment)]
      /\ \A p \in Orders \ {o} : assignment'[p] = assignment[p]
      /\ Last(o)' = Last(o) + 1 /\ assignment'[o] # <<>>
      /\ assignment'[o][Last(o) + 1] = [staff |-> s, slot |-> slot, status |-> "ASSIGNED"]
      /\ Active(o)' = {Last(o) + 1}
      /\ Handed(o) = {} /\ Handed(o)' = {}
  BY AssignFacts
<1>2. /\ order[o] = "PENDING" /\ shipment[o] = "READY_TO_SHIP" /\ ~Conflict(o, s, slot)
      /\ UNCHANGED <<order, payment, shipment, staff, settlement, transfer>>
  BY DEF Assign
<1>3. ASSUME NEW p \in Orders PROVE Attended(p)' /\ Paying(p)' /\ Booked(p)'
  <2>1. CASE p = o
    <3>1. Attended(p)'
      BY <1>1, <1>2, <2>1 DEF Attended
    <3>2. Paying(p)' /\ Booked(p)'
      BY <1>2, <2>1 DEF LifeInv, Paying, Payable, Booked, Due
    <3> QED
      BY <3>1, <3>2
  <2>2. CASE p # o
    BY <1>1, <1>2, <2>2, Untouched
  <2> QED
    BY <2>1, <2>2
<1>4. SchedulesApart'
  <2>1. SUFFICES ASSUME NEW p \in Orders, NEW q \in Orders,
                        NEW k \in Active(p)', NEW l \in Active(q)', p # q,
                        assignment'[p][k].staff = assignment'[q][l].staff
                 PROVE  ~Overlap(assignment'[p][k].slot, assignment'[q][l].slot)
    BY DEF SchedulesApart
  <2>2. \A x \in Orders \ {o} : Active(x)' = Active(x)
    BY <1>1 DEF Active
  <2>3. \A x \in Orders \ {o} : \A j \in Active(x) :
          assignment[x][j].staff = s => ~Overlap(assignment[x][j].slot, slot)
    BY <1>2 DEF Conflict
  <2>4. CASE p = o
    BY <1>1, <2>1, <2>2, <2>3, <2>4 DEF Overlap
  <2>5. CASE q = o
    BY <1>1, <2>1, <2>2, <2>3, <2>5 DEF Overlap
  <2>6. CASE p # o /\ q # o
    BY <1>1, <2>1, <2>2, <2>6 DEF LifeInv, SchedulesApart
  <2> QED
    BY <2>4, <2>5, <2>6
<1>5. PaymentsOK' /\ ClaimsOK'
  BY <1>2, PaymentsKept, ClaimsKept DEF LifeInv
<1>6. FulfilmentOK' /\ (order \in [Orders -> OrderStates])'
  BY <1>1, <1>2 DEF LifeInv, FulfilmentOK
<1> QED
  BY <1>3, <1>4, <1>5, <1>6 DEF LifeInv

LEMMA CancelStep ==
  ASSUME LifeInv, UNCHANGED afterSales, NEW o \in Orders, CancelOrder(o)
  PROVE  LifeInv'
<1>1. /\ order[o] = "PENDING" /\ Active(o) = {}
      /\ o \notin Cash => payment[o].status \notin {"paid", "partially_refunded"}
      /\ order' = [order EXCEPT ![o] = "CANCELED"]
      /\ shipment' = [shipment EXCEPT ![o] = "CANCELED"]
      /\ UNCHANGED <<payment, assignment, staff, settlement, transfer>>
  BY DEF CancelOrder, Cancellable
<1>2. order \in [Orders -> OrderStates] /\ shipment \in [Orders -> ShipmentStates]
  BY DEF LifeInv, FulfilmentOK
<1>3. /\ order' \in [Orders -> OrderStates] /\ order'[o] = "CANCELED"
      /\ shipment' \in [Orders -> ShipmentStates]
      /\ \A p \in Orders \ {o} : order'[p] = order[p] /\ shipment'[p] = shipment[p]
  BY <1>1, <1>2 DEF OrderStates, ShipmentStates
<1>4. \A p \in Orders : Active(p)' = Active(p) /\ Handed(p)' = Handed(p) /\ Last(p)' = Last(p)
  BY <1>1 DEF Active, Handed, Last
<1>5. o \in Cash
  BY <1>1 DEF LifeInv, Paying, Payable
<1>6. ASSUME NEW p \in Orders PROVE Attended(p)' /\ Paying(p)' /\ Booked(p)'
  <2>1. CASE p = o
    <3>1. Attended(p)'
      BY <1>1, <1>3, <1>4, <2>1 DEF LifeInv, Attended
    <3>2. Paying(p)'
      BY <1>3, <1>5, <2>1 DEF Paying
    <3>3. Booked(p)'
      BY <1>1, <1>3, <2>1 DEF LifeInv, Booked, Due
    <3> QED
      BY <3>1, <3>2, <3>3
  <2>2. CASE p # o
    BY <1>1, <1>3, <2>2, Untouched
  <2> QED
    BY <2>1, <2>2
<1>7. SchedulesApart'
  BY <1>1, <1>4, NoneAdded DEF LifeInv
<1>8. PaymentsOK' /\ ClaimsOK'
  BY <1>1, <1>3, PaymentsKept, ClaimsKept DEF LifeInv
<1>9. FulfilmentOK'
  BY <1>1, <1>3 DEF LifeInv, FulfilmentOK
<1> QED
  BY <1>3, <1>6, <1>7, <1>8, <1>9 DEF LifeInv

LEMMA ConfirmCodStep ==
  ASSUME LifeInv, UNCHANGED afterSales, NEW o \in Orders, ConfirmCod(o)
  PROVE  LifeInv'
<1>1. /\ o \in Cash /\ payment' = [payment EXCEPT ![o].status = "paid"]
      /\ UNCHANGED <<order, shipment, assignment, staff, settlement, transfer>>
  BY DEF ConfirmCod, fulfilment
<1>2. /\ PaymentsOK' /\ payment'[o].status = "paid"
      /\ \A p \in Orders \ {o} : payment'[p] = payment[p]
  BY <1>1, StatusSet DEF LifeInv
<1>3. \A p \in Orders : Active(p)' = Active(p) /\ Handed(p)' = Handed(p) /\ Last(p)' = Last(p)
  BY <1>1 DEF Active, Handed, Last
<1>4. ASSUME NEW p \in Orders PROVE Attended(p)' /\ Paying(p)' /\ Booked(p)'
  <2>1. CASE p = o
    <3>1. Attended(p)'
      BY <1>1, <1>3, <2>1 DEF LifeInv, Attended
    <3>2. Paying(p)'
      BY <1>1, <1>2, <2>1 DEF LifeInv, Paying, Payable
    <3>3. Booked(p)'
      BY <1>1, <2>1 DEF LifeInv, Booked, Due
    <3> QED
      BY <3>1, <3>2, <3>3
  <2>2. CASE p # o
    BY <1>1, <1>2, <2>2, Untouched
  <2> QED
    BY <2>1, <2>2
<1>5. SchedulesApart'
  BY <1>1, <1>3, NoneAdded DEF LifeInv
<1>6. ClaimsOK' /\ FulfilmentOK' /\ (order \in [Orders -> OrderStates])'
  BY <1>1, ClaimsKept DEF LifeInv, FulfilmentOK
<1> QED
  BY <1>2, <1>4, <1>5, <1>6 DEF LifeInv

LEMMA RemitStep ==
  ASSUME LifeInv, UNCHANGED afterSales,
         NEW o \in Orders, NEW x \in Remits, NEW t \in Transfers, Remit(o, x, t)
  PROVE  LifeInv'
<1> DEFINE s == settlement[o]
           s1 == [s EXCEPT !.remitted = s.remitted + x,
                           !.status = Judged(s.collected, s.remitted + x, Due(o))]
<1>1. /\ UNCHANGED <<order, payment, shipment, assignment, staff>>
      /\ transfer' = transfer \cup {[reference |-> t, order |-> o, amount |-> x]}
      /\ settlement' = [settlement EXCEPT ![o] = s1]
  BY DEF Remit
<1>2. settlement \in [Orders -> Settlement] /\ FulfilmentOK
  BY DEF LifeInv, FulfilmentOK
<1>3. s \in Settlement /\ x \in Nat /\ Due(o) \in Nat /\ Booked(o)
  BY <1>2, DueType, Constants DEF LifeInv
<1>4. s1 \in Settlement
  <2>1. Judged(s.collected, s.remitted + x, Due(o)) \in {"PENDING", "MATCHED", "MISMATCH"}
    BY DEF Judged
  <2>2. s.remitted + x \in Nat
    BY <1>3 DEF Settlement
  <2> QED
    BY <1>3, <2>1, <2>2 DEF Settlement
<1>5. /\ s1.collected = s.collected
      /\ s1.status = "MATCHED" <=> s1.collected = Due(o) /\ s1.remitted = Due(o)
  BY <1>3 DEF Judged, Settlement
<1>6. /\ settlement' \in [Orders -> Settlement] /\ settlement'[o] = s1
      /\ \A p \in Orders \ {o} : settlement'[p] = settlement[p]
  BY <1>1, <1>2, <1>4
<1> HIDE DEF s1
<1>7. \A p \in Orders : Active(p)' = Active(p) /\ Handed(p)' = Handed(p) /\ Last(p)' = Last(p)
  BY <1>1 DEF Active, Handed, Last
<1>8. ASSUME NEW p \in Orders PROVE Attended(p)' /\ Paying(p)' /\ Booked(p)'
  <2>1. CASE p = o
    <3>1. Attended(p)'
      BY <1>1, <1>7, <2>1 DEF LifeInv, Attended
    <3>2. Paying(p)'
      BY <1>1, <2>1 DEF LifeInv, Paying, Payable
    <3>3. Due(o)' = Due(o)
      BY DEF Due
    <3>4. Booked(p)'
      BY <1>1, <1>3, <1>5, <1>6, <2>1, <3>3 DEF Booked
    <3> QED
      BY <3>1, <3>2, <3>4
  <2>2. CASE p # o
    BY <1>1, <1>6, <2>2, Untouched
  <2> QED
    BY <2>1, <2>2
<1>9. SchedulesApart'
  BY <1>1, <1>7, NoneAdded DEF LifeInv
<1>10. PaymentsOK' /\ ClaimsOK'
  BY <1>1, PaymentsKept, ClaimsKept DEF LifeInv
<1>11. FulfilmentOK' /\ (order \in [Orders -> OrderStates])'
  <2>1. \A r \in transfer' : /\ r.reference \in Transfers
                             /\ r.order \in Orders /\ r.amount \in Remits
    BY <1>1, <1>2 DEF FulfilmentOK
  <2> QED
    BY <1>1, <1>2, <1>6, <2>1 DEF LifeInv, FulfilmentOK
<1> QED
  BY <1>8, <1>9, <1>10, <1>11 DEF LifeInv

LEMMA StaffStep ==
  ASSUME LifeInv, UNCHANGED afterSales, NEW s \in Staff, SetStaff(s)
  PROVE  LifeInv'
<1>1. /\ UNCHANGED <<order, payment, shipment, assignment, settlement, transfer>>
      /\ staff' \in SUBSET Staff
  BY DEF SetStaff, LifeInv, FulfilmentOK
<1>2. \A p \in Orders : Active(p)' = Active(p)
  BY <1>1 DEF Active
<1>3. SchedulesApart'
  BY <1>1, <1>2, NoneAdded DEF LifeInv
<1>4. PaymentsOK' /\ ClaimsOK'
  BY <1>1, PaymentsKept, ClaimsKept DEF LifeInv
<1>5. FulfilmentOK' /\ (order \in [Orders -> OrderStates])'
  BY <1>1 DEF LifeInv, FulfilmentOK
<1>6. \A p \in Orders : Attended(p)' /\ Paying(p)' /\ Booked(p)'
  BY <1>1, Untouched
<1> QED
  BY <1>3, <1>4, <1>5, <1>6 DEF LifeInv

-----------------------------------------------------------------------------
(* The steps of the after-sales care *)

\* They leave the order and its delivery alone, and pay back only what was paid.
LEMMA CareKeeps ==
  ASSUME LifeInv, UNCHANGED order, UNCHANGED fulfilment, PaymentsOK', ClaimsOK',
         \A p \in Orders : \/ payment'[p].status = payment[p].status
                           \/ order[p] = "DONE" /\ payment'[p].status # "pending"
  PROVE  LifeInv'
<1>1. UNCHANGED <<shipment, assignment, staff, settlement, transfer>>
  BY DEF fulfilment
<1>2. \A p \in Orders : Active(p)' = Active(p) /\ Handed(p)' = Handed(p) /\ Last(p)' = Last(p)
  BY <1>1 DEF Active, Handed, Last
<1>3. SchedulesApart'
  BY <1>1, <1>2, NoneAdded DEF LifeInv
<1>4. FulfilmentOK' /\ (order \in [Orders -> OrderStates])'
  BY <1>1 DEF LifeInv, FulfilmentOK
<1>5. ASSUME NEW p \in Orders PROVE Attended(p)' /\ Paying(p)' /\ Booked(p)'
  <2>1. CASE payment'[p].status = payment[p].status
    BY <1>1, <2>1, Untouched
  <2>2. CASE order[p] = "DONE" /\ payment'[p].status # "pending"
    <3>1. Attended(p)'
      BY <1>1, <1>2 DEF LifeInv, Attended
    <3>2. Paying(p)'
      BY <2>2 DEF Paying
    <3>3. Booked(p)'
      BY <1>1 DEF LifeInv, Booked, Due
    <3> QED
      BY <3>1, <3>2, <3>3
  <2> QED
    BY <2>1, <2>2
<1> QED
  BY <1>3, <1>4, <1>5 DEF LifeInv

LEMMA CreateStep ==
  ASSUME LifeInv, UNCHANGED fulfilment,
         NEW o \in Claimed, NEW quantity \in Asks, CreateRequest(o, quantity)
  PROVE  LifeInv'
<1> DEFINE new == [order |-> o, quantity |-> quantity, status |-> "REQUESTED"]
<1>1. /\ order[o] = "DONE" /\ request' = Append(request, new)
      /\ UNCHANGED <<order, payment, bill, operation, refunding>>
  BY DEF CreateRequest, Eligible
<1>2. new \in Claim
  BY DEF Claim, RequestStates
<1>3. request \in Seq(Claim) /\ ClaimsOK
  BY DEF LifeInv, ClaimsOK
<1>4. /\ request' \in Seq(Claim)
      /\ DOMAIN request' = DOMAIN request \cup {Len(request) + 1}
      /\ \A r \in DOMAIN request : request'[r] = request[r]
      /\ request'[Len(request) + 1] = new
  BY <1>1, <1>2, <1>3
<1>5. (\A r \in DOMAIN request : order[request[r].order] = "DONE")'
  <2> SUFFICES ASSUME NEW r \in DOMAIN request' PROVE order'[request'[r].order] = "DONE"
    OBVIOUS
  <2>1. CASE r \in DOMAIN request
    BY <1>1, <1>3, <1>4, <2>1 DEF ClaimsOK
  <2>2. CASE r = Len(request) + 1
    BY <1>1, <1>4, <2>2
  <2> QED
    BY <1>4, <2>1, <2>2
<1>6. (refunding = [a \in Admins |-> refunding[a]])'
  BY <1>1, <1>3 DEF ClaimsOK
<1>7. (\A a \in Admins : refunding[a] # Idle => refunding[a].request \in DOMAIN request)'
  BY <1>1, <1>3, <1>4 DEF ClaimsOK
<1>8. ClaimsOK'
  BY <1>4, <1>5, <1>6, <1>7 DEF ClaimsOK
<1>9. PaymentsOK'
  BY <1>1, PaymentsKept DEF LifeInv
<1> QED
  BY <1>1, <1>8, <1>9, CareKeeps

\* A claim that changes its status and nothing else.
LEMMA StatusMoved ==
  ASSUME ClaimsOK, NEW r \in DOMAIN request, NEW to \in RequestStates, UNCHANGED order,
         request' = [request EXCEPT ![r].status = to]
  PROVE  /\ request' \in Seq(Claim)
         /\ DOMAIN request' = DOMAIN request
         /\ request'[r].status = to
         /\ \A q \in DOMAIN request \ {r} : request'[q] = request[q]
         /\ \A q \in DOMAIN request : request'[q].order = request[q].order
         /\ (\A q \in DOMAIN request : order[request[q].order] = "DONE")'
<1>1. request \in Seq(Claim) /\ request[r] \in Claim
  BY ClaimType DEF ClaimsOK
<1>2. [request[r] EXCEPT !.status = to] \in Claim
  BY <1>1 DEF Claim
<1>3. request' = [request EXCEPT ![r] = [request[r] EXCEPT !.status = to]]
  OBVIOUS
<1>4. /\ request' \in Seq(Claim) /\ DOMAIN request' = DOMAIN request
      /\ request'[r] = [request[r] EXCEPT !.status = to]
      /\ \A q \in DOMAIN request \ {r} : request'[q] = request[q]
  BY <1>1, <1>2, <1>3
<1>5. request'[r].status = to /\ request'[r].order = request[r].order
  BY <1>1, <1>4 DEF Claim
<1>6. \A q \in DOMAIN request : request'[q].order = request[q].order
  BY <1>4, <1>5
<1> QED
  BY <1>4, <1>5, <1>6 DEF ClaimsOK

LEMMA TransitionStep ==
  ASSUME LifeInv, UNCHANGED fulfilment,
         NEW r \in DOMAIN request, NEW to \in RequestStates, TransitionRequest(r, to)
  PROVE  LifeInv'
<1>1. /\ request' = [request EXCEPT ![r].status = to]
      /\ UNCHANGED <<order, payment, bill, operation, refunding>>
  BY DEF TransitionRequest
<1>2. /\ request' \in Seq(Claim) /\ DOMAIN request' = DOMAIN request
      /\ (\A q \in DOMAIN request : order[request[q].order] = "DONE")'
  BY <1>1, StatusMoved DEF LifeInv
<1>3. (refunding = [a \in Admins |-> refunding[a]])'
  BY <1>1 DEF LifeInv, ClaimsOK
<1>4. (\A a \in Admins : refunding[a] # Idle => refunding[a].request \in DOMAIN request)'
  BY <1>1, <1>2 DEF LifeInv, ClaimsOK
<1>5. ClaimsOK'
  BY <1>2, <1>3, <1>4 DEF ClaimsOK
<1>6. PaymentsOK'
  BY <1>1, PaymentsKept DEF LifeInv
<1> QED
  BY <1>1, <1>5, <1>6, CareKeeps

LEMMA BeginStep ==
  ASSUME LifeInv, UNCHANGED fulfilment, NEW a \in Admins, NEW r \in DOMAIN request,
         NEW key \in Keys, NEW t \in References, BeginRefund(a, r, key, t)
  PROVE  LifeInv'
<1> DEFINE d == [request |-> r, key |-> key, reference |-> t, seen |-> operation]
<1>1. /\ refunding' = [refunding EXCEPT ![a] = d]
      /\ UNCHANGED <<order, payment, bill, request, operation>>
  BY DEF BeginRefund
<1>2. ClaimsOK
  BY DEF LifeInv
<1>3. d.request \in DOMAIN request
  OBVIOUS
<1> HIDE DEF d
<1>4. /\ refunding' = [b \in Admins |-> refunding'[b]]
      /\ refunding'[a] = d /\ \A b \in Admins \ {a} : refunding'[b] = refunding[b]
  BY <1>1, <1>2 DEF ClaimsOK
<1>5. (\A b \in Admins : refunding[b] # Idle => refunding[b].request \in DOMAIN request)'
  <2> SUFFICES ASSUME NEW b \in Admins, refunding'[b] # Idle
               PROVE  refunding'[b].request \in DOMAIN request'
    BY DEF Idle
  <2>1. CASE b = a
    BY <1>1, <1>3, <1>4, <2>1
  <2>2. CASE b # a
    BY <1>1, <1>2, <1>4, <2>2 DEF ClaimsOK
  <2> QED
    BY <2>1, <2>2
<1>6. (\A q \in DOMAIN request : order[request[q].order] = "DONE")'
  BY <1>1, <1>2 DEF ClaimsOK
<1>7. ClaimsOK'
  BY <1>1, <1>2, <1>4, <1>5, <1>6 DEF ClaimsOK
<1>8. PaymentsOK'
  BY <1>1, PaymentsKept DEF LifeInv
<1> QED
  BY <1>1, <1>7, <1>8, CareKeeps

LEMMA DropStep ==
  ASSUME LifeInv, UNCHANGED fulfilment, NEW a \in Admins, DropRefund(a)
  PROVE  LifeInv'
<1>1. /\ refunding' = [refunding EXCEPT ![a] = Idle]
      /\ UNCHANGED <<order, payment, bill, request, operation>>
  BY DEF DropRefund
<1>2. ClaimsOK
  BY DEF LifeInv
<1>3. /\ refunding' = [b \in Admins |-> refunding'[b]]
      /\ refunding'[a] = Idle /\ \A b \in Admins \ {a} : refunding'[b] = refunding[b]
  BY <1>1, <1>2 DEF ClaimsOK
<1>4. (\A b \in Admins : refunding[b] # Idle => refunding[b].request \in DOMAIN request)'
  BY <1>1, <1>2, <1>3 DEF ClaimsOK, Idle
<1>5. (\A q \in DOMAIN request : order[request[q].order] = "DONE")'
  BY <1>1, <1>2 DEF ClaimsOK
<1>6. ClaimsOK'
  BY <1>1, <1>2, <1>3, <1>4, <1>5 DEF ClaimsOK
<1>7. PaymentsOK'
  BY <1>1, PaymentsKept DEF LifeInv
<1> QED
  BY <1>1, <1>6, <1>7, CareKeeps

\* A refund: what was confirmed is one claim, open until now, of a delivered order.
LEMMA ConfirmFacts ==
  ASSUME ClaimsOK, NEW a \in Admins, ConfirmRefund(a)
  PROVE  \E r \in DOMAIN request :
           /\ request[r].status \in RefundStates
           /\ request' = [request EXCEPT ![r].status = "REFUNDED"]
           /\ request[r].order \in Orders /\ order[request[r].order] = "DONE"
           /\ \E p : /\ operation' = operation \cup {p}
                     /\ p.request = r /\ p.order = request[r].order
                     /\ p.units \subseteq Units(bill[p.order]) \ Spent(p.order)
                     /\ \A q \in operation : q.key # p.key /\ q.reference # p.reference
                     /\ p.amount = SumOf(Nets(bill[p.order]), p.units)
                     /\ payment' = [payment EXCEPT ![p.order] =
                                      Repaid(p.order, payment[p.order], p.amount)]
           /\ \E x : payment' = [payment EXCEPT ![request[r].order] =
                                   Repaid(request[r].order, payment[request[r].order], x)]
           /\ refunding' = [refunding EXCEPT ![a] = Idle]
           /\ UNCHANGED <<order, bill>>
<1> DEFINE d == refunding[a]
           r == d.request
           o == request[r].order
           units == Chosen(r)
           x == Worth(o, units)
           p == [request |-> r, order |-> o, key |-> d.key,
                 reference |-> d.reference, units |-> units, amount |-> x]
<1>1. /\ d # Idle /\ Fresh(d) /\ request[r].status \in RefundStates
      /\ operation' = operation \cup {p}
      /\ payment' = [payment EXCEPT ![o] = Repaid(o, payment[o], x)]
      /\ request' = [request EXCEPT ![r].status = "REFUNDED"]
      /\ refunding' = [refunding EXCEPT ![a] = Idle]
      /\ UNCHANGED <<order, bill>>
  BY DEF ConfirmRefund, Confirmable
<1>2. r \in DOMAIN request
  BY <1>1 DEF ClaimsOK
<1>3. o \in Orders /\ order[o] = "DONE"
  BY <1>2, ClaimType DEF ClaimsOK
<1>4. units \subseteq Units(bill[o]) \ Spent(o)
  BY DEF Chosen
<1>5. /\ p.request = r /\ p.order = o /\ p.units = units
      /\ p.key = d.key /\ p.reference = d.reference
      /\ p.amount = SumOf(Nets(bill[o]), units)
      /\ payment' = [payment EXCEPT ![o] = Repaid(o, payment[o], p.amount)]
  BY <1>1 DEF Worth
<1>6. \A q \in operation : q.key # p.key /\ q.reference # p.reference
  BY <1>1, <1>5 DEF Fresh
<1> HIDE DEF p, x, units, o, r
<1>7. /\ p.units \subseteq Units(bill[p.order]) \ Spent(p.order)
      /\ p.request = r /\ p.order = request[r].order
      /\ p.amount = SumOf(Nets(bill[p.order]), p.units)
      /\ payment' = [payment EXCEPT ![p.order] =
                       Repaid(p.order, payment[p.order], p.amount)]
  BY <1>4, <1>5 DEF o
<1>8. \E z : payment' = [payment EXCEPT ![request[r].order] =
                           Repaid(request[r].order, payment[request[r].order], z)]
  BY <1>1 DEF o
<1>9. \E z : /\ operation' = operation \cup {z}
             /\ z.request = r /\ z.order = request[r].order
             /\ z.units \subseteq Units(bill[z.order]) \ Spent(z.order)
             /\ \A q \in operation : q.key # z.key /\ q.reference # z.reference
             /\ z.amount = SumOf(Nets(bill[z.order]), z.units)
             /\ payment' = [payment EXCEPT ![z.order] =
                              Repaid(z.order, payment[z.order], z.amount)]
  BY <1>1, <1>6, <1>7
<1> QED
  BY <1>1, <1>2, <1>3, <1>8, <1>9 DEF o

LEMMA ConfirmStep ==
  ASSUME LifeInv, UNCHANGED fulfilment, NEW a \in Admins, ConfirmRefund(a)
  PROVE  LifeInv'
<1>1. ClaimsOK /\ PaymentsOK
  BY DEF LifeInv
<1>2. PICK r \in DOMAIN request :
         /\ request' = [request EXCEPT ![r].status = "REFUNDED"]
         /\ request[r].order \in Orders /\ order[request[r].order] = "DONE"
         /\ \E x : payment' = [payment EXCEPT ![request[r].order] =
                                 Repaid(request[r].order, payment[request[r].order], x)]
         /\ refunding' = [refunding EXCEPT ![a] = Idle]
         /\ UNCHANGED <<order, bill>>
  BY <1>1, ConfirmFacts
<1> DEFINE o == request[r].order
<1>3. PICK x : payment' = [payment EXCEPT ![o] = Repaid(o, payment[o], x)]
  BY <1>2
<1>4. /\ \A p \in Orders \ {o} : payment'[p] = payment[p]
      /\ payment'[o] = Repaid(o, payment[o], x)
      /\ payment' = [p \in Orders |-> payment'[p]]
  BY <1>1, <1>2, <1>3 DEF PaymentsOK
<1>5. payment'[o].status # "pending" /\ Entry(payment'[o])
  <2> DEFINE st == IF payment[o].refunded + x >= Amount[o]
                   THEN "refunded" ELSE "partially_refunded"
  <2>1. payment'[o] = [status |-> st, refunded |-> payment[o].refunded + x]
    BY <1>4 DEF Repaid
  <2>2. st # "pending"
    OBVIOUS
  <2> HIDE DEF st
  <2> QED
    BY <2>1, <2>2 DEF Entry
<1>6. PaymentsOK'
  <2> SUFFICES ASSUME NEW p \in Orders PROVE Entry(payment'[p])
    BY <1>4 DEF PaymentsOK, Entry
  <2> QED
    BY <1>1, <1>4, <1>5 DEF PaymentsOK, Entry
<1>7. "REFUNDED" \in RequestStates
  BY DEF RequestStates
<1>8. /\ request' \in Seq(Claim) /\ DOMAIN request' = DOMAIN request
      /\ (\A q \in DOMAIN request : order[request[q].order] = "DONE")'
  BY <1>1, <1>2, <1>7, StatusMoved
<1>9. /\ refunding' = [b \in Admins |-> refunding'[b]]
      /\ refunding'[a] = Idle /\ \A b \in Admins \ {a} : refunding'[b] = refunding[b]
  BY <1>1, <1>2 DEF ClaimsOK
<1>10. (\A b \in Admins : refunding[b] # Idle => refunding[b].request \in DOMAIN request)'
  BY <1>1, <1>8, <1>9 DEF ClaimsOK, Idle
<1>11. ClaimsOK'
  BY <1>8, <1>9, <1>10 DEF ClaimsOK
<1>12. \A p \in Orders : \/ payment'[p].status = payment[p].status
                         \/ order[p] = "DONE" /\ payment'[p].status # "pending"
  BY <1>2, <1>4, <1>5
<1> QED
  BY <1>2, <1>6, <1>11, <1>12, CareKeeps

LEMMA CourierSteps ==
  ASSUME LifeInv, UNCHANGED afterSales, NEW o \in Orders, SetOut(o) \/ FailDelivery(o)
  PROVE  LifeInv'
<1>1. UNCHANGED <<order, payment, shipment, staff, settlement, transfer>>
  BY DEF SetOut, FailDelivery
<1>2. \E k \in Active(o), st \in {"OUT_FOR_DELIVERY", "DELIVERY_FAILED"} :
        assignment' = Marked(o, k, st)
  BY CarriedActive DEF SetOut, FailDelivery
<1> QED
  BY <1>1, <1>2, CourierStep

LEMMA LifeStep == LifeInv /\ [Next]_vars => LifeInv'
<1> SUFFICES ASSUME LifeInv, [Next]_vars PROVE LifeInv'
  OBVIOUS
<1>1. CASE FulfilmentNext /\ UNCHANGED afterSales
  <2>1. ASSUME NEW o \in Orders,
               \/ Pack(o) \/ SetOut(o) \/ FailDelivery(o) \/ Deliver(o)
               \/ CancelOrder(o) \/ ConfirmCod(o)
        PROVE  LifeInv'
    BY <1>1, <2>1, PackStep, CourierSteps, DeliverStep, CancelStep, ConfirmCodStep
  <2>2. ASSUME NEW o \in Orders, NEW s \in Staff, NEW slot \in Slots, Assign(o, s, slot)
        PROVE  LifeInv'
    BY <1>1, <2>2, AssignStep
  <2>3. ASSUME NEW o \in Orders, NEW x \in Remits, NEW t \in Transfers, Remit(o, x, t)
        PROVE  LifeInv'
    BY <1>1, <2>3, RemitStep
  <2>4. ASSUME NEW s \in Staff, SetStaff(s)
        PROVE  LifeInv'
    BY <1>1, <2>4, StaffStep
  <2> QED
    BY <1>1, <2>1, <2>2, <2>3, <2>4 DEF FulfilmentNext
<1>2. CASE AfterSalesNext /\ UNCHANGED fulfilment
  <2>1. ASSUME NEW o \in Claimed, NEW quantity \in Asks, CreateRequest(o, quantity)
        PROVE  LifeInv'
    BY <1>2, <2>1, CreateStep
  <2>2. ASSUME NEW r \in DOMAIN request, NEW to \in RequestStates, TransitionRequest(r, to)
        PROVE  LifeInv'
    BY <1>2, <2>2, TransitionStep
  <2>3. ASSUME NEW a \in Admins, NEW r \in DOMAIN request, NEW key \in Keys,
               NEW t \in References, BeginRefund(a, r, key, t)
        PROVE  LifeInv'
    BY <1>2, <2>3, BeginStep
  <2>4. ASSUME NEW a \in Admins, ConfirmRefund(a) \/ DropRefund(a)
        PROVE  LifeInv'
    BY <1>2, <2>4, ConfirmStep, DropStep
  <2> QED
    BY <1>2, <2>1, <2>2, <2>3, <2>4 DEF AfterSalesNext
<1>3. CASE UNCHANGED vars
  <2>1. /\ UNCHANGED order /\ UNCHANGED payment /\ UNCHANGED fulfilment
        /\ UNCHANGED afterSales
    BY <1>3 DEF vars
  <2>2. PaymentsOK' /\ ClaimsOK'
    BY <2>1, PaymentsKept, ClaimsKept DEF LifeInv
  <2> QED
    BY <2>1, <2>2, CareKeeps
<1> QED
  BY <1>1, <1>2, <1>3 DEF Next

LEMMA Lives == Spec => []LifeInv
<1> QED
  BY LifeInit, LifeStep, PTL DEF Spec

-----------------------------------------------------------------------------
(* What follows from it *)

\* A courier on the way has the order alone, and it is pending, packed and may
\* be delivered, although a courier's update checks none of it.
THEOREM CouriersExpected == Spec => []CourierExpected
<1>1. ASSUME LifeInv, NEW o \in Orders, Active(o) # {}
      PROVE  /\ Cardinality(Active(o)) = 1
             /\ order[o] = "PENDING" /\ shipment[o] = "READY_TO_SHIP" /\ Payable(o)
  <2>1. Attended(o) /\ Paying(o)
    BY <1>1 DEF LifeInv
  <2>2. Active(o) = {Last(o)}
    BY <1>1, <2>1 DEF Attended
  <2> QED
    BY <1>1, <2>1, <2>2, FS_Singleton DEF Attended, Paying
<1>2. LifeInv => CourierExpected
  BY <1>1 DEF CourierExpected
<1> QED
  BY <1>2, Lives, PTL

\* However many orders and couriers there are, no two orders that overlap in
\* time are with the same courier.
THEOREM SchedulesNeverClash == Spec => []SchedulesApart
<1>1. LifeInv => SchedulesApart
  BY DEF LifeInv
<1> QED
  BY <1>1, Lives, PTL

\* Delivery, completion, payment and the books of the cash stay in step.
THEOREM DeliveriesSettled == Spec => []DeliveredSettled
<1>1. ASSUME LifeInv, NEW o \in Orders
      PROVE  LET s == settlement[o] IN
               /\ order[o] = "DONE" <=> Handed(o) # {}
               /\ Cardinality(Handed(o)) <= 1
               /\ order[o] = "DONE" => payment[o].status # "pending"
               /\ s.collected = IF order[o] = "DONE" THEN Due(o) ELSE 0
               /\ s.status = "MATCHED" => s.collected = Due(o) /\ s.remitted = Due(o)
               /\ s.collected = Due(o) /\ s.remitted = Due(o) /\ Due(o) > 0
                    => s.status = "MATCHED"
  <2>1. Attended(o) /\ Paying(o) /\ Booked(o)
    BY <1>1 DEF LifeInv
  <2>2. Handed(o) = {} \/ Handed(o) = {Last(o)}
    BY <2>1 DEF Attended
  <2>3. Cardinality(Handed(o)) \in {0, 1}
    BY <2>2, FS_EmptySet, FS_Singleton
  <2> QED
    BY <2>1, <2>3 DEF Attended, Paying, Booked
<1>2. LifeInv => DeliveredSettled
  BY <1>1 DEF DeliveredSettled
<1> QED
  BY <1>2, Lives, PTL

\* No order that PayOS took the money of is ever cancelled.
THEOREM PrepaidStays == Spec => []PrepaidKept
<1>1. LifeInv => PrepaidKept
  BY DEF LifeInv, Paying, PrepaidKept
<1> QED
  BY <1>1, Lives, PTL

-----------------------------------------------------------------------------
(* The delivery protocol *)

LEMMA PhaseMoved ==
  ASSUME NEW o \in Orders, NEW from, NEW to, Phase(o) \in from, Phase(o)' = to,
         \A p \in Orders \ {o} : Phase(p)' = Phase(p)
  PROVE  Abstract!Move(o, from, to)
<1>1. [p \in Orders |-> Phase(p)]' =
        [[p \in Orders |-> Phase(p)] EXCEPT ![o] = to]
  <2>1. ASSUME NEW p \in Orders
        PROVE  Phase(p)' = [[q \in Orders |-> Phase(q)] EXCEPT ![o] = to][p]
    OBVIOUS
  <2> QED
    BY <2>1
<1>2. [p \in Orders |-> Phase(p)][o] \in from
  OBVIOUS
<1> QED
  BY <1>1, <1>2 DEF Abstract!Move

LEMMA PhaseKept ==
  ASSUME NEW o, order'[o] = order[o], assignment'[o] = assignment[o]
  PROVE  Phase(o)' = Phase(o)
BY DEF Phase

\* While a courier has it, the phase is that of the assignment.
LEMMA PhaseUnderway ==
  ASSUME LifeInv, NEW o \in Orders, NEW k \in Active(o)
  PROVE  Phase(o) = assignment[o][k].status
<1>1. k = Last(o) /\ order[o] = "PENDING" /\ k \in 1 .. Last(o)
  BY Assignments DEF LifeInv, Attended
<1>2. assignment[o] # <<>>
  BY <1>1, Assignments
<1> QED
  BY <1>1, <1>2 DEF Phase, Last

\* With no courier on the way, a pending order waits for one.
LEMMA PhaseWaiting ==
  ASSUME LifeInv, NEW o \in Orders, order[o] = "PENDING", Active(o) = {}
  PROVE  Phase(o) \in Abstract!Idle
<1>1. CASE assignment[o] = <<>>
  BY <1>1 DEF Phase, Abstract!Idle
<1>2. CASE assignment[o] # <<>>
  <2>1. Last(o) \in 1 .. Last(o) /\ DOMAIN assignment[o] = 1 .. Last(o)
    <3>1. assignment[o] \in Seq(Assignment) /\ Len(assignment[o]) \in Nat
      BY Assignments
    <3>2. Len(assignment[o]) # 0
      BY <1>2, <3>1
    <3> QED
      BY <3>1, <3>2 DEF Last
  <2>2. assignment[o][Last(o)] \in Assignment
    BY <2>1, Assignments
  <2>3. assignment[o][Last(o)].status \in AssignmentStates
    BY <2>2 DEF Assignment
  <2>4. Attended(o)
    BY DEF LifeInv
  <2>5. /\ assignment[o][Last(o)].status \notin Underway
        /\ assignment[o][Last(o)].status # "DELIVERED"
        /\ assignment[o][Last(o)].status # "REASSIGNED"
    BY <1>2, <2>1, <2>4 DEF Active, Handed, Attended
  <2>6. assignment[o][Last(o)].status = "DELIVERY_FAILED"
    BY <2>3, <2>5 DEF AssignmentStates
  <2> QED
    BY <1>2, <2>6 DEF Phase, Last, Abstract!Idle
<1> QED
  BY <1>1, <1>2

LEMMA PhaseMarked ==
  ASSUME LifeInv, NEW o \in Orders, NEW k \in Active(o), NEW st \in AssignmentStates,
         assignment' = Marked(o, k, st), order'[o] \in {"PENDING", "DONE"}
  PROVE  Phase(o)' = st
<1>1. /\ k = Last(o) /\ Last(o)' = Last(o) /\ assignment'[o] # <<>>
      /\ assignment'[o][k].status = st
  BY MarkedFacts
<1> QED
  BY <1>1 DEF Phase, Last

LEMMA ProtocolStep ==
  ASSUME LifeInv, [Next]_vars
  PROVE  [Abstract!Next]_[o \in Orders |-> Phase(o)]
<1> DEFINE phase == [o \in Orders |-> Phase(o)]
<1>1. order \in [Orders -> OrderStates]
  BY DEF LifeInv
<1>2. CASE UNCHANGED <<order, assignment>>
  <2>1. \A o \in Orders : Phase(o)' = Phase(o)
    BY <1>2, PhaseKept
  <2>2. phase' = phase
    BY <2>1
  <2> QED
    BY <2>2
<1>3. ASSUME NEW o \in Orders, SetOut(o)
      PROVE  Abstract!SetOut(o)
  <2>1. PICK k \in Active(o) : /\ assignment[o][k].status = "ASSIGNED"
                              /\ assignment' = Marked(o, k, "OUT_FOR_DELIVERY")
    BY <1>3, CarriedActive DEF SetOut
  <2>2. /\ "OUT_FOR_DELIVERY" \in AssignmentStates
        /\ \A p \in Orders \ {o} : order'[p] = order[p]
    BY <1>1, <1>3 DEF SetOut, AssignmentStates, Underway
  <2>3. order'[o] \in {"PENDING", "DONE"}
    BY <1>3, <2>1 DEF SetOut, LifeInv, Attended
  <2>4. \A p \in Orders \ {o} : assignment'[p] = assignment[p]
    BY <2>1, <2>2, MarkedFacts
  <2>5. \A p \in Orders \ {o} : Phase(p)' = Phase(p)
    BY <2>2, <2>4, PhaseKept
  <2>6. Phase(o) = "ASSIGNED" /\ Phase(o)' = "OUT_FOR_DELIVERY"
    BY <2>1, <2>2, <2>3, PhaseUnderway, PhaseMarked
  <2>7. Abstract!Move(o, {"ASSIGNED"}, "OUT_FOR_DELIVERY")
    BY <2>5, <2>6, PhaseMoved
  <2> QED
    BY <2>7 DEF Abstract!SetOut
<1>4. ASSUME NEW o \in Orders, FailDelivery(o)
      PROVE  Abstract!Fail(o)
  <2>1. PICK k \in Active(o) : /\ assignment[o][k].status = "OUT_FOR_DELIVERY"
                              /\ assignment' = Marked(o, k, "DELIVERY_FAILED")
    BY <1>4, CarriedActive DEF FailDelivery
  <2>2. /\ "DELIVERY_FAILED" \in AssignmentStates
        /\ \A p \in Orders \ {o} : order'[p] = order[p]
    BY <1>1, <1>4 DEF FailDelivery, AssignmentStates, Underway
  <2>3. order'[o] \in {"PENDING", "DONE"}
    BY <1>4, <2>1 DEF FailDelivery, LifeInv, Attended
  <2>4. \A p \in Orders \ {o} : assignment'[p] = assignment[p]
    BY <2>1, <2>2, MarkedFacts
  <2>5. \A p \in Orders \ {o} : Phase(p)' = Phase(p)
    BY <2>2, <2>4, PhaseKept
  <2>6. Phase(o) = "OUT_FOR_DELIVERY" /\ Phase(o)' = "DELIVERY_FAILED"
    BY <2>1, <2>2, <2>3, PhaseUnderway, PhaseMarked
  <2>7. Abstract!Move(o, {"OUT_FOR_DELIVERY"}, "DELIVERY_FAILED")
    BY <2>5, <2>6, PhaseMoved
  <2> QED
    BY <2>7 DEF Abstract!Fail
<1>5. ASSUME NEW o \in Orders, Deliver(o)
      PROVE  Abstract!HandOver(o)
  <2>1. PICK k \in Active(o) : /\ assignment[o][k].status = "OUT_FOR_DELIVERY"
                              /\ assignment' = Marked(o, k, "DELIVERED")
    BY <1>5, CarriedActive DEF Deliver
  <2>2. /\ "DELIVERED" \in AssignmentStates
        /\ \A p \in Orders \ {o} : order'[p] = order[p]
    BY <1>1, <1>5 DEF Deliver, AssignmentStates, Underway
  <2>3. order'[o] \in {"PENDING", "DONE"}
    BY <1>1, <1>5 DEF Deliver
  <2>4. \A p \in Orders \ {o} : assignment'[p] = assignment[p]
    BY <2>1, <2>2, MarkedFacts
  <2>5. \A p \in Orders \ {o} : Phase(p)' = Phase(p)
    BY <2>2, <2>4, PhaseKept
  <2>6. Phase(o) = "OUT_FOR_DELIVERY" /\ Phase(o)' = "DELIVERED"
    BY <2>1, <2>2, <2>3, PhaseUnderway, PhaseMarked
  <2>7. Abstract!Move(o, {"OUT_FOR_DELIVERY"}, "DELIVERED")
    BY <2>5, <2>6, PhaseMoved
  <2> QED
    BY <2>7 DEF Abstract!HandOver
<1>6. ASSUME NEW o \in Orders, NEW s \in Staff, NEW slot \in Slots, Assign(o, s, slot)
      PROVE  Abstract!Assign(o)
  <2>1. /\ order[o] = "PENDING" /\ UNCHANGED order
        /\ \A k \in Active(o) : assignment[o][k].status = "ASSIGNED"
    BY <1>6 DEF Assign
  <2>2. /\ \A p \in Orders \ {o} : assignment'[p] = assignment[p]
        /\ Last(o)' = Last(o) + 1 /\ assignment'[o] # <<>>
        /\ assignment'[o][Last(o) + 1].status = "ASSIGNED"
    <3>1. assignment'[o][Last(o) + 1] = [staff |-> s, slot |-> slot, status |-> "ASSIGNED"]
      BY <1>6, AssignFacts
    <3>2. assignment'[o][Last(o) + 1].status = "ASSIGNED"
      BY <3>1
    <3> QED
      BY <1>6, <3>2, AssignFacts
  <2>3. \A p \in Orders \ {o} : Phase(p)' = Phase(p)
    BY <2>1, <2>2, PhaseKept
  <2>4. Phase(o)' = "ASSIGNED"
    BY <2>1, <2>2 DEF Phase, Last
  <2>5. Phase(o) \in Abstract!Idle \cup {"ASSIGNED"}
    BY <2>1, PhaseWaiting, PhaseUnderway
  <2>6. Abstract!Move(o, Abstract!Idle \cup {"ASSIGNED"}, "ASSIGNED")
    BY <2>3, <2>4, <2>5, PhaseMoved
  <2> QED
    BY <2>6 DEF Abstract!Assign
<1>7. ASSUME NEW o \in Orders, CancelOrder(o)
      PROVE  Abstract!Cancel(o)
  <2>1. /\ order[o] = "PENDING" /\ Active(o) = {} /\ UNCHANGED assignment
        /\ order' = [order EXCEPT ![o] = "CANCELED"]
    BY <1>7 DEF CancelOrder, Cancellable
  <2>2. \A p \in Orders \ {o} : Phase(p)' = Phase(p)
    BY <1>1, <2>1, PhaseKept
  <2>3. Phase(o)' = "CANCELED"
    BY <1>1, <2>1 DEF Phase
  <2>4. Abstract!Move(o, Abstract!Idle, "CANCELED")
    BY <2>1, <2>2, <2>3, PhaseWaiting, PhaseMoved
  <2> QED
    BY <2>4 DEF Abstract!Cancel
<1>8. ASSUME NEW o \in Orders, Pack(o) \/ ConfirmCod(o)
      PROVE  UNCHANGED <<order, assignment>>
  BY <1>8 DEF Pack, ConfirmCod, fulfilment
<1>9. ASSUME NEW o \in Orders, NEW x \in Remits, NEW t \in Transfers, Remit(o, x, t)
      PROVE  UNCHANGED <<order, assignment>>
  BY <1>9 DEF Remit
<1>10. ASSUME NEW s \in Staff, SetStaff(s)
       PROVE  UNCHANGED <<order, assignment>>
  BY <1>10 DEF SetStaff
<1>11. AfterSalesNext => UNCHANGED order
  BY DEF AfterSalesNext, CreateRequest, TransitionRequest, BeginRefund,
         ConfirmRefund, DropRefund
<1>12. CASE FulfilmentNext
  <2>1. Abstract!Next \/ UNCHANGED <<order, assignment>>
    BY <1>3, <1>4, <1>5, <1>6, <1>7, <1>8, <1>9, <1>10, <1>12
       DEF FulfilmentNext, Abstract!Next
  <2> QED
    BY <1>2, <2>1
<1>13. CASE AfterSalesNext /\ UNCHANGED fulfilment
  BY <1>2, <1>11, <1>13 DEF fulfilment
<1>14. CASE UNCHANGED vars
  BY <1>2, <1>14 DEF vars, fulfilment
<1> QED
  BY <1>12, <1>13, <1>14 DEF Next

\* What an order's delivery looks like from outside is the protocol, however
\* many orders, couriers and claims there are.
THEOREM DeliveryRefined == Spec => DeliveryProtocol
<1>1. Init => Abstract!Init
  <2> SUFFICES ASSUME Init PROVE Abstract!Init
    OBVIOUS
  <2>1. \A o \in Orders : Phase(o) = "UNASSIGNED"
    BY DEF Init, OrdersInit, FulfilmentInit, Phase
  <2> QED
    BY <2>1 DEF Abstract!Init
<1>2. LifeInv /\ [Next]_vars => [Abstract!Next]_[o \in Orders |-> Phase(o)]
  BY ProtocolStep
<1> QED
  BY <1>1, <1>2, Lives, PTL DEF Spec, DeliveryProtocol, Abstract!Spec

-----------------------------------------------------------------------------
(* Refunds *)

\* A claim that was refunded is refunded or closed for good, so it cannot be
\* refunded again; what no claim guards, keys, references and units, is compared
\* with every operation there is when it is inserted.
RefundInv ==
  /\ RefundedOnce
  /\ \A p \in operation : /\ p.request \in DOMAIN request
                          /\ request[p.request].status \in {"REFUNDED", "CLOSED"}

\* What leaves the operations alone keeps them, if refunded claims stay so.
LEMMA OperationsKept ==
  ASSUME RefundInv, UNCHANGED operation,
         \A r \in DOMAIN request :
           /\ r \in DOMAIN request'
           /\ request[r].status \in {"REFUNDED", "CLOSED"}
                => request'[r].status \in {"REFUNDED", "CLOSED"}
  PROVE  RefundInv'
<1>1. RefundedOnce'
  BY DEF RefundInv, RefundedOnce
<1>2. (\A p \in operation : /\ p.request \in DOMAIN request
                            /\ request[p.request].status \in {"REFUNDED", "CLOSED"})'
  BY DEF RefundInv
<1> QED
  BY <1>1, <1>2 DEF RefundInv

LEMMA RefundConfirmed ==
  ASSUME LifeInv, RefundInv, NEW a \in Admins, ConfirmRefund(a)
  PROVE  RefundInv'
<1>1. ClaimsOK
  BY DEF LifeInv
<1>2. PICK r \in DOMAIN request :
         /\ request[r].status \in RefundStates
         /\ request' = [request EXCEPT ![r].status = "REFUNDED"]
         /\ \E p : /\ operation' = operation \cup {p}
                   /\ p.request = r /\ p.order = request[r].order
                   /\ p.units \subseteq Units(bill[p.order]) \ Spent(p.order)
                   /\ \A q \in operation : q.key # p.key /\ q.reference # p.reference
         /\ UNCHANGED <<order, bill>>
  BY <1>1, ConfirmFacts
<1>3. PICK p : /\ operation' = operation \cup {p} /\ p.request = r
               /\ p.units \subseteq Units(bill[p.order]) \ Spent(p.order)
               /\ \A q \in operation : q.key # p.key /\ q.reference # p.reference
  BY <1>2
<1>4. "REFUNDED" \in RequestStates
  BY DEF RequestStates
<1>5. /\ DOMAIN request' = DOMAIN request /\ request'[r].status = "REFUNDED"
      /\ \A q \in DOMAIN request \ {r} : request'[q] = request[q]
  BY <1>1, <1>2, <1>4, StatusMoved
<1>6. ASSUME NEW q \in operation
      PROVE  q.request # p.request /\ (q.order = p.order => q.units \cap p.units = {})
  <2>1. q.request # r
    BY <1>2 DEF RefundInv, RefundStates
  <2>2. q.order = p.order => q.units \subseteq Spent(p.order)
    BY DEF Spent, Refunds
  <2> QED
    BY <1>3, <2>1, <2>2
<1>7. RefundedOnce'
  <2>1. SUFFICES ASSUME NEW x \in operation', NEW y \in operation', x # y
                 PROVE  /\ x.request # y.request
                        /\ x.key # y.key /\ x.reference # y.reference
                        /\ x.order = y.order => x.units \cap y.units = {}
    BY DEF RefundedOnce
  <2>2. CASE x \in operation /\ y \in operation
    BY <2>1, <2>2 DEF RefundInv, RefundedOnce
  <2>3. CASE x \in operation /\ y = p
    BY <1>3, <1>6, <2>3
  <2>4. CASE x = p /\ y \in operation
    BY <1>3, <1>6, <2>4
  <2> QED
    BY <1>3, <2>1, <2>2, <2>3, <2>4
<1>8. ASSUME NEW q \in operation'
      PROVE  /\ q.request \in DOMAIN request'
             /\ request'[q.request].status \in {"REFUNDED", "CLOSED"}
  <2>1. CASE q \in operation
    BY <1>5, <2>1 DEF RefundInv
  <2>2. CASE q = p
    BY <1>3, <1>5, <2>2
  <2> QED
    BY <1>3, <2>1, <2>2
<1> QED
  BY <1>7, <1>8 DEF RefundInv

LEMMA RefundStep ==
  ASSUME LifeInv, RefundInv, [Next]_vars
  PROVE  RefundInv'
<1>1. ClaimsOK
  BY DEF LifeInv
<1>2. ASSUME UNCHANGED <<request, operation>>
      PROVE  RefundInv'
  BY <1>2, OperationsKept
<1>3. ASSUME NEW o \in Claimed, NEW quantity \in Asks, CreateRequest(o, quantity)
      PROVE  RefundInv'
  <2> DEFINE new == [order |-> o, quantity |-> quantity, status |-> "REQUESTED"]
  <2>1. request' = Append(request, new) /\ UNCHANGED operation /\ request \in Seq(Claim)
    BY <1>1, <1>3 DEF CreateRequest, ClaimsOK
  <2>2. new \in Claim
    BY DEF Claim, RequestStates
  <2>3. \A r \in DOMAIN request : r \in DOMAIN request' /\ request'[r] = request[r]
    BY <2>1, <2>2
  <2> QED
    BY <2>1, <2>3, OperationsKept
<1>4. ASSUME NEW r \in DOMAIN request, NEW to \in RequestStates, TransitionRequest(r, to)
      PROVE  RefundInv'
  <2>1. /\ to \in After(request[r].status) /\ UNCHANGED <<order, operation>>
        /\ request' = [request EXCEPT ![r].status = to]
    BY <1>4 DEF TransitionRequest
  <2>2. /\ DOMAIN request' = DOMAIN request /\ request'[r].status = to
        /\ \A q \in DOMAIN request \ {r} : request'[q] = request[q]
    BY <1>1, <2>1, StatusMoved
  <2>3. request[r].status \in {"REFUNDED", "CLOSED"} => to = "CLOSED"
    BY <2>1 DEF After
  <2> QED
    BY <2>1, <2>2, <2>3, OperationsKept
<1>5. ASSUME NEW a \in Admins, NEW r \in DOMAIN request, NEW key \in Keys,
             NEW t \in References, BeginRefund(a, r, key, t)
      PROVE  RefundInv'
  BY <1>2, <1>5 DEF BeginRefund
<1>6. ASSUME NEW a \in Admins, DropRefund(a)
      PROVE  RefundInv'
  BY <1>2, <1>6 DEF DropRefund
<1>7. CASE UNCHANGED afterSales
  BY <1>2, <1>7 DEF afterSales
<1>8. CASE AfterSalesNext
  BY <1>3, <1>4, <1>5, <1>6, <1>8, RefundConfirmed DEF AfterSalesNext
<1> QED
  BY <1>7, <1>8 DEF Next, vars, afterSales

LEMMA RefundsLive == Spec => []RefundInv
<1>1. Init => RefundInv
  BY DEF Init, AfterSalesInit, RefundInv, RefundedOnce
<1>2. LifeInv /\ RefundInv /\ [Next]_vars => RefundInv'
  BY RefundStep
<1> QED
  BY <1>1, <1>2, Lives, PTL DEF Spec

\* No unit, claim, key or transfer is refunded twice, however many claims, refunds
\* and administrators there are.
THEOREM UnitsRefundedOnce == Spec => []RefundedOnce
<1>1. RefundInv => RefundedOnce
  BY DEF RefundInv
<1> QED
  BY <1>1, RefundsLive, PTL

-----------------------------------------------------------------------------
(* The allocation of the discount *)

LEMMA CountBelow ==
  ASSUME NEW n \in Nat
  PROVE  IsFiniteSet(0 .. (n - 1)) /\ Cardinality(0 .. (n - 1)) = n
<1> DEFINE k == n - 1
<1>1. k \in Int /\ 0 \in Int /\ k >= -1 /\ k + 1 = n
  OBVIOUS
<1> HIDE DEF k
<1>2. IsFiniteSet(0 .. k) /\ Cardinality(0 .. k) = IF 0 > k THEN 0 ELSE k - 0 + 1
  BY <1>1, FS_Interval
<1>3. Cardinality(0 .. k) = n
  BY <1>1, <1>2
<1> QED
  BY <1>2, <1>3 DEF k

\* A strict order of a finite set, given by what comes before each element, gives
\* the ranks 0, 1, 2...: n of them are below n.
LEMMA RanksBelow ==
  ASSUME NEW U, IsFiniteSet(U), NEW before \in [U -> SUBSET U],
         \A u \in U : u \notin before[u],
         \A u, v, w \in U : u \in before[v] /\ v \in before[w] => u \in before[w],
         \A u, v \in U : u = v \/ u \in before[v] \/ v \in before[u],
         NEW rank, \A u \in U : rank[u] = Cardinality(before[u]),
         rank = [u \in U |-> rank[u]],
         NEW n \in Nat, n <= Cardinality(U)
  PROVE  Cardinality({u \in U : rank[u] < n}) = n
<1> DEFINE N == Cardinality(U)
           S == {u \in U : rank[u] < n}
<1>1. N \in Nat
  BY FS_CardinalityType
<1>2. ASSUME NEW u \in U
      PROVE  before[u] \in SUBSET U /\ IsFiniteSet(before[u]) /\ rank[u] \in Nat
  BY FS_Subset, FS_CardinalityType
<1>3. ASSUME NEW u \in U
      PROVE  rank[u] \in 0 .. (N - 1)
  <2>1. before[u] \in SUBSET U /\ before[u] # U
    BY <1>2
  <2>2. rank[u] <= N /\ rank[u] # N
    BY <2>1, FS_Subset
  <2> QED
    BY <1>1, <1>2, <2>2
<1>4. ASSUME NEW u \in U, NEW v \in U, u \in before[v]
      PROVE  rank[u] < rank[v]
  <2>1. ASSUME NEW w \in before[u] PROVE w \in before[v]
    BY <1>2, <1>4
  <2>2. before[u] \in SUBSET before[v] /\ before[u] # before[v]
    BY <1>4, <2>1
  <2>3. rank[u] <= rank[v] /\ rank[u] # rank[v]
    BY <1>2, <2>2, FS_Subset
  <2> QED
    BY <1>2, <2>3
<1>5. rank \in [U -> 0 .. (N - 1)]
  BY <1>3
<1>6. \A u, v \in U : rank[u] = rank[v] => u = v
  <2> SUFFICES ASSUME NEW u \in U, NEW v \in U, rank[u] = rank[v], u # v PROVE FALSE
    OBVIOUS
  <2>1. rank[u] \in Int /\ rank[v] \in Int
    BY <1>1, <1>3
  <2>2. rank[u] < rank[v] \/ rank[v] < rank[u]
    BY <1>4
  <2> QED
    BY <2>1, <2>2
<1>7. IsFiniteSet(0 .. (N - 1)) /\ Cardinality(0 .. (N - 1)) = N
  <2> HIDE DEF N
  <2> QED
    BY <1>1, CountBelow
<1>8. rank \in Injection(U, 0 .. (N - 1))
  BY <1>5, <1>6 DEF Injection, IsInjective
<1>9. rank \in Surjection(U, 0 .. (N - 1))
  BY <1>7, <1>8, FS_Injection
<1> DEFINE low == [u \in S |-> rank[u]]
<1>10. low \in Bijection(S, 0 .. (n - 1))
  <2>1. \A u \in U : rank[u] \in Nat
    BY <1>1, <1>5
  <2>2. low \in [S -> 0 .. (n - 1)]
    <3>1. ASSUME NEW u \in S PROVE rank[u] \in 0 .. (n - 1)
      BY <2>1
    <3> QED
      BY <3>1
  <2>3. low \in Injection(S, 0 .. (n - 1))
    BY <1>6, <2>2 DEF Injection, IsInjective
  <2>4. ASSUME NEW k \in 0 .. (n - 1)
        PROVE  \E u \in S : low[u] = k
    <3>1. k \in 0 .. (N - 1)
      BY <1>1
    <3>2. PICK u \in U : rank[u] = k
      BY <1>9, <3>1 DEF Surjection
    <3>3. u \in S
      BY <3>2
    <3> QED
      BY <3>2, <3>3
  <2>5. low \in Surjection(S, 0 .. (n - 1))
    BY <2>2, <2>4 DEF Surjection
  <2> QED
    BY <2>3, <2>5 DEF Bijection
<1>11. IsFiniteSet(S) /\ Cardinality(0 .. (n - 1)) = Cardinality(S)
  <2>1. IsFiniteSet(S)
    BY FS_Subset
  <2>2. ExistsBijection(S, 0 .. (n - 1))
    BY <1>10 DEF ExistsBijection
  <2> HIDE DEF S
  <2> QED
    BY <2>1, <2>2, FS_Bijection
<1>12. Cardinality(0 .. (n - 1)) = n
  BY CountBelow
<1> QED
  BY <1>11, <1>12

\* The indexes 0 .. k of one item are finitely many units.
LEMMA ItemUnits ==
  ASSUME NEW i, NEW k \in Int
  PROVE  IsFiniteSet({i} \X (0 .. k))
<1> DEFINE f == [u \in {i} \X (0 .. k) |-> u[2]]
<1>1. f \in Injection({i} \X (0 .. k), 0 .. k)
  BY DEF Injection, IsInjective
<1>2. IsFiniteSet(0 .. k)
  BY FS_Interval
<1> HIDE DEF f
<1> QED
  BY <1>1, <1>2, FS_Injection

LEMMA UnitFacts ==
  ASSUME NEW b, IsBill(b), NEW u \in Units(b)
  PROVE  /\ u[1] \in Nat /\ u[2] \in Nat /\ u = <<u[1], u[2]>>
         /\ Gross(b, u) \in Nat
<1>1. PICK i \in DOMAIN b.quantity : u \in {i} \X (0 .. (b.quantity[i] - 1))
  BY DEF Units
<1>2. i \in Nat /\ b.price[i] \in Nat /\ b.quantity[i] \in Nat
  BY DEF IsBill
<1> QED
  BY <1>1, <1>2 DEF Gross

LEMMA UnitsFinite ==
  ASSUME NEW b, IsBill(b)
  PROVE  IsFiniteSet(Units(b))
<1> DEFINE I == DOMAIN b.quantity
           Of(i) == {i} \X (0 .. (b.quantity[i] - 1))
           All(T) == UNION {Of(i) : i \in T}
           P == {T \in SUBSET I : IsFiniteSet(All(T))}
<1>1. IsFiniteSet(I)
  <2>1. I = 1 .. Len(b.quantity) /\ Len(b.quantity) \in Nat
    BY DEF IsBill
  <2> QED
    BY <2>1, FS_Interval
<1>2. {} \in P
  <2>1. All({}) = {}
    OBVIOUS
  <2> QED
    BY <2>1, FS_EmptySet
<1>3. ASSUME NEW T \in P, NEW i \in I \ T
      PROVE  T \cup {i} \in P
  <2>1. All(T \cup {i}) = All(T) \cup Of(i)
    OBVIOUS
  <2>2. IsFiniteSet(Of(i))
    <3>1. b.quantity[i] - 1 \in Int
      BY DEF IsBill
    <3> QED
      BY <3>1, ItemUnits
  <2>3. IsFiniteSet(All(T))
    OBVIOUS
  <2>4. IsFiniteSet(All(T) \cup Of(i))
    <3> HIDE DEF All, Of
    <3> QED
      BY <2>2, <2>3, FS_Union
  <2>5. IsFiniteSet(All(T \cup {i}))
    BY <2>1, <2>4, Zenon
  <2> HIDE DEF All
  <2> QED
    BY <2>5
<1>4. P = SUBSET I
  <2>1. P \in SUBSET (SUBSET I)
    OBVIOUS
  <2> HIDE DEF P, I
  <2> QED
    BY <1>1, <1>2, <1>3, <2>1, SetInduction
<1>5. IsFiniteSet(All(I))
  <2>1. I \in P
    BY <1>4
  <2> QED
    BY <2>1
<1> QED
  BY <1>5 DEF Units

\* Shares are whole parts: what they leave is less than the subtotal.
LEMMA ShareFacts ==
  ASSUME NEW b, NEW u, b.discount \in Nat, Gross(b, u) \in Nat,
         NEW sub \in Nat \ {0}
  PROVE  /\ Share(b, u, sub) \in Nat /\ Remainder(b, u, sub) \in 0 .. (sub - 1)
         /\ b.discount * Gross(b, u) = sub * Share(b, u, sub) + Remainder(b, u, sub)
<1>1. ASSUME NEW n \in Nat
      PROVE  /\ n \div sub \in Nat /\ n % sub \in 0 .. (sub - 1)
             /\ n = sub * (n \div sub) + (n % sub)
  <2>1. n % sub \in 0 .. (sub - 1)
    OBVIOUS
  <2>2. n \div sub \in Int /\ n = sub * (n \div sub) + (n % sub)
    OBVIOUS
  <2>3. n \div sub \in Nat
    OBVIOUS
  <2> QED
    BY <2>1, <2>2, <2>3
<1>2. b.discount * Gross(b, u) \in Nat
  OBVIOUS
<1>3. /\ Share(b, u, sub) = (b.discount * Gross(b, u)) \div sub
      /\ Remainder(b, u, sub) = (b.discount * Gross(b, u)) % sub
  BY DEF Share, Remainder
<1> QED
  BY <1>1, <1>2, <1>3

\* Units are ordered by what they leave, then by their place in the bill.
LEMMA RankedUnits ==
  ASSUME NEW b, IsBill(b), NEW sub \in Nat \ {0},
         NEW n \in Nat, n <= Cardinality(Units(b))
  PROVE  Cardinality({u \in Units(b) : Rank(b, Units(b), u, sub) < n}) = n
<1> DEFINE U == Units(b)
           m(u) == Remainder(b, u, sub)
           before == [u \in U |-> {v \in U : Before(b, v, u, sub)}]
           rank == [u \in U |-> Rank(b, U, u, sub)]
<1>1. \A u \in U : /\ u[1] \in Nat /\ u[2] \in Nat /\ u = <<u[1], u[2]>>
                   /\ m(u) \in Int
  BY UnitFacts, ShareFacts DEF IsBill
<1>2. \A u, v \in U : u \in before[v] <=>
        \/ m(u) > m(v)
        \/ m(u) = m(v) /\ (u[1] > v[1] \/ (u[1] = v[1] /\ u[2] > v[2]))
  BY DEF Before, Later
<1>3. before \in [U -> SUBSET U]
  OBVIOUS
<1>4. \A u \in U : rank[u] = Cardinality(before[u])
  BY Zenon DEF Rank
<1>5. rank = [u \in U |-> rank[u]]
  OBVIOUS
<1>6. {u \in U : Rank(b, U, u, sub) < n} = {u \in U : rank[u] < n}
  OBVIOUS
<1>7. IsFiniteSet(U) /\ n <= Cardinality(U)
  BY UnitsFinite
<1> HIDE DEF U, m, before, rank
<1>8. \A u \in U : u \notin before[u]
  BY <1>1, <1>2
<1>9. \A u, v, w \in U : u \in before[v] /\ v \in before[w] => u \in before[w]
  BY <1>1, <1>2
<1>10. ASSUME NEW u \in U, NEW v \in U
       PROVE  u = v \/ u \in before[v] \/ v \in before[u]
  <2>1. u[1] = v[1] /\ u[2] = v[2] => u = v
    BY <1>1
  <2> QED
    BY <1>1, <1>2, <2>1
<1>11. Cardinality({u \in U : rank[u] < n}) = n
  BY <1>3, <1>4, <1>5, <1>7, <1>8, <1>9, <1>10, RanksBelow
<1> QED
  BY <1>6, <1>11, Zenon DEF U

\* What the shares leave: no more dong than units with a remainder, and these
\* come first.
LEMMA LeftFacts ==
  ASSUME NEW b, IsBill(b), NEW sub \in Nat \ {0},
         Subtotal(b, Units(b)) = sub
  PROVE  /\ Left(b, Units(b), sub) \in Nat
         /\ Left(b, Units(b), sub) <= Cardinality(Units(b))
         /\ \A u \in Units(b) : Rank(b, Units(b), u, sub) < Left(b, Units(b), sub)
                                  => Remainder(b, u, sub) > 0
<1> DEFINE U == Units(b)
           left == Left(b, U, sub)
           g == [u \in U |-> Gross(b, u)]
           s == [u \in U |-> Share(b, u, sub)]
           m == [u \in U |-> Remainder(b, u, sub)]
           k == [u \in U |-> sub * s[u]]
           h == [u \in U |-> b.discount * g[u]]
           M == {u \in U : m[u] > 0}
           c == [u \in U |-> IF u \in M THEN sub ELSE 0]
           d == b.discount
<1>1. IsFiniteSet(U) /\ d \in Nat
  BY UnitsFinite DEF IsBill
<1>2. ASSUME NEW u \in U
      PROVE  /\ g[u] \in Nat /\ s[u] \in Nat /\ m[u] \in 0 .. (sub - 1)
             /\ d * g[u] = sub * s[u] + m[u]
  <2>1. Gross(b, u) \in Nat
    BY UnitFacts
  <2> QED
    BY <2>1, <1>1, ShareFacts
<1>3. SumOf(g, U) = sub /\ left = d - SumOf(s, U)
  BY DEF Subtotal, Left
<1>4. \A u \in U : /\ k[u] = sub * s[u] /\ h[u] = d * g[u]
                   /\ c[u] = IF u \in M THEN sub ELSE 0
                   /\ (u \in M <=> m[u] > 0)
  OBVIOUS
<1>5. M \in SUBSET U
  OBVIOUS
<1>r. \A u \in U : Rank(b, U, u, sub) = Cardinality({v \in U : Before(b, v, u, sub)})
  BY DEF Rank
<1>m. \A u \in U : m[u] = Remainder(b, u, sub)
  OBVIOUS
<1> HIDE DEF U, left, g, s, m, k, h, c, M, d
<1>6. SumOf(s, U) \in Nat /\ SumOf(m, U) \in Nat
  <2>1. \A u \in U : s[u] \in Nat /\ m[u] \in Nat
    BY <1>2
  <2> QED
    BY <1>1, <2>1, SumNat
<1>7. sub * left = SumOf(m, U)
  <2>1. SumOf(h, U) = d * SumOf(g, U)
    <3>1. \A u \in U : g[u] \in Int /\ h[u] = d * g[u]
      BY <1>2, <1>4
    <3> QED
      BY <1>1, <3>1, SumScale
  <2>2. SumOf(k, U) = sub * SumOf(s, U)
    <3>1. \A u \in U : s[u] \in Int /\ k[u] = sub * s[u]
      BY <1>2, <1>4
    <3> QED
      BY <1>1, <3>1, SumScale
  <2>3. SumOf(h, U) = SumOf(k, U) + SumOf(m, U)
    <3>1. ASSUME NEW u \in U
          PROVE  k[u] \in Int /\ m[u] \in Int /\ h[u] = k[u] + m[u]
      BY <1>2, <1>4
    <3> QED
      BY <1>1, <3>1, SumPlus
  <2>4. d * sub = sub * SumOf(s, U) + SumOf(m, U)
    BY <1>3, <2>1, <2>2, <2>3
  <2>5. \A x, y \in Int : sub * (x - y) = x * sub - sub * y
    OBVIOUS
  <2>6. sub * left = d * sub - sub * SumOf(s, U)
    BY <1>1, <1>3, <1>6, <2>5
  <2>7. d * sub \in Int /\ sub * SumOf(s, U) \in Int
    BY <1>1, <1>6
  <2> QED
    BY <1>6, <2>4, <2>6, <2>7
<1>8. left \in Nat
  <2>1. left \in Int
    BY <1>1, <1>3, <1>6
  <2>2. ASSUME left < 0 PROVE FALSE
    <3>1. sub * left < 0
      BY <2>1, <2>2
    <3> QED
      BY <1>6, <1>7, <3>1
  <2> QED
    BY <2>1, <2>2
<1>9. IsFiniteSet(M) /\ Cardinality(M) \in Nat /\ Cardinality(M) <= Cardinality(U)
      /\ Cardinality(U) \in Nat
  BY <1>1, <1>5, FS_Subset, FS_CardinalityType
<1>10. left <= Cardinality(M)
  <2>1. SumOf(m, U) <= SumOf(c, U)
    <3>1. ASSUME NEW u \in U
          PROVE  m[u] \in Int /\ c[u] \in Int /\ m[u] <= c[u]
      BY <1>2, <1>4
    <3> QED
      BY <1>1, <3>1, SumLeq
  <2>2. SumOf(c, U) = sub * Cardinality(M)
    <3>1. (\A u \in M : c[u] = sub) /\ \A u \in U \ M : c[u] = 0
      BY <1>4, <1>5
    <3> QED
      BY <1>1, <1>5, <3>1, SumWhere
  <2>3. sub * left <= sub * Cardinality(M)
    BY <1>7, <2>1, <2>2
  <2>4. \A x, y \in Int : sub * x <= sub * y => x <= y
    OBVIOUS
  <2> QED
    BY <1>8, <1>9, <2>3, <2>4
<1>11. ASSUME NEW u \in U, Rank(b, U, u, sub) < left, m[u] <= 0
       PROVE  FALSE
  <2> DEFINE V == {v \in U : Before(b, v, u, sub)}
  <2>1. ASSUME NEW v \in M PROVE v \in V
    <3>1. v \in U /\ m[v] > 0 /\ m[v] \in Int /\ m[u] \in Int
      BY <1>2, <1>4, <1>5, <2>1
    <3>2. m[v] > m[u]
      BY <1>11, <3>1
    <3>3. Before(b, v, u, sub)
      BY <1>m, <3>1, <3>2 DEF Before
    <3> QED
      BY <3>1, <3>3
  <2>2. IsFiniteSet(V) /\ V \in SUBSET U
    BY <1>1, FS_Subset
  <2>3. Cardinality(V) \in Nat /\ Cardinality(M) <= Cardinality(V)
    <3>1. M \in SUBSET V
      BY <2>1
    <3> HIDE DEF V
    <3> QED
      BY <2>2, <3>1, FS_Subset, FS_CardinalityType
  <2>4. Cardinality(V) < left
    BY <1>11, <1>r
  <2> HIDE DEF V
  <2> QED
    BY <1>8, <1>9, <1>10, <2>3, <2>4
<1>12. left <= Cardinality(U)
  BY <1>8, <1>9, <1>10
<1>13. ASSUME NEW u \in U, Rank(b, U, u, sub) < left
       PROVE  Remainder(b, u, sub) > 0
  <2>1. m[u] \in Int /\ ~ m[u] <= 0
    BY <1>2, <1>11, <1>13
  <2> QED
    BY <1>m, <2>1
<1> QED
  BY <1>8, <1>12, <1>13 DEF U, left

\* The allocation: the discounts of the units add up to the discount, none is more
\* than the unit's price, and each is a share rounded down or up.
LEMMA DiscountFacts ==
  ASSUME NEW b, IsBill(b), NEW sub, Subtotal(b, Units(b)) = sub, b.discount <= sub
  PROVE  /\ sub \in Nat
         /\ SumOf(Discounts(b, Units(b)), Units(b)) = b.discount
         /\ \A u \in Units(b) :
              /\ Discounts(b, Units(b))[u] \in 0 .. Gross(b, u)
              /\ sub * Discounts(b, Units(b))[u] - b.discount * Gross(b, u) \in -sub .. sub
<1> DEFINE U == Units(b)
           g == [u \in U |-> Gross(b, u)]
           s == [u \in U |-> Share(b, u, sub)]
           low == {u \in U : Rank(b, U, u, sub) < Left(b, U, sub)}
           x == [u \in U |-> IF u \in low THEN 1 ELSE 0]
           f == Discounts(b, U)
           d == b.discount
<1>1. IsFiniteSet(U) /\ d \in Nat /\ \A u \in U : Gross(b, u) \in Nat
  BY UnitsFinite, UnitFacts DEF IsBill
<1>2. SumOf(g, U) = sub
  BY DEF Subtotal
<1>3. sub \in Nat /\ \A u \in U : g[u] <= sub
  <2>1. \A u \in U : g[u] \in Nat
    BY <1>1
  <2> HIDE DEF U, g
  <2> QED
    BY <1>1, <1>2, <2>1, SumNat
<1>4. \A u \in U : f[u] = s[u] + x[u]
  BY DEF Discounts
<1>5. CASE sub = 0
  <2>1. ASSUME NEW u \in U
        PROVE  Gross(b, u) = 0 /\ s[u] = 0
    BY <1>1, <1>3, <1>5 DEF Share
  <2>2. SumOf(s, U) = 0
    <3>1. (\A u \in U : s[u] = 0) /\ {} \in SUBSET U
      BY <2>1
    <3>2. SumOf(s, U) = 0 * Cardinality(U)
      <4> HIDE DEF U, s
      <4> QED
        BY <1>1, <3>1, SumConstant
    <3> QED
      BY <1>1, <3>2, FS_CardinalityType
  <2>3. d = 0 /\ Left(b, U, sub) = 0
    BY <1>1, <1>5, <2>2 DEF Left
  <2>4. ASSUME NEW u \in U
        PROVE  f[u] = 0
    <3>1. Rank(b, U, u, sub) \in Nat
      <4>1. {v \in U : Before(b, v, u, sub)} \in SUBSET U
        OBVIOUS
      <4>2. Cardinality({v \in U : Before(b, v, u, sub)}) \in Nat
        BY <1>1, <4>1, FS_Subset, FS_CardinalityType
      <4> QED
        BY <4>2 DEF Rank
    <3>2. u \notin low
      BY <2>3, <3>1
    <3> QED
      BY <1>4, <2>1, <3>2
  <2>5. SumOf(f, U) = 0
    <3>1. SumOf(f, U) = 0 * Cardinality(U)
      <4> HIDE DEF U, f
      <4> QED
        BY <1>1, <2>4, SumConstant
    <3> QED
      BY <1>1, <3>1, FS_CardinalityType
  <2> HIDE DEF U, f, d
  <2> QED
    BY <1>1, <1>3, <1>5, <2>1, <2>3, <2>4, <2>5 DEF U, f, d
<1>6. CASE sub # 0
  <2>1. sub \in Nat \ {0}
    BY <1>3, <1>6
  <2>2. /\ Left(b, U, sub) \in Nat /\ Left(b, U, sub) <= Cardinality(U)
        /\ \A u \in U : u \in low => Remainder(b, u, sub) > 0
    BY <2>1, LeftFacts
  <2>3. ASSUME NEW u \in U
        PROVE  /\ s[u] \in Nat /\ Remainder(b, u, sub) \in 0 .. (sub - 1)
               /\ d * Gross(b, u) = sub * s[u] + Remainder(b, u, sub)
    BY <1>1, <2>1, ShareFacts
  <2>4. Cardinality(low) = Left(b, U, sub)
    BY <2>1, <2>2, RankedUnits
  <2>5. SumOf(f, U) = d
    <3>1. SumOf(x, U) = 1 * Cardinality(low)
      <4>1. low \in SUBSET U /\ (\A u \in low : x[u] = 1) /\ \A u \in U \ low : x[u] = 0
        OBVIOUS
      <4> HIDE DEF U, low, x
      <4> QED
        BY <1>1, <4>1, SumWhere
    <3>2. SumOf(f, U) = SumOf(s, U) + SumOf(x, U)
      <4>1. \A u \in U : s[u] \in Int /\ x[u] \in Int /\ f[u] = s[u] + x[u]
        BY <1>4, <2>3
      <4> HIDE DEF U, s, x, f
      <4> QED
        BY <1>1, <4>1, SumPlus
    <3>3. SumOf(s, U) \in Int
      <4>1. \A u \in U : s[u] \in Int
        BY <2>3
      <4> HIDE DEF U, s
      <4> QED
        BY <1>1, <4>1, SumInt
    <3>4. Left(b, U, sub) = d - SumOf(s, U)
      BY DEF Left
    <3> HIDE DEF U, s, x, f, d, low
    <3> QED
      BY <1>1, <2>2, <2>4, <3>1, <3>2, <3>3, <3>4
  <2>6. ASSUME NEW u \in U
        PROVE  f[u] \in 0 .. Gross(b, u) /\ sub * f[u] - d * Gross(b, u) \in -sub .. sub
    <3> DEFINE gu == Gross(b, u)
               su == s[u]
               mu == Remainder(b, u, sub)
    <3>1. /\ gu \in Nat /\ su \in Nat /\ mu \in Nat /\ mu < sub /\ d \in Nat /\ d <= sub
          /\ d * gu = sub * su + mu
      BY <1>1, <2>1, <2>3
    <3>2. d * gu <= sub * gu
      <4> HIDE DEF gu, d
      <4> QED
        BY <2>1, <3>1
    <3>3. f[u] = su \/ (f[u] = su + 1 /\ mu > 0)
      <4>1. f[u] = su + x[u] /\ (x[u] = 0 \/ (x[u] = 1 /\ mu > 0))
        BY <1>4, <2>2
      <4> HIDE DEF gu, su, mu, d, f, x
      <4> QED
        BY <3>1, <4>1
    <3> HIDE DEF gu, su, mu, d, f
    <3>4. su <= gu
      <4>1. sub * su <= sub * gu
        <5>1. sub * su \in Int /\ sub * gu \in Int /\ d * gu \in Int
          BY <2>1, <3>1
        <5> QED
          BY <3>1, <3>2, <5>1
      <4> QED
        BY <2>1, <3>1, <4>1
    <3>5. mu > 0 => su < gu
      <4>1. mu > 0 => sub * su < sub * gu
        <5>1. sub * su \in Int /\ sub * gu \in Int /\ d * gu \in Int
          BY <2>1, <3>1
        <5> QED
          BY <3>1, <3>2, <5>1
      <4> QED
        BY <2>1, <3>1, <4>1
    <3>6. f[u] \in 0 .. gu
      BY <3>1, <3>3, <3>4, <3>5
    <3>7. sub * f[u] - d * gu \in -sub .. sub
      <4>1. sub * su \in Int /\ sub * (su + 1) = sub * su + sub
        BY <2>1, <3>1
      <4>2. sub * f[u] = sub * su \/ sub * f[u] = sub * su + sub
        BY <3>3, <4>1
      <4> QED
        BY <2>1, <3>1, <4>1, <4>2
    <3> QED
      BY <3>6, <3>7 DEF gu
  <2> QED
    BY <1>3, <2>5, <2>6
<1> QED
  BY <1>5, <1>6

\* What the units are worth: together what was paid for them.
LEMMA NetFacts ==
  ASSUME NEW b, IsBill(b), NEW sub, Subtotal(b, Units(b)) = sub, b.discount <= sub
  PROVE  /\ sub \in Nat
         /\ SumOf(Nets(b), Units(b)) = sub - b.discount
         /\ \A u \in Units(b) :
              /\ Nets(b)[u] \in 0 .. Gross(b, u)
              /\ Nets(b)[u] * sub - Gross(b, u) * (sub - b.discount) \in -sub .. sub
<1> DEFINE U == Units(b)
           g == [u \in U |-> Gross(b, u)]
           f == Discounts(b, U)
           n == Nets(b)
           d == b.discount
<1>1. IsFiniteSet(U) /\ d \in Nat /\ \A u \in U : Gross(b, u) \in Nat
  BY UnitsFinite, UnitFacts DEF IsBill
<1>2. SumOf(g, U) = sub
  BY DEF Subtotal
<1>3. /\ sub \in Nat /\ SumOf(f, U) = d
      /\ \A u \in U : /\ f[u] \in 0 .. Gross(b, u)
                      /\ sub * f[u] - d * Gross(b, u) \in -sub .. sub
  BY DiscountFacts
<1>4. \A u \in U : n[u] = Gross(b, u) - f[u] /\ g[u] = Gross(b, u)
  BY DEF Nets
<1> HIDE DEF U, g, f, n, d
<1>5. SumOf(g, U) = SumOf(f, U) + SumOf(n, U)
  <2>1. ASSUME NEW u \in U
        PROVE  f[u] \in Int /\ n[u] \in Int /\ g[u] = f[u] + n[u]
    <3>1. f[u] \in Int /\ Gross(b, u) \in Int
      BY <1>1, <1>3
    <3> QED
      BY <1>4, <3>1
  <2> QED
    BY <1>1, <2>1, SumPlus
<1>6. ASSUME NEW u \in U
      PROVE  n[u] \in 0 .. Gross(b, u) /\ n[u] * sub - Gross(b, u) * (sub - d) \in -sub .. sub
  <2> DEFINE gu == Gross(b, u)
             fu == f[u]
  <2>1. gu \in Nat /\ fu \in 0 .. gu /\ sub * fu - d * gu \in -sub .. sub /\ n[u] = gu - fu
    BY <1>1, <1>3, <1>4
  <2> HIDE DEF gu, fu
  <2>2. n[u] * sub - gu * (sub - d) = d * gu - sub * fu
    <3>1. /\ fu \in Int /\ gu \in Int /\ sub \in Int /\ d \in Int
          /\ (gu - fu) * sub = gu * sub - fu * sub
          /\ gu * (sub - d) = gu * sub - gu * d
          /\ gu * d = d * gu /\ fu * sub = sub * fu
      BY <1>1, <1>3, <2>1
    <3>2. gu * sub \in Int /\ fu * sub \in Int /\ gu * d \in Int
      BY <3>1
    <3> QED
      BY <2>1, <3>1, <3>2
  <2>3. n[u] \in 0 .. gu
    BY <2>1
  <2>4. d * gu - sub * fu \in -sub .. sub
    <3>1. d * gu \in Int /\ sub * fu \in Int
      BY <1>1, <1>3, <2>1
    <3> QED
      BY <1>3, <2>1, <3>1
  <2> QED
    BY <2>2, <2>3, <2>4 DEF gu
<1>7. SumOf(n, U) = sub - d
  <2>1. SumOf(n, U) \in Int
    <3>1. \A u \in U : n[u] \in Int
      BY <1>6
    <3> QED
      BY <1>1, <3>1, SumInt
  <2> QED
    BY <1>1, <1>2, <1>3, <1>5, <2>1
<1> QED
  BY <1>3, <1>6, <1>7 DEF U, n, d

-----------------------------------------------------------------------------
(* Money given back *)

\* What the refunds P come to.
PaidBack(P) == SumOf([p \in P |-> p.amount], P)

\* Bills stay as they were sold; a refund's amount is the worth of its units; and a
\* payment has given back what its refunds, and what the units refunded, come to.
MoneyInv ==
  /\ bill \in [Orders -> Bills]
  /\ IsFiniteSet(operation)
  /\ \A p \in operation : /\ p.order \in Claimed
                          /\ p.units \subseteq Units(bill[p.order])
                          /\ p.amount = SumOf(Nets(bill[p.order]), p.units)
  /\ \A o \in Orders : /\ payment[o].status \in PaymentStates
                       /\ payment[o].refunded = PaidBack(Refunds(o))
                       /\ payment[o].refunded = SumOf(Nets(bill[o]), Spent(o))

LEMMA BillFacts ==
  ASSUME NEW b \in Bills, NEW o \in Orders
  PROVE  IsBill(b) /\ b.discount <= Subtotal(b, Units(b))
BY AfterSalesAssumption

\* The worth of units of a bill, which other units add to.
LEMMA NetSums ==
  ASSUME NEW b \in Bills, NEW o \in Orders, NEW S \in SUBSET Units(b)
  PROVE  /\ SumOf(Nets(b), S) \in Nat
         /\ SumOf(Nets(b), S) <= Subtotal(b, Units(b)) - b.discount
         /\ \A T \in SUBSET (Units(b) \ S) :
              SumOf(Nets(b), S \cup T) = SumOf(Nets(b), S) + SumOf(Nets(b), T)
<1> DEFINE U == Units(b)
           n == Nets(b)
<1>1. IsBill(b) /\ b.discount <= Subtotal(b, U)
  BY BillFacts
<1>2. SumOf(n, U) = Subtotal(b, U) - b.discount /\ \A u \in U : n[u] \in Nat
  <2>1. /\ SumOf(n, U) = Subtotal(b, U) - b.discount
        /\ \A u \in U : n[u] \in 0 .. Gross(b, u)
    BY <1>1, NetFacts
  <2>2. \A u \in U : Gross(b, u) \in Nat
    BY <1>1, UnitFacts
  <2> QED
    BY <2>1, <2>2
<1>3. IsFiniteSet(U)
  BY <1>1, UnitsFinite
<1> HIDE DEF U, n
<1>4. S \in SUBSET U
  BY DEF U
<1>5. IsFiniteSet(S) /\ \A u \in S : n[u] \in Nat
  BY <1>2, <1>3, <1>4, FS_Subset
<1>6. SumOf(n, S) \in Nat
  BY <1>5, SumNat
<1>7. SumOf(n, S) <= SumOf(n, U)
  BY <1>2, <1>3, <1>4, SumPart
<1>8. ASSUME NEW T \in SUBSET (U \ S)
      PROVE  SumOf(n, S \cup T) = SumOf(n, S) + SumOf(n, T)
  <2>1. T \in SUBSET U /\ S \cap T = {}
    OBVIOUS
  <2>2. IsFiniteSet(T)
    BY <1>3, <2>1, FS_Subset
  <2>3. \A u \in S \cup T : n[u] \in Int
    BY <1>2, <1>4, <2>1
  <2> QED
    BY <1>5, <2>1, <2>2, <2>3, SumUnion
<1> QED
  BY <1>2, <1>6, <1>7, <1>8 DEF U, n

LEMMA MoneyInit == Init => MoneyInv
<1> SUFFICES ASSUME Init PROVE MoneyInv
  OBVIOUS
<1>1. /\ bill \in [Orders -> Bills] /\ operation = {}
      /\ payment = [o \in Orders |->
           [status |-> IF o \in Cash THEN "pending" ELSE "paid", refunded |-> 0]]
  BY DEF Init, AfterSalesInit, OrdersInit
<1>2. ASSUME NEW o \in Orders
      PROVE  /\ payment[o].status \in PaymentStates
             /\ payment[o].refunded = PaidBack(Refunds(o))
             /\ payment[o].refunded = SumOf(Nets(bill[o]), Spent(o))
  <2>1. Refunds(o) = {} /\ Spent(o) = {}
    BY <1>1 DEF Refunds, Spent
  <2>2. payment[o].refunded = 0 /\ payment[o].status \in PaymentStates
    BY <1>1 DEF PaymentStates
  <2>3. PaidBack({}) = 0
    BY SumEmpty DEF PaidBack
  <2>4. SumOf(Nets(bill[o]), {}) = 0
    BY SumEmpty
  <2> QED
    BY <2>1, <2>2, <2>3, <2>4
<1> QED
  BY <1>1, <1>2, FS_EmptySet DEF MoneyInv

\* One refund more.
LEMMA PaidBackMore ==
  ASSUME NEW P, IsFiniteSet(P), NEW p, p \notin P,
         \A q \in P \cup {p} : q.amount \in Int
  PROVE  PaidBack(P \cup {p}) = PaidBack(P) + p.amount
<1> DEFINE f == [q \in P |-> q.amount]
           g == [q \in P \cup {p} |-> q.amount]
<1>1. \A q \in P : f[q] \in Int /\ g[q] = f[q]
  OBVIOUS
<1>2. g[p] = p.amount /\ g[p] \in Int /\ \A q \in P : g[q] \in Int
  OBVIOUS
<1> HIDE DEF f, g
<1>3. SumOf(g, P) = SumOf(f, P)
  BY <1>1, SumSame
<1>4. SumOf(g, P \cup {p}) = SumOf(g, P) + g[p]
  BY <1>2, SumAdd
<1> QED
  BY <1>2, <1>3, <1>4 DEF PaidBack, f, g

\* A step that leaves bills and refunds alone.
LEMMA MoneyKept ==
  ASSUME MoneyInv, UNCHANGED <<bill, operation>>,
         \A o \in Orders : /\ payment'[o].refunded = payment[o].refunded
                           /\ payment'[o].status \in PaymentStates
  PROVE  MoneyInv'
BY DEF MoneyInv, Refunds, Spent

\* The fulfilment touches a payment's status only.
LEMMA FulfilmentPays ==
  ASSUME LifeInv, MoneyInv, FulfilmentNext, NEW o \in Orders
  PROVE  payment'[o].refunded = payment[o].refunded /\ payment'[o].status \in PaymentStates
<1>1. /\ payment[o] = [status |-> payment[o].status, refunded |-> payment[o].refunded]
      /\ payment = [p \in Orders |-> payment[p]]
      /\ payment[o].status \in PaymentStates
  BY DEF LifeInv, PaymentsOK, Entry, MoneyInv
<1>2. ASSUME NEW p \in Orders, NEW st \in PaymentStates,
             payment' = [payment EXCEPT ![p].status = st]
      PROVE  payment'[o].refunded = payment[o].refunded /\ payment'[o].status \in PaymentStates
  BY <1>1, <1>2
<1>3. CASE payment' = payment
  BY <1>1, <1>3
<1>4. ASSUME NEW p \in Orders, Deliver(p)
      PROVE  \E st \in PaymentStates : payment' = [payment EXCEPT ![p].status = st]
  <2> DEFINE st == IF payment[p].status = "pending" THEN "paid" ELSE payment[p].status
  <2>1. st \in PaymentStates
    BY DEF PaymentStates, MoneyInv
  <2>2. payment' = [payment EXCEPT ![p].status = st]
    BY <1>4, <1>1 DEF Deliver, Settled
  <2> QED
    BY <2>1, <2>2
<1>5. ASSUME NEW p \in Orders, ConfirmCod(p)
      PROVE  payment' = [payment EXCEPT ![p].status = "paid"]
  BY <1>5 DEF ConfirmCod
<1>6. "paid" \in PaymentStates
  BY DEF PaymentStates
<1>7. \/ payment' = payment
      \/ \E p \in Orders : Deliver(p) \/ ConfirmCod(p)
  BY DEF FulfilmentNext, Pack, SetOut, FailDelivery, CancelOrder, Assign, Remit, SetStaff
<1> QED
  BY <1>2, <1>3, <1>4, <1>5, <1>6, <1>7

\* A refund gives back the worth of units that were not given back before.
LEMMA MoneyConfirmed ==
  ASSUME LifeInv, MoneyInv, NEW a \in Admins, ConfirmRefund(a)
  PROVE  MoneyInv'
<1>1. ClaimsOK /\ PaymentsOK
  BY DEF LifeInv
<1>2. PICK r \in DOMAIN request :
         /\ request[r].order \in Orders
         /\ \E p : /\ operation' = operation \cup {p}
                   /\ p.order = request[r].order
                   /\ p.units \subseteq Units(bill[p.order]) \ Spent(p.order)
                   /\ \A q \in operation : q.key # p.key
                   /\ p.amount = SumOf(Nets(bill[p.order]), p.units)
                   /\ payment' = [payment EXCEPT ![p.order] =
                                    Repaid(p.order, payment[p.order], p.amount)]
         /\ UNCHANGED <<order, bill>>
  BY <1>1, ConfirmFacts
<1>3. PICK p : /\ operation' = operation \cup {p}
               /\ p.order = request[r].order
               /\ p.units \subseteq Units(bill[p.order]) \ Spent(p.order)
               /\ \A q \in operation : q.key # p.key
               /\ p.amount = SumOf(Nets(bill[p.order]), p.units)
               /\ payment' = [payment EXCEPT ![p.order] =
                                Repaid(p.order, payment[p.order], p.amount)]
  BY <1>2
<1> DEFINE o == p.order
           b == bill[o]
<1>4. o \in Orders /\ o \in Claimed /\ b \in Bills
  BY <1>1, <1>2, <1>3, ClaimType DEF MoneyInv
<1>5. p \notin operation
  BY <1>3
<1>6. /\ payment'[o].refunded = payment[o].refunded + p.amount
      /\ payment'[o].status \in PaymentStates
      /\ \A x \in Orders \ {o} : payment'[x] = payment[x]
  <2>1. /\ payment'[o] = Repaid(o, payment[o], p.amount)
        /\ \A x \in Orders \ {o} : payment'[x] = payment[x]
    BY <1>1, <1>3, <1>4 DEF PaymentsOK
  <2> QED
    BY <2>1 DEF Repaid, PaymentStates
<1>7. Spent(o) \in SUBSET Units(b) /\ Spent(o)' = Spent(o) \cup p.units
  <2>1. Spent(o) \in SUBSET Units(b)
    BY DEF MoneyInv, Spent, Refunds
  <2>2. Refunds(o)' = Refunds(o) \cup {p}
    BY <1>3 DEF Refunds
  <2> QED
    BY <2>1, <2>2 DEF Spent
<1>8. /\ SumOf(Nets(b), p.units) \in Nat
      /\ SumOf(Nets(b), Spent(o) \cup p.units)
           = SumOf(Nets(b), Spent(o)) + SumOf(Nets(b), p.units)
  <2>1. p.units \in SUBSET (Units(b) \ Spent(o)) /\ p.units \in SUBSET Units(b)
    BY <1>3
  <2> DEFINE S == Spent(o)
             T == p.units
  <2>2. S \in SUBSET Units(b) /\ T \in SUBSET (Units(b) \ S) /\ T \in SUBSET Units(b)
    BY <1>7, <2>1
  <2> HIDE DEF S, T, b
  <2>3. SumOf(Nets(b), T) \in Nat
    BY <1>4, <2>2, NetSums
  <2>4. SumOf(Nets(b), S \cup T) = SumOf(Nets(b), S) + SumOf(Nets(b), T)
    BY <1>4, <2>2, NetSums
  <2> QED
    BY <2>3, <2>4 DEF S, T
<1>9. payment'[o].refunded = SumOf(Nets(bill'[o]), Spent(o)')
  BY <1>2, <1>3, <1>4, <1>6, <1>7, <1>8 DEF MoneyInv
<1>10. payment'[o].refunded = PaidBack(Refunds(o)')
  <2> DEFINE P == Refunds(o)
  <2>1. Refunds(o)' = P \cup {p} /\ p \notin P
    BY <1>3, <1>5 DEF Refunds
  <2>2. P \in SUBSET operation /\ IsFiniteSet(P)
    BY FS_Subset DEF MoneyInv, Refunds
  <2>3. ASSUME NEW q \in P \cup {p} PROVE q.amount \in Int
    <3>1. CASE q = p
      BY <1>3, <1>8, <3>1
    <3>2. CASE q \in P
      <4>1. q.order = o /\ q.units \in SUBSET Units(b) /\ q.amount = SumOf(Nets(b), q.units)
        BY <3>2 DEF MoneyInv, Refunds
      <4> HIDE DEF b
      <4> QED
        BY <1>4, <4>1, NetSums
    <3> QED
      BY <3>1, <3>2
  <2> HIDE DEF P
  <2>4. PaidBack(P \cup {p}) = PaidBack(P) + p.amount
    BY <2>1, <2>2, <2>3, PaidBackMore
  <2>5. payment[o].refunded = PaidBack(P)
    BY <1>4 DEF MoneyInv, P
  <2> QED
    BY <1>6, <2>1, <2>4, <2>5
<1>11. ASSUME NEW x \in Orders
       PROVE  /\ payment'[x].status \in PaymentStates
              /\ payment'[x].refunded = PaidBack(Refunds(x)')
              /\ payment'[x].refunded = SumOf(Nets(bill'[x]), Spent(x)')
  <2>1. CASE x = o
    BY <1>6, <1>9, <1>10, <2>1
  <2>2. CASE x # o
    <3>1. Refunds(x)' = Refunds(x)
      BY <1>3, <2>2 DEF Refunds
    <3>2. Spent(x)' = Spent(x) /\ bill' = bill
      BY <1>2, <3>1 DEF Spent
    <3> QED
      BY <1>6, <2>2, <3>1, <3>2 DEF MoneyInv
  <2> QED
    BY <2>1, <2>2
<1>12. ASSUME NEW q \in operation'
       PROVE  /\ q.order \in Claimed /\ q.units \subseteq Units(bill'[q.order])
              /\ q.amount = SumOf(Nets(bill'[q.order]), q.units)
  <2>1. CASE q \in operation
    BY <1>2, <2>1 DEF MoneyInv
  <2>2. CASE q = p
    BY <1>2, <1>3, <1>4, <2>2
  <2> QED
    BY <1>3, <2>1, <2>2
<1>13. IsFiniteSet(operation') /\ bill' \in [Orders -> Bills]
  BY <1>2, <1>3, FS_AddElement DEF MoneyInv
<1> QED
  BY <1>11, <1>12, <1>13 DEF MoneyInv

LEMMA MoneyStep == LifeInv /\ MoneyInv /\ [Next]_vars => MoneyInv'
<1> SUFFICES ASSUME LifeInv, MoneyInv, [Next]_vars PROVE MoneyInv'
  OBVIOUS
<1>1. ASSUME UNCHANGED <<payment, bill, operation>>
      PROVE  MoneyInv'
  BY <1>1, MoneyKept DEF MoneyInv
<1>2. CASE FulfilmentNext /\ UNCHANGED afterSales
  <2>1. UNCHANGED <<bill, operation>>
    BY <1>2 DEF afterSales
  <2> QED
    BY <1>2, <2>1, FulfilmentPays, MoneyKept
<1>3. CASE AfterSalesNext
  <2>1. \/ UNCHANGED <<payment, bill, operation>>
        \/ \E a \in Admins : ConfirmRefund(a)
    BY <1>3 DEF AfterSalesNext, CreateRequest, TransitionRequest, BeginRefund, DropRefund
  <2> QED
    BY <1>1, <2>1, MoneyConfirmed
<1>4. CASE UNCHANGED vars
  BY <1>1, <1>4 DEF vars, afterSales
<1> QED
  BY <1>2, <1>3, <1>4 DEF Next

LEMMA MoneyLives == Spec => []MoneyInv
<1> QED
  BY MoneyInit, MoneyStep, Lives, PTL DEF Spec

\* What a payment has given back is the sum of its refunds, and never more than the
\* merchandise cost the customer, however claims and refunds interleave.
THEOREM RefundsAddUp == Spec => []RefundsAccounted
<1>1. MoneyInv => RefundsAccounted
  <2> SUFFICES ASSUME MoneyInv, NEW o \in Orders
               PROVE  /\ payment[o].refunded =
                           SumOf([p \in Refunds(o) |-> p.amount], Refunds(o))
                      /\ payment[o].refunded <=
                           Subtotal(bill[o], Units(bill[o])) - bill[o].discount
    BY DEF RefundsAccounted
  <2>1. /\ payment[o].refunded = PaidBack(Refunds(o))
        /\ payment[o].refunded = SumOf(Nets(bill[o]), Spent(o))
        /\ bill[o] \in Bills
    BY DEF MoneyInv
  <2> DEFINE b == bill[o]
             S == Spent(o)
  <2>2. S \in SUBSET Units(b)
    BY DEF MoneyInv, Spent, Refunds
  <2>3. b \in Bills
    BY <2>1
  <2> HIDE DEF b, S
  <2>4. SumOf(Nets(b), S) <= Subtotal(b, Units(b)) - b.discount
    BY <2>2, <2>3, NetSums
  <2> QED
    BY <2>1, <2>4 DEF PaidBack, b, S
<1> QED
  BY <1>1, MoneyLives, PTL

\* The units of every order are worth, together, what its merchandise cost the
\* customer, and each within a dong of its proportional share.
THEOREM AllocationsFair == Spec => []AllocationFair
<1>1. MoneyInv => AllocationFair
  <2> SUFFICES ASSUME MoneyInv, NEW o \in Orders
               PROVE  LET b == bill[o]
                          U == Units(b)
                          sub == Subtotal(b, U)
                      IN  /\ SumOf(Nets(b), U) = sub - b.discount
                          /\ \A u \in U :
                               /\ Nets(b)[u] \in 0 .. Gross(b, u)
                               /\ Nets(b)[u] * sub - Gross(b, u) * (sub - b.discount)
                                    \in -sub .. sub
    BY DEF AllocationFair
  <2> DEFINE b == bill[o]
             sub == Subtotal(b, Units(b))
  <2>1. b \in Bills
    BY DEF MoneyInv
  <2> HIDE DEF b
  <2>2. IsBill(b) /\ b.discount <= sub
    BY <2>1, BillFacts
  <2>3. /\ SumOf(Nets(b), Units(b)) = sub - b.discount
        /\ \A u \in Units(b) :
             /\ Nets(b)[u] \in 0 .. Gross(b, u)
             /\ Nets(b)[u] * sub - Gross(b, u) * (sub - b.discount) \in -sub .. sub
    BY <2>2, NetFacts
  <2> QED
    BY <2>3 DEF b
<1> QED
  BY <1>1, MoneyLives, PTL

\* Orders, payments, claims and refunds keep their types: an amount given back is
\* never negative, and a payment's status is one of the table's.
THEOREM LifecycleTypes == Spec => []TypeOK
<1>1. LifeInv /\ RefundInv /\ MoneyInv => TypeOK
  <2> SUFFICES ASSUME LifeInv, RefundInv, MoneyInv PROVE TypeOK
    OBVIOUS
  <2>1. OrdersOK
    <3>1. ASSUME NEW o \in Orders
          PROVE  payment[o] \in [status : PaymentStates, refunded : Nat]
      <4> DEFINE b == bill[o]
                 S == Spent(o)
      <4>1. b \in Bills /\ S \in SUBSET Units(b)
        BY DEF MoneyInv, Spent, Refunds
      <4>2. payment[o].refunded = SumOf(Nets(b), S) /\ payment[o].status \in PaymentStates
        BY DEF MoneyInv
      <4> HIDE DEF b, S
      <4>3. SumOf(Nets(b), S) \in Nat
        BY <4>1, NetSums
      <4>4. payment[o] = [status |-> payment[o].status, refunded |-> payment[o].refunded]
        BY DEF LifeInv, PaymentsOK, Entry
      <4> QED
        BY <4>2, <4>3, <4>4
    <3> QED
      BY <3>1 DEF OrdersOK, LifeInv, PaymentsOK
  <2>2. \A r \in DOMAIN request : /\ request[r].order \in Claimed
                                  /\ request[r].quantity \in Asks
                                  /\ request[r].status \in RequestStates
    BY ClaimType DEF LifeInv, Claim
  <2>3. ASSUME NEW p \in operation
        PROVE  p.amount \in Nat
    <3> DEFINE b == bill[p.order]
    <3>1. /\ b \in Bills /\ p.units \in SUBSET Units(b) /\ p.order \in Orders
          /\ p.amount = SumOf(Nets(b), p.units)
      BY Constants DEF MoneyInv
    <3> HIDE DEF b
    <3> QED
      BY <3>1, NetSums
  <2> QED
    BY <2>1, <2>2, <2>3 DEF TypeOK, LifeInv, RefundInv, MoneyInv
<1>2. Spec => []RefundInv
  BY RefundsLive
<1> QED
  BY <1>1, <1>2, Lives, MoneyLives, PTL
=============================================================================
