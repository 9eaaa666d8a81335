----------------------------- MODULE AfterSales -----------------------------
(***************************************************************************)
(* Returns and warranty claims of delivered orders, and the transfers that *)
(* refund them.  Claims and status changes lock what they decide on.  A    *)
(* refund looks the request up before it locks it, so the operations it    *)
(* compares its key and reference with are those of its snapshot; request, *)
(* payment and refunded units are read under locks.                        *)
(*                                                                         *)
(* Deadlines only make fewer claims possible, and a claim's kind changes   *)
(* nothing else; neither is modelled.  The provider's own refund endpoint  *)
(* answers 410 and is left out.                                            *)
(***************************************************************************)
EXTENDS Orders, Sequences, RefundAllocation

CONSTANTS
  Bills,        \* bound: what orders can contain: items, prices and discount
  Asks,         \* quantities a claim may be about, by order item
  Claimed,      \* bound: the orders claims are made about
  MaxRequests,  \* bound: claims
  Keys,         \* bound: idempotency keys of refunds
  References,   \* bound: references of their transfers
  Admins        \* bound: refunds being recorded at the same time

ASSUME AfterSalesAssumption ==
  /\ Claimed \subseteq Orders
  /\ MaxRequests \in Nat
  /\ \A b \in Bills, o \in Orders :
       /\ IsBill(b)
       /\ b.discount <= Subtotal(b, Units(b))
       /\ Subtotal(b, Units(b)) - b.discount <= Amount[o]

VARIABLES
  bill,       \* order_items and the merchandise discount, as they were sold
  request,    \* after_sales_requests with their items, oldest first
  operation,  \* manual_refund_operations with their units
  refunding   \* the refund an administrator is recording, and what it saw

afterSales == <<bill, request, operation, refunding>>

RequestStates == {"REQUESTED", "APPROVED", "REJECTED", "RECEIVED",
                  "REFUND_PENDING", "REFUNDED", "CLOSED"}

\* An administrator who is not recording a refund.
Idle == [request |-> 0]

AfterSalesInit ==
  /\ bill \in [Orders -> Bills]
  /\ request = <<>>
  /\ operation = {}
  /\ refunding = [a \in Admins |-> Idle]

-----------------------------------------------------------------------------
(* Claims *)

\* getActiveRequestedQuantities.
Requested(o, i) ==
  SumOf([r \in DOMAIN request |-> request[r].quantity[i]],
    {r \in DOMAIN request : /\ request[r].order = o
                            /\ request[r].status \notin {"REJECTED", "CLOSED"}})

\* Mutant of Eligible: any order that was not cancelled will do.
EligibleLive(o) == order[o] # "CANCELED"

Eligible(o) == order[o] = "DONE"

CreateRequest(o, quantity) ==
  /\ Len(request) < MaxRequests
  /\ Eligible(o)
  /\ \A i \in DOMAIN quantity :
       quantity[i] + Requested(o, i) <= bill[o].quantity[i]
  /\ request' = Append(request,
       [order |-> o, quantity |-> quantity, status |-> "REQUESTED"])
  /\ UNCHANGED <<order, payment, bill, operation, refunding>>

\* The table of transitions an administrator may make.
After(st) ==
  CASE st = "REQUESTED" -> {"APPROVED", "REJECTED"}
    [] st = "APPROVED" -> {"RECEIVED", "REJECTED"}
    [] st = "RECEIVED" -> {"REFUND_PENDING", "CLOSED"}
    [] st = "REFUND_PENDING" -> {"REFUNDED"}
    [] st = "REFUNDED" -> {"CLOSED"}
    [] OTHER -> {}

TransitionRequest(r, to) ==
  /\ r \in DOMAIN request
  /\ to \in After(request[r].status)
  /\ request' = [request EXCEPT ![r].status = to]
  /\ UNCHANGED <<order, payment, bill, operation, refunding>>

-----------------------------------------------------------------------------
(* Refunds *)

\* The snapshot of a refund opens when it looks the request up.
BeginRefund(a, r, key, reference) ==
  /\ refunding[a] = Idle
  /\ r \in DOMAIN request
  /\ refunding' = [refunding EXCEPT ![a] =
       [request |-> r, key |-> key, reference |-> reference, seen |-> operation]]
  /\ UNCHANGED <<order, payment, bill, request, operation>>

Refunds(o) == {p \in operation : p.order = o}
Spent(o) == UNION {p.units : p \in Refunds(o)}

\* Mutant of Chosen: units refunded before are chosen again.
ChosenAgain(r) ==
  {u \in Units(bill[request[r].order]) : u[2] < request[r].quantity[u[1]]}

\* The units a request gives back: of each item the first that were not
\* refunded, as many as it asks for.
Chosen(r) ==
  LET o == request[r].order
      free == Units(bill[o]) \ Spent(o)
  IN  {u \in free : Cardinality({v \in free : v[1] = u[1] /\ v[2] < u[2]})
                      < request[r].quantity[u[1]]}

\* Every unit asked for is there to give back.
Enough(r, units) ==
  \A i \in DOMAIN request[r].quantity :
    Cardinality({u \in units : u[1] = i}) = request[r].quantity[i]

Worth(o, units) == SumOf(Nets(bill[o]), units)

\* Mutant of Fresh: only the snapshot is looked at.
FreshSeen(d) == \A p \in d.seen : p.key # d.key /\ p.reference # d.reference

\* manual_refund_operations has unique keys and references: what the snapshot
\* does not show fails when it is inserted.
Fresh(d) ==
  \A p \in operation : p.key # d.key /\ p.reference # d.reference

RefundStates == {"RECEIVED", "REFUND_PENDING"}

Confirmable(a) ==
  LET d == refunding[a]
      r == d.request
      o == request[r].order
      x == Worth(o, Chosen(r))
  IN  /\ Fresh(d)
      /\ request[r].status \in RefundStates
      /\ payment[o].status \in {"paid", "partially_refunded"}
      /\ Enough(r, Chosen(r))
      /\ x >= 1
      /\ payment[o].refunded + x <= Amount[o]

\* Mutant of Repaid: a refund overwrites the sum of those before it.
RepaidLast(o, p, x) ==
  [status |-> IF x >= Amount[o] THEN "refunded" ELSE "partially_refunded",
   refunded |-> x]

Repaid(o, p, x) ==
  [status |-> IF p.refunded + x >= Amount[o] THEN "refunded"
              ELSE "partially_refunded",
   refunded |-> p.refunded + x]

ConfirmRefund(a) ==
  /\ refunding[a] # Idle
  /\ Confirmable(a)
  /\ LET d == refunding[a]
         o == request[d.request].order
         units == Chosen(d.request)
     IN  /\ operation' = operation \cup
              {[request |-> d.request, order |-> o, key |-> d.key,
                reference |-> d.reference, units |-> units,
                amount |-> Worth(o, units)]}
         /\ payment' = [payment EXCEPT ![o] = Repaid(o, @, Worth(o, units))]
         /\ request' = [request EXCEPT ![d.request].status = "REFUNDED"]
  /\ refunding' = [refunding EXCEPT ![a] = Idle]
  /\ UNCHANGED <<order, bill>>

\* A repetition, a conflict, or a process that dies: nothing is written.
DropRefund(a) ==
  /\ refunding[a] # Idle
  /\ refunding' = [refunding EXCEPT ![a] = Idle]
  /\ UNCHANGED <<order, payment, bill, request, operation>>

AfterSalesNext ==
  \/ \E o \in Claimed, quantity \in Asks : CreateRequest(o, quantity)
  \/ \E r \in DOMAIN request, to \in RequestStates : TransitionRequest(r, to)
  \/ \E a \in Admins :
       \/ \E r \in DOMAIN request, key \in Keys, t \in References :
            BeginRefund(a, r, key, t)
       \/ ConfirmRefund(a) \/ DropRefund(a)
=============================================================================
