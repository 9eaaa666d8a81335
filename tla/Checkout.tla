------------------------------ MODULE Checkout ------------------------------
(***************************************************************************)
(* The PayOS checkout of the store: stock, checkout reservations, payment  *)
(* attempts and the orders they turn into.                                 *)
(*                                                                         *)
(* A MySQL transaction of the server is one atomic step where it locks the *)
(* rows it decides on with SELECT ... FOR UPDATE before it reads them.  The *)
(* one that turns a paid attempt into an order is two steps: it reads the   *)
(* reservations from the snapshot its first plain SELECT opens (MySQL's     *)
(* REPEATABLE READ) and locks the products only after that.  A request      *)
(* handler or a durable task runs several transactions and calls PayOS in  *)
(* between; what it carries from one to the next is its job in `work`, so  *)
(* any two handlers interleave between transactions and a handler may die  *)
(* there.  PayOS itself (`provider`, `notices`) is external: it is         *)
(* modelled from what the server asks of it and handles from it.           *)
(***************************************************************************)
EXTENDS FiniteSets, Sums

CONSTANTS
  Products,      \* the catalogue
  InitialStock,  \* physical stock of each product at the start
  Carts,         \* the carts a customer may check out
  Checkouts,     \* PayOS checkouts: one pending_checkouts row and its attempt
  Expected,      \* expected_amount_vnd of an attempt, in units of money
  Amounts,       \* sizes of one bank transfer
  Refunds,       \* sizes of one refund an operator records
  Identities,    \* whether provider evidence matches code, link and currency
  OrderIds,      \* order ids, allocated in increasing order
  MaxCash,       \* bound: cash-on-delivery orders
  MaxCancels,    \* bound: checkouts whose customer asks to cancel
  MaxLapses,     \* bound: checkouts whose reservation lapses
  Handlers,      \* bound: request handlers and tasks running at one moment
  MaxPaid,       \* bound: total transferred to one payment link
  MaxEvidence,   \* bound: distinct observations recorded per attempt
  MaxCrashes     \* bound: handlers that die between two transactions

ASSUME MoneyAssumption ==
  /\ Expected \in Nat \ {0}
  /\ Amounts \subseteq Nat \ {0}
  /\ Refunds \subseteq Nat \ {0}
  /\ MaxPaid \in Nat
ASSUME StockAssumption ==
  /\ InitialStock \in [Products -> Nat]
  /\ Carts \subseteq [Products -> Nat]
ASSUME OrderAssumption == OrderIds \subseteq Nat \ {0}
ASSUME BoundAssumption ==
  /\ Identities \subseteq BOOLEAN
  /\ MaxCash \in Nat
  /\ MaxCancels \in Nat
  /\ MaxLapses \in Nat
  /\ MaxEvidence \in Nat
  /\ MaxCrashes \in Nat

VARIABLES
  stock,     \* products.stock
  checkout,  \* pending_checkouts with its inventory_reservations
  attempt,   \* payment_attempts with its observations and refunds
  orders,    \* orders with their items
  provider,  \* the payment link at PayOS
  notices,   \* signed webhooks PayOS has emitted; each may arrive again
  work,      \* the job each running request handler or task is at
  crashes    \* handlers that died so far

vars == <<stock, checkout, attempt, orders, provider, notices, work, crashes>>

-----------------------------------------------------------------------------
(* Values *)

NoOrder == 0
Cash == "CASH"   \* source of an order that came from no checkout
ASSUME SourceAssumption == Cash \notin Checkouts

CheckoutStatus == {"NONE", "PENDING", "RELEASED", "CONSUMED"}
PaymentState == {"UNKNOWN", "PENDING", "PAID", "CANCELLED", "MISMATCH"}
OrderState == {"NOT_CREATED", "CREATED", "REVIEW_REQUIRED"}
ResolutionState == {"NONE", "OPEN", "RESOLVED"}
LinkStatus == {"NONE", "PENDING", "UNDERPAID", "PAID", "CANCELLED"}

\* What a webhook or a lookup reports: the provider's status word, the link's
\* amount and the money paid, whether identity and currency agree with the
\* attempt, and the transfer a webhook is about (0 for a lookup).
Evidence == [status : LinkStatus \ {"NONE"}, reported : Nat, paid : Nat,
             ok : BOOLEAN, ref : Nat]

\* Where evidence comes from; a source key repeats exactly when it and the
\* evidence do.
Source == {"WEBHOOK", "LOOKUP", "CANCEL_LOOKUP"}
Via == {"WEBHOOK", "RECONCILE", "CANCEL", "CANCEL_CALL"}
SourceOf(via) == IF via = "WEBHOOK" THEN "WEBHOOK"
                 ELSE IF via = "CANCEL" THEN "CANCEL_LOOKUP" ELSE "LOOKUP"

Attempt == [pay : PaymentState, ord : OrderState, res : ResolutionState,
            received : Nat, refunded : Nat, order : OrderIds \cup {NoOrder},
            cancel : BOOLEAN, seen : SUBSET (Source \X Evidence)]
NewAttempt == [pay |-> "PENDING", ord |-> "NOT_CREATED", res |-> "NONE",
               received |-> 0, refunded |-> 0, order |-> NoOrder,
               cancel |-> FALSE, seen |-> {}]

Empty == [p \in Products |-> 0]
Checkout == [status : CheckoutStatus, live : BOOLEAN, cart : [Products -> Nat]]
NewCheckout == [status |-> "NONE", live |-> FALSE, cart |-> Empty]

Order == [status : {"NONE", "PENDING", "CANCELED"},
          src : Checkouts \cup {Cash}, cart : [Products -> Nat]]
Unused == [status |-> "NONE", src |-> Cash, cart |-> Empty]

ObserveJob == [step : {"observe"}, via : Via, c : Checkouts, ev : Evidence]
FinalizeJob == [step : {"finalize"}, c : Checkouts, amount : Nat]
ReleaseJob == [step : {"release"}, c : Checkouts, review : BOOLEAN]
ReviewJob == [step : {"review"}, c : Checkouts]
CommitJob == [step : {"commit"}, c : Checkouts, avail : BOOLEAN]
Idle == [step |-> "idle"]
Job == {Idle} \cup ObserveJob \cup FinalizeJob \cup CommitJob
       \cup ReleaseJob \cup ReviewJob

Notice == [c : Checkouts, amount : Nat, ref : Nat]

TypeOK ==
  /\ stock \in [Products -> Nat]
  /\ checkout \in [Checkouts -> Checkout]
  /\ attempt \in [Checkouts -> Attempt]
  /\ orders \in [OrderIds -> Order]
  /\ provider \in [Checkouts -> [status : LinkStatus, paid : Nat]]
  /\ notices \subseteq Notice
  /\ work \in [Handlers -> Job]
  /\ crashes \in Nat

Init ==
  /\ stock = InitialStock
  /\ checkout = [c \in Checkouts |-> NewCheckout]
  /\ attempt = [c \in Checkouts |-> NewAttempt]
  /\ orders = [o \in OrderIds |-> Unused]
  /\ provider = [c \in Checkouts |-> [status |-> "NONE", paid |-> 0]]
  /\ notices = {}
  /\ work = [h \in Handlers |-> Idle]
  /\ crashes = 0

-----------------------------------------------------------------------------
(* Stock and reservations *)

\* A reservation counts while it is PENDING and expires_at has not passed.
Holding(c) == checkout[c].status = "PENDING" /\ checkout[c].live

HeldUnits(p, C) ==
  SumOf([c \in Checkouts |-> checkout[c].cart[p]], {c \in C : Holding(c)})

\* Mutant of InStock: other customers' reservations are not subtracted.
InStockOnShelf(cart, C) ==
  \A p \in Products : cart[p] > 0 => stock[p] >= cart[p]

\* Every item of the cart fits in the stock that the active reservations of
\* the checkouts C leave.
InStock(cart, C) ==
  \A p \in Products : cart[p] > 0 => stock[p] - HeldUnits(p, C) >= cart[p]

\* Mutant of CanTake: UPDATE without AND stock >= ?.
CanTakeUnguarded(cart) == cart \in Carts

\* UPDATE products SET stock = stock - ? WHERE id = ? AND stock >= ?
CanTake(cart) == \A p \in Products : stock[p] >= cart[p]
\* Mutant of Take: one unit per order line, whatever its quantity.
TakeOnePerLine(cart) ==
  [p \in Products |-> IF cart[p] > 0 THEN stock[p] - 1 ELSE stock[p]]

Take(cart) == [p \in Products |-> stock[p] - cart[p]]

FreshOrder(o) ==
  /\ orders[o] = Unused
  /\ \A q \in OrderIds : q < o => orders[q] # Unused

\* reservePayOSInventory: one transaction locks the products, subtracts the
\* active reservations and inserts the reservation and its payment attempt.
Reserve(c, cart) ==
  /\ checkout[c].status = "NONE"
  /\ InStock(cart, Checkouts)
  /\ checkout' = [checkout EXCEPT
       ![c] = [status |-> "PENDING", live |-> TRUE, cart |-> cart]]
  /\ UNCHANGED <<stock, attempt, orders, provider, notices, work, crashes>>

\* expires_at passes; the row keeps its status.
LapseHold(c) ==
  /\ Holding(c)
  /\ Cardinality({d \in Checkouts : checkout[d].status # "NONE" /\ ~checkout[d].live})
       < MaxLapses
  /\ checkout' = [checkout EXCEPT ![c].live = FALSE]
  /\ UNCHANGED <<stock, attempt, orders, provider, notices, work, crashes>>

\* A cash-on-delivery purchase, guest or signed in.
CashPurchase(cart) ==
  /\ Cardinality({o \in OrderIds : orders[o] # Unused /\ orders[o].src = Cash})
       < MaxCash
  /\ InStock(cart, Checkouts)
  /\ CanTake(cart)
  /\ \E o \in OrderIds :
       /\ FreshOrder(o)
       /\ orders' = [orders EXCEPT
            ![o] = [status |-> "PENDING", src |-> Cash, cart |-> cart]]
  /\ stock' = Take(cart)
  /\ UNCHANGED <<checkout, attempt, provider, notices, work, crashes>>

\* Cancelling an order restores its stock.  A paid PayOS order is refused, so
\* only cash orders reach it here; no delivery has been assigned yet.
CancelOrder(o) ==
  /\ orders[o].status = "PENDING"
  /\ orders[o].src = Cash
  /\ orders' = [orders EXCEPT ![o].status = "CANCELED"]
  /\ stock' = [p \in Products |-> stock[p] + orders[o].cart[p]]
  /\ UNCHANGED <<checkout, attempt, provider, notices, work, crashes>>

-----------------------------------------------------------------------------
(* PayOS, external: what the server's calls and handlers allow it to do. *)

\* PayOS accepts the create call for a link.  The server looks at the attempt and
\* its expiry, not at the reservation: one released by a cancellation window may
\* still get a link.  Module CheckoutSession has the requests that make the call.
CreateLink(c) ==
  /\ checkout[c].status # "NONE" /\ checkout[c].live
  /\ attempt[c].pay \in {"PENDING", "UNKNOWN"}
  /\ provider[c].status = "NONE"
  /\ provider' = [provider EXCEPT ![c].status = "PENDING"]
  /\ UNCHANGED <<stock, checkout, attempt, orders, notices, work, crashes>>

LinkAfter(status, paid) ==
  IF status = "CANCELLED" THEN "CANCELLED"
  ELSE IF paid >= Expected THEN "PAID" ELSE "UNDERPAID"

\* The customer transfers money; a transfer already under way may still land
\* on a cancelled link.  PayOS emits one signed webhook per transfer.
Transfer(c, a) ==
  /\ provider[c].status # "NONE"
  /\ provider[c].paid + a <= MaxPaid
  /\ LET paid == provider[c].paid + a
         status == LinkAfter(provider[c].status, paid) IN
       /\ provider' = [provider EXCEPT
            ![c] = [status |-> status, paid |-> paid]]
       /\ notices' = notices \cup {[c |-> c, amount |-> a, ref |-> paid]}
  /\ UNCHANGED <<stock, checkout, attempt, orders, work, crashes>>

LinkExpires(c) ==
  /\ provider[c].status = "PENDING"
  /\ provider' = [provider EXCEPT ![c].status = "CANCELLED"]
  /\ UNCHANGED <<stock, checkout, attempt, orders, notices, work, crashes>>

-----------------------------------------------------------------------------
(* Handlers and tasks start: they read PayOS and hold the answer as a job. *)

Start(j) ==
  \E h \in Handlers : work[h] = Idle /\ work' = [work EXCEPT ![h] = j]

\* Mutant of Locked: the attempt is read without FOR UPDATE.
NeverLocked(c) == c \notin Checkouts

\* A transaction that has opened its snapshot holds the locks of the attempt and
\* of the pending checkout.
Locked(c) == \E h \in Handlers : work[h].step = "commit" /\ work[h].c = c

At(h, step) == work[h].step = step
Done(h) == work' = [work EXCEPT ![h] = Idle]

LookupOf(c, ok) == [status |-> provider[c].status, reported |-> Expected,
                    paid |-> provider[c].paid, ok |-> ok, ref |-> 0]
StartObserve(c, via, ev) ==
  /\ \/ <<SourceOf(via), ev>> \in attempt[c].seen
     \/ Cardinality(attempt[c].seen) < MaxEvidence
  /\ Start([step |-> "observe", via |-> via, c |-> c, ev |-> ev])

\* A webhook arrives, for the first time or again.  The inbox lets every repeat of
\* a payment through, of one that was concluded too (module WebhookInbox), so it
\* may be processed afresh at any point after any of its handler's transactions.
DeliverNotice(n) ==
  /\ n \in notices
  /\ \E ok \in Identities :
       StartObserve(n.c, "WEBHOOK",
         [status |-> "PAID", reported |-> n.amount, paid |-> n.amount,
          ok |-> ok, ref |-> n.ref])
  /\ UNCHANGED <<stock, checkout, attempt, orders, provider, notices, crashes>>

\* A reconciliation task or an operator looks the link up.
Lookup(c) ==
  /\ provider[c].status # "NONE"
  /\ \E ok \in Identities : StartObserve(c, "RECONCILE", LookupOf(c, ok))
  /\ UNCHANGED <<stock, checkout, attempt, orders, provider, notices, crashes>>

\* Mutant of Cancelling: attempts whose link was never created are left out.
CancellingLinked(c) ==
  attempt[c].cancel /\ attempt[c].ord # "CREATED" /\ provider[c].status # "NONE"

Cancelling(c) == attempt[c].cancel /\ attempt[c].ord # "CREATED"

\* A cancellation task verifies the link before it cancels anything.
CancelLookup(c) ==
  /\ Cancelling(c)
  /\ provider[c].status # "NONE"
  /\ \E ok \in Identities : StartObserve(c, "CANCEL", LookupOf(c, ok))
  /\ UNCHANGED <<stock, checkout, attempt, orders, provider, notices, crashes>>

\* The task asks PayOS to cancel the link.  Only an answer that says PAID is
\* recorded; anything else is left to the next verification.
CancelCall(c) ==
  /\ Cancelling(c)
  /\ \/ /\ provider[c].status \in {"PENDING", "UNDERPAID"}
        /\ provider' = [provider EXCEPT ![c].status = "CANCELLED"]
        /\ UNCHANGED work
     \/ /\ provider[c].status = "PAID"
        /\ \E ok \in Identities :
             StartObserve(c, "CANCEL_CALL", LookupOf(c, ok))
        /\ UNCHANGED provider
  /\ UNCHANGED <<stock, checkout, attempt, orders, notices, crashes>>

\* Ten minutes after the request the task stops waiting for PayOS.
CancelWindow(c) ==
  /\ Cancelling(c)
  /\ Start([step |-> "release", c |-> c, review |-> TRUE])
  /\ UNCHANGED <<stock, checkout, attempt, orders, provider, notices, crashes>>

\* An operator retries fulfilment; the checks and the audit row are one
\* transaction, the order is created by the next.
Retryable(a) ==
  /\ a.pay = "PAID" /\ a.ord # "CREATED" /\ a.res \in {"NONE", "OPEN"}
  /\ a.order = NoOrder /\ ~a.cancel
  /\ a.received = Expected /\ a.refunded = 0
AdminRetry(c) ==
  /\ Retryable(attempt[c]) /\ ~Locked(c)
  /\ Start([step |-> "finalize", c |-> c, amount |-> attempt[c].received])
  /\ UNCHANGED <<stock, checkout, attempt, orders, provider, notices, crashes>>

\* A handler dies between two transactions; nothing of it is kept.
Crash(h) ==
  /\ work[h] # Idle
  /\ crashes < MaxCrashes
  /\ Done(h)
  /\ crashes' = crashes + 1
  /\ UNCHANGED <<stock, checkout, attempt, orders, provider, notices>>

-----------------------------------------------------------------------------
(* recordObservation: one transaction folds evidence into the attempt. *)

\* Mutant of Trusted: money seen on another link counts.
TrustedAnyLink(ev) == ev.status = "PAID" /\ ev.reported > 0 /\ ev.paid > 0

Trusted(ev) ==
  ev.status = "PAID" /\ ev.ok /\ ev.reported > 0 /\ ev.paid > 0
Exact(ev) == Trusted(ev) /\ ev.reported = Expected /\ ev.paid = Expected
NoFunds(ev) == ev.ok /\ ev.reported = Expected /\ ev.paid = 0

CancelConflict(a, ev) ==
  /\ ev.status = "CANCELLED"
  /\ \/ ~NoFunds(ev)
     \/ a.received > 0 \/ a.pay = "PAID" \/ a.order # NoOrder
Conflicting(a, ev) ==
  \/ ~ev.ok
  \/ CancelConflict(a, ev)
  \/ ev.status = "PAID" /\ ~Exact(ev)

\* Mutant of NextPay: the latest word of the provider wins.
NextPayLatest(a, ev) ==
  IF Conflicting(a, ev) THEN "MISMATCH"
  ELSE IF ev.status = "UNDERPAID" THEN "UNKNOWN" ELSE ev.status

\* PAID absorbs; a provider word the store does not know becomes UNKNOWN.
NextPay(a, ev) ==
  IF a.pay = "PAID" THEN "PAID"
  ELSE IF Conflicting(a, ev) THEN "MISMATCH"
  ELSE IF ev.status = "UNDERPAID" THEN "UNKNOWN" ELSE ev.status

\* GREATEST(verified_received_amount_vnd, ?): evidence reports totals.
NextReceived(a, ev) ==
  IF Trusted(ev) /\ ev.paid > a.received THEN ev.paid ELSE a.received

Replayed(a, j) == <<SourceOf(j.via), j.ev>> \in a.seen

Record(a, j) ==
  IF Replayed(a, j) THEN a
  ELSE LET conflict == Conflicting(a, j.ev) IN
    [pay      |-> NextPay(a, j.ev),
     ord      |-> IF conflict /\ a.ord # "CREATED"
                  THEN "REVIEW_REQUIRED" ELSE a.ord,
     res      |-> IF conflict /\ a.res = "NONE" THEN "OPEN" ELSE a.res,
     received |-> NextReceived(a, j.ev),
     refunded |-> a.refunded,
     order    |-> a.order,
     cancel   |-> a.cancel \/ (j.ev.status = "CANCELLED" /\ ~conflict),
     seen     |-> a.seen \cup {<<SourceOf(j.via), j.ev>>}]

\* Mutant of Clear: a repeated observation ends the handler.
ClearIfNew(a, j) == ~Replayed(a, j) /\ ~Conflicting(a, j.ev)

\* What the handler does next, from the projection b the transaction returned.
\* A replay is returned as not conflicting.  The server reads the cancellation
\* request just before the transaction; a request in between has the effect of
\* one just after it, which finalization finds.
Clear(a, j) == Replayed(a, j) \/ ~Conflicting(a, j.ev)
Finalizes(j, b) ==
  /\ b.pay = "PAID" /\ ~b.cancel
  /\ \/ j.via = "WEBHOOK"
     \/ j.via = "RECONCILE" /\ j.ev.status # "CANCELLED"
Releases(j, b) ==
  /\ j.ev.status = "CANCELLED" /\ NoFunds(j.ev)
  /\ \/ j.via = "RECONCILE" /\ b.pay = "CANCELLED"
     \/ j.via = "CANCEL" /\ b.pay \notin {"PAID", "MISMATCH"}
Reviews(j, b) ==
  /\ b.pay = "PAID"
  /\ \/ j.via = "WEBHOOK" /\ b.cancel
     \/ j.via \in {"CANCEL", "CANCEL_CALL"}

\* The amount offered to finalization; evidence about another link or currency
\* never matches the attempt there.
Offered(ev) == IF ev.ok THEN ev.reported ELSE 0

FollowUp(j, b) ==
  IF Finalizes(j, b)
  THEN [step |-> "finalize", c |-> j.c, amount |-> Offered(j.ev)]
  ELSE IF Releases(j, b)
  THEN [step |-> "release", c |-> j.c, review |-> FALSE]
  ELSE IF Reviews(j, b) THEN [step |-> "review", c |-> j.c] ELSE Idle

Observe(h) ==
  /\ At(h, "observe") /\ ~Locked(work[h].c)
  /\ LET j == work[h]
         a == attempt[j.c]
         b == Record(a, j)
     IN /\ attempt' = [attempt EXCEPT ![j.c] = b]
        /\ work' = [work EXCEPT
             ![h] = IF Clear(a, j) THEN FollowUp(j, b) ELSE Idle]
  /\ UNCHANGED <<stock, checkout, orders, provider, notices, crashes>>

-----------------------------------------------------------------------------
(* finalizePayOSAttemptCheckout: the one place a paid attempt becomes an    *)
(* order.  The conditions are in the order of the code's early returns.     *)

\* Mutant of Settled: a partial refund does not count.
SettledInFull(a) == a.res = "RESOLVED"

Settled(a) == a.refunded > 0 \/ a.res = "RESOLVED"
Matches(a, amount) ==
  a.pay = "PAID" /\ a.received = Expected /\ amount = Expected
AlreadyCreated(a) == a.ord = "CREATED" /\ a.order # NoOrder
Payable(c) == checkout[c].status = "PENDING"
MayCreate(c, amount) ==
  /\ ~Settled(attempt[c]) /\ Matches(attempt[c], amount)
  /\ ~AlreadyCreated(attempt[c])
  /\ ~attempt[c].cancel /\ Payable(c)
MayReplay(c, amount) ==
  /\ ~Settled(attempt[c]) /\ Matches(attempt[c], amount)
  /\ AlreadyCreated(attempt[c])

\* setPaymentAttemptOrderState writes REVIEW_REQUIRED whatever stood there.
Withheld(a) == [a EXCEPT !.ord = "REVIEW_REQUIRED"]
SendToReview(c) == attempt' = [attempt EXCEPT ![c] = Withheld(@)]

Finalizing(h) == At(h, "finalize") /\ ~Locked(work[h].c)

FinalizeReview(h) ==
  /\ Finalizing(h)
  /\ ~MayCreate(work[h].c, work[h].amount)
  /\ ~MayReplay(work[h].c, work[h].amount)
  /\ SendToReview(work[h].c)
  /\ Done(h)
  /\ UNCHANGED <<stock, checkout, orders, provider, notices, crashes>>

\* The order exists already: it is returned and nothing is written.
FinalizeReplay(h) ==
  /\ Finalizing(h)
  /\ MayReplay(work[h].c, work[h].amount)
  /\ Done(h)
  /\ UNCHANGED <<stock, checkout, attempt, orders, provider, notices, crashes>>

\* The transaction locks the attempt and the checkout and opens its snapshot
\* with the plain SELECT for an existing order; the availability it is going to
\* read, of stock and of the other checkouts' holds, is of this moment.
OpenSnapshot(h) ==
  /\ Finalizing(h)
  /\ MayCreate(work[h].c, work[h].amount)
  /\ LET c == work[h].c IN
       work' = [work EXCEPT ![h] =
         [step |-> "commit", c |-> c,
          avail |-> InStock(checkout[c].cart, Checkouts \ {c})]]
  /\ UNCHANGED <<stock, checkout, attempt, orders, provider, notices, crashes>>

\* The products are locked and the transaction decides.
CommitReview(h) ==
  /\ At(h, "commit")
  /\ ~work[h].avail
  /\ SendToReview(work[h].c)
  /\ Done(h)
  /\ UNCHANGED <<stock, checkout, orders, provider, notices, crashes>>

\* The guarded decrement finds too little stock: everything is rolled back, the
\* webhook answers 500 and a task retries.
CommitRollback(h) ==
  /\ At(h, "commit")
  /\ work[h].avail
  /\ ~CanTake(checkout[work[h].c].cart)
  /\ Done(h)
  /\ UNCHANGED <<stock, checkout, attempt, orders, provider, notices, crashes>>

\* assignPayOSAttempt and setPaymentAttemptOrderState
Created(a, o) == [a EXCEPT !.ord = "CREATED", !.order = o]

CommitOrder(h) ==
  /\ At(h, "commit")
  /\ work[h].avail
  /\ CanTake(checkout[work[h].c].cart)
  /\ \E o \in OrderIds :
       /\ FreshOrder(o)
       /\ orders' = [orders EXCEPT ![o] =
            [status |-> "PENDING", src |-> work[h].c,
             cart |-> checkout[work[h].c].cart]]
       /\ attempt' = [attempt EXCEPT ![work[h].c] = Created(@, o)]
  /\ stock' = Take(checkout[work[h].c].cart)
  /\ checkout' = [checkout EXCEPT ![work[h].c].status = "CONSUMED"]
  /\ Done(h)
  /\ UNCHANGED <<provider, notices, crashes>>

-----------------------------------------------------------------------------
(* Cancellation and refunds *)

\* The customer asks to cancel; the request is never taken back.
RequestCancellation(c) ==
  /\ checkout[c].status # "NONE"
  /\ attempt[c].ord # "CREATED" /\ ~Locked(c)
  /\ Cardinality({d \in Checkouts : attempt[d].cancel}) < MaxCancels
  /\ attempt' = [attempt EXCEPT ![c].cancel = TRUE]
  /\ UNCHANGED <<stock, checkout, orders, provider, notices, work, crashes>>

\* markPaymentAttemptReviewRequired
Reviewed(a) ==
  IF a.ord = "CREATED" THEN a
  ELSE [a EXCEPT !.ord = "REVIEW_REQUIRED", !.res = "OPEN"]

\* releaseCancelledCheckout: UPDATE ... WHERE status = 'PENDING'
Freed(k) == IF k.status = "PENDING" THEN [k EXCEPT !.status = "RELEASED"] ELSE k

Stoppable(a) == a.cancel /\ a.order = NoOrder
MoneySeen(a) == a.pay = "PAID" \/ a.received > 0

\* finishCancellationWindow
Release(h) ==
  /\ At(h, "release") /\ ~Locked(work[h].c)
  /\ LET a == attempt[work[h].c] IN
       IF Stoppable(a) /\ ~MoneySeen(a)
       THEN /\ checkout' = [checkout EXCEPT ![work[h].c] = Freed(@)]
            /\ attempt' = [attempt EXCEPT ![work[h].c] =
                 IF work[h].review THEN Reviewed(a) ELSE a]
       ELSE /\ attempt' = [attempt EXCEPT ![work[h].c] =
                 IF Stoppable(a) THEN Reviewed(a) ELSE a]
            /\ UNCHANGED checkout
  /\ Done(h)
  /\ UNCHANGED <<stock, orders, provider, notices, crashes>>

\* markCancelledPaidReview, and reopenCancelledPaymentRecovery for a webhook
MarkReview(h) ==
  /\ At(h, "review") /\ ~Locked(work[h].c)
  /\ attempt' = [attempt EXCEPT
       ![work[h].c] = IF Stoppable(@) THEN Reviewed(@) ELSE @]
  /\ Done(h)
  /\ UNCHANGED <<stock, checkout, orders, provider, notices, crashes>>

\* Mutant of Refundable: an attempt with an order may be refunded here too.
RefundableAlways(a) == a.res # "RESOLVED" /\ a.pay \in {"PAID", "MISMATCH"}

\* An operator records a transfer back to the customer.
Refundable(a) ==
  /\ a.res # "RESOLVED" /\ a.pay \in {"PAID", "MISMATCH"}
  /\ a.order = NoOrder
\* Mutant of Balance: refunds recorded before are forgotten.
GrossBalance(a) == a.received

Balance(a) == a.received - a.refunded

\* insertRefund; the attempt is closed when nothing is left.
Repaid(a, x) ==
  [a EXCEPT !.refunded = @ + x,
            !.res = IF x = Balance(a) THEN "RESOLVED" ELSE "OPEN"]
RecordRefund(c, x) ==
  /\ Refundable(attempt[c]) /\ ~Locked(c)
  /\ x <= Balance(attempt[c])
  /\ attempt' = [attempt EXCEPT ![c] = Repaid(@, x)]
  /\ UNCHANGED <<stock, checkout, orders, provider, notices, work, crashes>>

-----------------------------------------------------------------------------
Shopping ==
  \/ \E c \in Checkouts, cart \in Carts : Reserve(c, cart)
  \/ \E c \in Checkouts : LapseHold(c)
  \/ \E cart \in Carts : CashPurchase(cart)
  \/ \E o \in OrderIds : CancelOrder(o)

PayOS ==
  \/ \E c \in Checkouts : CreateLink(c) \/ LinkExpires(c)
  \/ \E c \in Checkouts, a \in Amounts : Transfer(c, a)

Starting ==
  \/ \E n \in notices : DeliverNotice(n)
  \/ \E c \in Checkouts :
       \/ Lookup(c) \/ CancelLookup(c) \/ CancelCall(c) \/ CancelWindow(c)
       \/ AdminRetry(c)

Advance(h) ==
  \/ Observe(h)
  \/ FinalizeReview(h) \/ FinalizeReplay(h) \/ OpenSnapshot(h)
  \/ CommitReview(h) \/ CommitRollback(h) \/ CommitOrder(h)
  \/ Release(h) \/ MarkReview(h)
Working == \E h \in Handlers : Advance(h) \/ Crash(h)

People ==
  \/ \E c \in Checkouts : RequestCancellation(c)
  \/ \E c \in Checkouts, x \in Refunds : RecordRefund(c, x)

Next == Shopping \/ PayOS \/ Starting \/ Working \/ People

\* A running handler goes on or dies.  The durable tasks look a link up, and
\* follow a cancellation up, again and again until they conclude; that they get
\* a free handler is strong fairness, because the bound on handlers may be
\* reached and left in between.
Fairness ==
  /\ \A h \in Handlers : WF_vars(Advance(h))
  /\ \A c \in Checkouts : SF_vars(Lookup(c)) /\ SF_vars(CancelWindow(c))

Spec == Init /\ [][Next]_vars
FairSpec == Spec /\ Fairness

-----------------------------------------------------------------------------
(* Properties *)

\* Reservations: what the active reservations hold is on the shelf.
\* checkout-reservation.service.ts reserves only what stock and the other
\* holds leave, and orders.service.ts sells only that.
HoldsBacked == \A p \in Products : HeldUnits(p, Checkouts) <= stock[p]

\* The part of it the code keeps: as long as no checkout was fulfilled after
\* its reservation had lapsed, every active reservation is backed by stock,
\* whatever cash purchases, cancellations and payments interleave.
LateSale(c) == checkout[c].status = "CONSUMED" /\ ~checkout[c].live
OnTimeHoldsBacked == (\A c \in Checkouts : ~LateSale(c)) => HoldsBacked

\* Inventory conservation: stock plus the units of every order that was not
\* cancelled is the initial stock; no interleaving of finalization, purchase and
\* cancellation sells a unit twice, loses one or returns one twice.
Standing == {o \in OrderIds : orders[o].status = "PENDING"}
StockConserved ==
  \A p \in Products :
    stock[p] + SumOf([o \in OrderIds |-> orders[o].cart[p]], Standing)
      = InitialStock[p]

\* One checkout, one order: however often webhooks, lookups, retries and
\* redeliveries finalize a checkout, it yields at most one order, for the cart
\* that was reserved, and it is consumed exactly when that order exists.
OrdersOf(c) == {o \in OrderIds : orders[o].status # "NONE" /\ orders[o].src = c}
OneOrderPerCheckout ==
  \A c \in Checkouts :
    /\ (checkout[c].status = "CONSUMED") <=> (attempt[c].order # NoOrder)
    /\ OrdersOf(c) =
         IF attempt[c].order = NoOrder THEN {} ELSE {attempt[c].order}
    /\ \A o \in OrdersOf(c) : orders[o].cart = checkout[c].cart

\* Money is settled once: an attempt that became an order was paid in full and
\* nothing of it was ever recorded as sent back.
NoDoubleSettlement ==
  \A c \in Checkouts : attempt[c].order # NoOrder =>
    attempt[c].refunded = 0 /\ attempt[c].received >= Expected

\* Refunds never exceed what was verified as received, and that never exceeds
\* what the customer paid, however webhooks and lookups report the same money.
RefundsCovered ==
  \A c \in Checkouts :
    /\ attempt[c].refunded <= attempt[c].received
    /\ attempt[c].received <= provider[c].paid

\* An attempt never counts money it has no evidence for: its received amount was
\* reported by evidence about its own link and currency, and its order rests on
\* evidence of exactly the expected amount, whatever else was reported to it.
EvidenceBacked ==
  \A c \in Checkouts :
    /\ attempt[c].received > 0 =>
         \E s \in attempt[c].seen :
           s[2].ok /\ s[2].status = "PAID" /\ s[2].paid = attempt[c].received
    /\ attempt[c].order # NoOrder =>
         \E s \in attempt[c].seen :
           s[2].ok /\ s[2].reported = Expected /\ s[2].paid = Expected

\* Facts about money and intent are never lost to later, reordered or repeated
\* evidence: a verified payment stays PAID, amounts only grow, and an order and
\* a cancellation request stay.
ReceiptsPersist ==
  [][\A c \in Checkouts :
       /\ attempt[c].pay = "PAID" => attempt'[c].pay = "PAID"
       /\ attempt'[c].received >= attempt[c].received
       /\ attempt'[c].refunded >= attempt[c].refunded
       /\ attempt[c].order # NoOrder => attempt'[c].order = attempt[c].order
       /\ attempt[c].cancel => attempt'[c].cancel]_vars

\* The checkout implements the abstract settlement of one price per account: an
\* order only for a full, untouched receipt and never against a withdrawal.
Account == INSTANCE Settlement WITH
  Accounts  <- Checkouts,
  Price     <- Expected,
  received  <- [c \in Checkouts |-> attempt[c].received],
  refunded  <- [c \in Checkouts |-> attempt[c].refunded],
  fulfilled <- [c \in Checkouts |-> attempt[c].order # NoOrder],
  withdrawn <- [c \in Checkouts |-> attempt[c].cancel]
SettlesAccounts == Account!Spec

\* Verified money reaches a conclusion: a paid attempt becomes an order or
\* stands in review for an operator, in spite of crashes and lost races.
Concluded(c) ==
  attempt[c].order # NoOrder \/ attempt[c].ord = "REVIEW_REQUIRED"
PaidSettles ==
  \A c \in Checkouts : (attempt[c].pay = "PAID") ~> Concluded(c)

\* A cancelled checkout does not keep its reservation: it is released, or money
\* arrived and it concludes as above.
CancelFreesHold ==
  \A c \in Checkouts :
    attempt[c].cancel ~> (checkout[c].status # "PENDING" \/ Concluded(c))

\* Wiki/entities/payment.md: a paid receipt without an order stays in the admin
\* exception queue, whose query admin-payment-attempts.repository.ts holds.
InExceptionQueue(a) ==
  /\ a.pay \in {"PAID", "MISMATCH"} /\ a.order = NoOrder
  /\ a.ord # "CREATED" /\ a.res # "RESOLVED"
UnmatchedReceiptQueued ==
  \A c \in Checkouts :
    LET a == attempt[c] IN
      (a.order = NoOrder /\ a.received > a.refunded
         /\ a.ord = "REVIEW_REQUIRED") => InExceptionQueue(a)

\* The reliability design: only PAID + CREATED + orderId renders confirmation,
\* and a created order is returned again; so an attempt with an order says so.
ConfirmedOrderStays ==
  \A c \in Checkouts : attempt[c].order # NoOrder => attempt[c].ord = "CREATED"
=============================================================================
