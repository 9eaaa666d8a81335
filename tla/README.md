# Verification of the Digital E-Shop

TLA+ modules, TLC configurations and TLAPS proofs for the store in `server/src` (NestJS, MySQL,
PayOS payments). Paths below are relative to the repository; `server/src/` is left out where it is clear.

## 1. The system

The server keeps everything in MySQL and runs as several processes without shared memory. A request handler
or a background task runs *transactions* (`database/transaction.ts`) and, between them, calls external services:
PayOS (payment links) and Resend (e-mail). Anything may interleave between two transactions, and a process may die
there. The hard behaviour of the system is in these places:

| Component | State it keeps | Operations | Talks to |
|---|---|---|---|
| PayOS checkout (`orders/checkout-reservation.*`, `orders/orders.service.ts`) | `products.stock`, `pending_checkouts`, `inventory_reservations`, `orders` | reserve, finalize, consume, cash purchase | attempts, promotions, loyalty, tasks |
| Payment attempts (`payments/payment-attempt.*`) | `payment_attempts` with observations and refunds | claim, observe, request cancellation, release, refund | checkout |
| Link creation (`orders/orders.payos.service.ts`, the client's `payosCheckoutPending.ts` and checkout form) | idempotency key and guest token of a tab, create lease and link of an attempt | submit, resume, create, look up, save | checkout, PayOS |
| Reconciliation and webhooks (`payments/payment-reconciliation.*`) | `payment_webhook_events`, reconciliation log | handle webhook, look up, cancel, close the cancellation window | PayOS, attempts, checkout, tasks |
| Durable tasks (`operations/*`) | `operations_tasks` rows with lease and generation | enqueue, claim, finish, continue | reconciliation, e-mail |
| Transactional e-mail (`transactional-email/*`) | outbound messages, delivery events | enqueue, send, resend, accept delivery webhook | Resend, tasks |
| Order cancellation (`orders/orders-cancellation.service.ts`) | orders, stock, points | cancel and restock | loyalty, shipments |
| Promotions, loyalty (`promotions/*`, `loyalty/*`) | redemptions, vouchers, accounts, point ledger | claim, reserve, consume, release, award, reverse | checkout, delivery |
| Fulfilment (`orders/order-fulfillment*`, `shipping/delivery-assignment*`, `payments/cod-settlement*`) | shipments, assignments, employees, cash settlements | pack, assign, set out, deliver, fail, remit | orders, loyalty |
| After-sales, manual refunds (`after-sales/*`) | requests with items, refund operations with units | create, transition, refund | orders, payment, evidence |
| Procurement, inventory, stock counts (`procurement/*`, `inventory/*`) | purchase orders, receipts, movements, counts | draft, confirm, receive, adjust, count, approve | products |
| Cart, guest cart, merge | cart rows | add, change, merge at sign-in | checkout |
| Sessions, guest order recovery | token rows | sign in, refresh, revoke, recover | client |

Catalogue, reviews, wishlist, support, addresses, users, analytics, files, guards, filters, configuration and telemetry
are single-row operations, queries or plumbing. The browser client shows the API, except for the state a tab keeps
about its PayOS checkout. `PROJECT.json` lists every component with what is modelled of it.

What makes each part correct:

* checkout: no unit is sold twice; what a customer reserved is there when she pays in time; one payment, one order;
* attempts: verified money is never forgotten, counted twice, or both fulfilled and refunded; evidence about something
  else is not counted;
* link creation: a form sent twice reserves once; nobody is sent to a link the server cannot find again;
* reconciliation: whatever order webhooks, lookups, cancellations and operators come in, a paid attempt ends as an order
  or in front of an operator, and a cancelled one gives its stock back;
* tasks: one worker at a time finishes a task, a flow is never lost between two tasks, attempts are bounded;
* e-mail: an ambiguous send is not repeated outside the provider's window; what was delivered is not undone;
* promotions and loyalty: points are neither made nor lost, a voucher serves one purchase, a reward keeps its limit;
* fulfilment: a courier on the way carries a live order that nobody else has; delivery, completion and cash agree;
* after-sales: no unit and no claim is refunded twice, and not more than was paid for it;
* inventory: the movements explain the stock, holds stay covered, a count replaces only what was counted.

## 2. Modules, state and actions

| Module | What it is | Extends / instantiates |
|---|---|---|
| `Checkout` | PayOS checkout: stock, reservations, payment attempts, orders, the handlers that observe PayOS | instantiates `Settlement` |
| `Settlement` | abstract: what the payment side of a checkout promises, per account | |
| `CheckoutSession` | a tab's PayOS form, its key, the reservation and attempt claimed under it, the link created under a lease | |
| `WebhookInbox` | the inbox row of one signed PayOS webhook, from claim to HTTP answer | |
| `TaskQueue` | abstract: what a queue of tasks promises | |
| `Tasks` | durable tasks: claim, lease, token, exhaustion, outcome | |
| `Emails` | transactional e-mail on the durable tasks, with Resend | extends `Tasks`, instantiates `TaskQueue` |
| `PayOSTasks` | the flows of tasks of one PayOS attempt, with its webhooks | extends `Tasks` |
| `Rewards` | promotions, vouchers and points through a purchase's life | |
| `Orders` | the order and payment rows that fulfilment and after-sales share | |
| `Fulfilment` | packing, couriers, delivery, cancellation, cash | extends `Orders` |
| `RefundAllocation` | pure: how a discount is divided among units | |
| `AfterSales` | claims and manual refunds | extends `Orders`, `RefundAllocation` |
| `Delivery` | abstract: the delivery of an order seen from outside | |
| `OrderLifecycle` | an order from its checkout to its last refund | composes `Fulfilment`, `AfterSales`; instantiates `Delivery` |
| `Warehouse` | a product's stock, holds, sales, adjustments, movements | |
| `Procurement` | purchase orders and receipts | extends `Warehouse` |
| `StockCounts` | stock counts | extends `Procurement` |
| `Inventory` | the warehouse with the administrators' pages | composes the three above |
| `Sums` | pure: the sum of a function's values over a set | used by `Checkout`, `Rewards`, `RefundAllocation`, `Procurement` |
| `MC...` | values of the constants for TLC | extend the module they name |
| `CheckoutProofs`, `SessionProofs`, `InboxProofs`, `TaskProofs`, `RewardProofs`, `LifecycleProofs`, `InventoryProofs` | theorems and proofs | extend `Checkout`, `CheckoutSession`, `WebhookInbox`, `PayOSTasks` and `Emails`, `Rewards`, `OrderLifecycle`, `Inventory` |
| `SumTheorems` | lemmas about `SumOf`, for any finite set | extends `Sums` |

**What is one step.** A transaction of the server is one action where it locks the rows it decides on
(`SELECT ... FOR UPDATE`) before it reads them. Between transactions a handler or a task holds only local values:
they are its entry in `work`, and any other actor may move, or the process may die, before the next step. The
transaction that turns a paid attempt into an order is *two* steps (`OpenSnapshot`, `Commit...`): its first plain `SELECT`
opens MySQL's REPEATABLE READ snapshot, and it locks the products after that, so it decides on availability that
was read before it waited for the lock. The same is done wherever a decision rests on such a snapshot: the count of a
promotion's uses and the award a delivery looks for (`Rewards`), the key and reference of a manual refund (`AfterSales`).

### Checkout

| State | Rows or objects |
|---|---|
| `stock` | `products.stock` |
| `checkout[c]` | `pending_checkouts` with its `inventory_reservations`; `live` says the reservation has not lapsed |
| `attempt[c]` | `payment_attempts`: payment, order and resolution state, verified amount (`received`), refunds, cancellation intent, order id, the observations recorded (`seen`) |
| `orders[o]` | `orders` with their items |
| `provider[c]`, `notices` | external: the link at PayOS and what was paid to it, the webhooks PayOS signed (any may arrive again) |
| `work[h]` | what a running handler or task carries to its next transaction |

| Actions | Code |
|---|---|
| `Reserve`, `LapseHold`, `CashPurchase`, `CancelOrder` | `checkout-reservation.service.ts`, `makePurchase` in `orders.service.ts`, `orders-cancellation.service.ts` |
| `CreateLink`, `Transfer`, `LinkExpires` | the link the server creates, and what customer and PayOS do with it |
| `DeliverNotice`, `Lookup`, `CancelLookup`, `CancelCall`, `CancelWindow`, `AdminRetry` | the handlers of `payment-reconciliation.service.ts` and `admin-payment-attempts.service.ts` up to the evidence they get |
| `Observe` | `recordObservation` in `payment-attempt.repository.ts`, and what its caller does next (`FollowUp`) |
| `FinalizeReview`, `FinalizeReplay`, `OpenSnapshot`, `CommitReview`, `CommitRollback`, `CommitOrder` | `finalizePayOSAttemptCheckout` in `orders.service.ts`, exit by exit |
| `RequestCancellation`, `Release`, `MarkReview`, `RecordRefund` | intent, release, review and refunds in `payments/` |
| `Crash` | a process dies between two transactions |

Abstractions: money is counted in units; an amount is compared with `Expected` only. One record of evidence says what
status and amounts it reports and whether code, link and currency are those of the attempt (`ok`). The job of a
handler stands for the caller as well: `via` says which one it is. `MarkReview` lets the cancellation task
and `reopenCancelledPaymentRecovery` write OPEN under the conditions of either. Order ids are given out in order.

### WebhookInbox

`inbox[e]` is the row of an event key (`payment_webhook_events`) with its payload and generation (`attempt_count`);
`attempt` keeps what the inbox reads back of the payment attempt; `sent` and `acked` are PayOS' side. `ClaimConflict`, `ClaimIgnored` and `ClaimPayment` are the
exits of the claim that a request can take, `ReadAttempt`, `Observe`, `Reopen`, `Finalize...`, `Complete`, `Answer` the steps of `handlePayOSWebhook`,
`TaskObserves` and `TaskFinalizes` what the recovery tasks do to the attempt meanwhile. `attempt_count` is only
compared for equality, so a new generation is any number that neither the row nor a running handler carries. Webhooks about rows without an attempt
(a path kept for old orders) are left out.

What the claim does rests on the driver. `claimWebhookEvent` takes an event for new when its `INSERT ... ON DUPLICATE KEY UPDATE id = LAST_INSERT_ID(id)`
affected one row (`payment-reconciliation.repository.ts:125`). mysql2 sets CLIENT_FOUND_ROWS unless told otherwise, the pool
(`config/database.config.ts:40-52`) does not tell it, and MySQL then reports one row for a duplicate it leaves unchanged as well. So the exits for a
concluded event and for a fresh one in process (`payment-reconciliation.service.ts:269` and `:272`) are never taken: every repeat of a payment is
claimed and processed again, whatever its row says and whatever the lease, and the model has no lease. The driver is external: with the
flag `-FOUND_ROWS` those exits would be taken. Nothing else in the server decides on the affected rows of such a statement.

### Tasks and Emails

`task[k]` is a row of `operations_tasks`: state, attempt, lease token, and `live` for a lease that has not run out.
`work[w]` is what worker `w` is at. A token is random, and a worker has one lease at a time, so the worker of the last claim
stands for the token. `Claim`, `Exhaust` and `Finish` are `claimDue` and `finish`; `Lapse` ends a lease whether its worker is
dead or slow; `Die` kills a worker anywhere. Due times only delay a claim, so a READY task may be claimed at any time.

`mail[k]` is the row of a message, `resend[k]` how many messages Resend accepted under its key, `report[k]` the
delivery event stored, `age[k]` the time since the first attempt: under 23 hours (FRESH), under 24 (NEAR), over. The
guards of `Pass` come from the time limits in the code: a call lasts 8 seconds at most, so the first
attempt is over well before 23 hours, and a call that was allowed just before the cutoff is over before the hour that is left
of Resend's window. `Enqueue`, `Resend`, `Read`, `GiveUp`, `Call`, `Accept`, `Fail`, `Break` (a query fails) and
`RecordReport` (a delivery webhook) are the transactions and calls of `email.service.ts` and `email.repository.ts`. Resend
is external: it accepts a key once within 24 hours, and a message is refused before it is accepted or never; its
answer to two concurrent requests with one key is not modelled, nor are the disabled and sandbox modes, payload conflicts, batches and
the budget of a runner, and the difference between the clocks of the server and the database. BOUNCED is
treated as DELIVERED, as in the code, and one delivery event per message is stored.

### CheckoutSession

`page` is what a tab keeps in its storage (key, guest token) and waits for or has shown; `request[r]` a submission with the step its
handler is at; `attempt[k]` the attempt claimed under key `k`; `hold[r]` the reservation request `r` inserted; `link[k]` the
link of the attempt's code at PayOS; `late` the create calls PayOS still carries out after nobody waits for them.

| Actions | Code |
|---|---|
| `Submit`, `Reload`, `Receive`, `Complete` | `getOrCreatePayOSSubmission` and the form in the client: a key is kept until the cart, quote or address changes, the server answers 409, or the purchase is complete |
| `Find`, `Validate`, `ReserveReplayed`, `ReserveRefused`, `Reserve` | the lookup by key, the checks of the cart, and the reservation with its second lookup under the lock |
| `AcquireLease`, `LeaseFails`, `LeaseEnds` | the create lease of 30 seconds |
| `LookUp`, `Create`, `CreateLands`, `Save`, `Reread` | lookup before and after a create call, and the save guarded by the lease's token |
| `Pay`, `LinkEnds`, `Observe`, `Release`, `Lapse`, `Die` | customer and PayOS; what webhooks, tasks and the cancellation window do to the checkout; a process that dies |

Up to four calls of ten seconds fit under one lease, so a lease may be overtaken. The whole cart is one unit. Mock links,
malformed links and another request under the same key are left out.

### PayOSTasks

A *flow* (a reconciliation, a cancellation, the recovery of a webhook) is a chain of tasks, each enqueued in the transaction that
finishes the one before; a finished generation is never read again, so a flow is one row: `task[k]` with its `payload[k]`. `Take`,
`Begin`, `LookUp`, `CancelCall`, `Observe`, `FinalizeTask`, `ReviewTask`, `FreeTask` and `Conclude` are the steps of
`payos-reconciliation-task.processor.ts` and the service it calls, `RequestCheck` and `RequestCancel` enqueue a flow, and
`ReadHook`, `Hear`, `FinalizeHeard`, `HearAgain` and `Reopen` are a webhook. Money is none, part or all of what is expected; the
order transaction is one step (`Checkout` has its insides). `TenMinutes`, `OneDay` and `Expire` are the passing of the times the code compares.

### Rewards

`balance` and `ledger` are `loyalty_accounts` and the event keys of `loyalty_ledger`; `voucher`, `redemption`, `checkout`, `order`,
`attempt` the rows of those names; `view` and `courier` the snapshots an unfinished purchase and delivery read from. `Claim` and `Switch`
are the customer's claim of a reward and the administrator's switch; `Begin`, `Reserve`, `PlaceCash`, `Rollback` a purchase; `Lapse`,
`Pay`, `RequestCancel`, `FinishCancel`, `Finalize` its PayOS checkout; `ConfirmCod`, `BeginDelivery`, `Deliver`, `AbandonDelivery`,
`Refund` and `CancelOrder` its order. Kinds of discount, dates and minimum amounts decide an amount and not the protocol; they are left out.

### The order's lifecycle

`Orders` has the order's state and its payment. `Fulfilment` adds `shipment`, `assignment[o]` (oldest first), `staff`,
`settlement` and `transfer`: `Pack`, `Assign` (assignment and reassignment, with the employee's schedule), `SetStaff`, `SetOut`, `FailDelivery`,
`Deliver`, `CancelOrder`, `ConfirmCod`, `Remit`. `AfterSales` adds `bill`, `request`, `operation` and the refund an administrator is at:
`CreateRequest`, `TransitionRequest`, `BeginRefund`, `ConfirmRefund`, `DropRefund`. `RefundAllocation` is `allocateRefundUnits` in
`refund-allocation.ts`: shares rounded down, the dong that are left given to the largest remainders. `Phase` maps an order to its phase in `Delivery`:
the status of its last assignment, or CANCELED.

Times are schedules `<<start, end>>`; deadlines of claims, the retired external carrier and exchanges' replacement goods are left out.

### Inventory

`stock`, `revision`, `holds`, `sold` and `book` (the movements: their sum and the last `stock_after`) are the product's;
`Hold`, `Release`, `Sell`, `Restock`, `Adjust` and `Remove` change them. `Procurement` has `CreatePurchase`, `EditDraft`, `Confirm`, `CancelPurchase`,
`ClosePurchase`, `ArchiveSupplier` and `Receive`; `StockCounts` has `CreateCount`, `Observe`, `Submit`, `CancelCount`, `Reopen` and
`Approve`. An administrator acts from a page: `page[a]` is the document and version it shows, and is loaded by `Load`. `Prompt` is an
administrator who loads a document and acts at once. `changes`, `removed` and a page's `fresh` are history variables: no action reads
them, except for the bound on `changes`. Sales of lapsed checkouts are excluded here: `Checkout` covers them.

## 3. What is checked

Each property is stated in its module with the behaviour it is about. The constants of a run are in its `.cfg`. Every module states
its type invariant; where it is not among a run's properties it was checked while the module was written, or is proved (section 4).

| Run | Properties | Instance | States |
|---|---|---|---|
| `checkout_stock` | TypeOK, OnTimeHoldsBacked, StockConserved, OneOrderPerCheckout | 2 PayOS checkouts and 1 cash purchase of 2 units each, 4 on the shelf, 2 handlers, 1 crash | 1,068 K |
| `checkout_money` | NoDoubleSettlement, RefundsCovered, EvidenceBacked, ReceiptsPersist, SettlesAccounts | 1 checkout of price 2, transfers of 1 or 3 up to 3, refunds of 1 or 2, 2 observations, evidence about this and another link, 1 cancellation, no lapse, 2 handlers | 1,109 K |
| `checkout_session` | OneHoldPerKey, TokenOpensOrder, ShownLinkSaved | 2 keys, 2 submissions, 1 unit, trouble twice | 2,750 K |
| `inbox` | AcknowledgedSettled, OneOwner, ConcludedTruly, AnsweredUnlessCancelled | 1 key, 2 payloads, 2 handlers, trouble or a needless repeat twice; fair | 150 K |
| `emails` | SentOnce, SucceededAccepted, ConclusionStays, QueueKept, EveryTaskConcludes | 1 message and 1 resent one, 2 workers, 2 attempts, trouble twice; fair | 428 K |
| `payos_tasks` | FlowsSettle, FreedKnowingly | the reservation's flow, a cancellation and a webhook's recovery; payment in parts; 1 worker, trouble or a repeated webhook once, 2 attempts | 3,772 K |
| `payos_flows` | CancelReleases, PaidIsSeen | the reservation's flow and a cancellation that may be asked for again; 2 workers; fair | 194 K |
| `rewards` | PointsConserved, VoucherBacks, RewardLimitKept | 2 customers and a guest, 2 purchases, 2 vouchers, a reward and an ordinary code of limit 1 each | 1,005 K |
| `fulfilment` | CourierExpected, SchedulesApart, DeliveredSettled, DeliveryProtocol | a cash order and a PayOS order, 2 couriers, 2 overlapping schedules, 2 assignments each | 536 K |
| `after_sales` | RefundedOnce, RefundsAccounted, AllocationFair | 1 delivered PayOS order with one of 7 bills, 2 claims, 2 administrators with 2 keys and references | 291 K |
| `inventory` | LedgerExplains, HoldsCovered, ObligationKept, CountFresh, DecidedAsSeen | 1 product, 1 purchase order, 1 count, 1 open page and a prompt administrator, 2 receipt keys, 4 versions | 1,004 K |

What they show: no order of webhooks, lookups, cancellations, refunds and crashes sells a unit twice, fulfils and refunds the
same money, counts money nobody reported for this link, or leaves a paid attempt without an order or a case for an
operator. A form that is reloaded and sent again reserves once under its key and shows only links the server has saved. A payment that PayOS got
a 200 for has left an order or a case for an operator, one handler at a time can conclude it, and what its row records is true, however often it is
processed again; a message is accepted once under its key, and a worker that was overtaken changes nothing.
A flow of tasks ends only with an order or in review, gives stock back early only when the link is known to be closed, and finds a payment
whose webhook never comes. Points, vouchers and the limit of a reward survive late payments and repeated confirmations. An order is delivered
by one courier at a time, and completion, payment and cash agree. Units and claims are refunded once, to the dong. Stock is
what its movements say, and stale pages and stale counts are refused.

**Bounds and why they are enough.** Two handlers, workers or submissions are the least that race, and every race of the code is
about one row: a third one repeats what the second does. Where nothing is shared one checkout, order or product is enough; two checkouts
and a cash order compete where something is (stock), with lines of two units, so that units and lines differ; two orders share
couriers and schedules, two purchases a code. A price of 2 with transfers of 1 and 3 has short, exact (twice 1), and excess payment.
`MaxLapses` is 0 in `checkout_money`: with one checkout, only the creation
of a link asks whether the reservation has lapsed, and `checkout_stock` has lapses of both of its checkouts. `MaxEvidence` is the number of *distinct* observations; 2 let one contradict another. Two attempts stand for eight: one that may be retried and
one that may not. `MaxTrouble` and `MaxCrashes` bound dead and slow processes and failed queries, and in the inbox the webhooks that PayOS repeats although they were
answered or a live handler has them (the others it repeats freely); a crash disables what it
interrupts and the next claim starts afresh, so two reach a dead worker and one that took over from it. The 7 bills have ties of remainders,
free units, full discounts and two lines. Four versions let a document be made, changed behind a page, and decided on. Opening stock 1 with 2 changes has
the same quantity come back after a change (what a count's revision is for). `payos_flows` has no dead workers: `payos_tasks` does. Symmetry is used
for safety properties only. Deadlock is off where the bounds, or the work, run out; the `.cfg` says so.

**Fairness.** A handler or worker that did not die goes on (`WF` of `Advance`, `AdvanceMail`). PayOS repeats a webhook until it is acknowledged (`SF` of
`Deliver`; nothing makes it repeat one that is), and leases run out (`WF` of `Lapse`, `LeaseRunsOut`). The scheduler calls the task runner again and again (`WF` of
`TakeMail` in `Emails`; `SF` of `Take` in `PayOSTasks`, where another worker's lease disables it now and then): that is a matter of the
deployment, outside this repository's server code. In `PayOSTasks` the runner also ends a task whose last worker died (`WF` of `Drop`) and
the ten minutes of the cancellation window pass (`WF` of `TenMinutes`); nothing makes a customer, PayOS or a webhook act. `PayOSTasks` thereby
shows what `Checkout`'s own `FairSpec` assumes, that the durable tasks look a link up, and follow a cancellation up, again and again.
`CheckoutSettles.cfg` still checks `PaidSettles` and `CancelFreesHold` under that assumption (140 K states).

### Disagreements met

`late_sale_hold` is a run; `PROJECT.json` quotes the lines. The others keep a `.cfg` of their own beside it; TLC ends each with a
counterexample to the property named.

| `.cfg` | Property | What happens |
|---|---|---|
| `LateSaleHold` | HoldsBacked | A checkout paid after its reservation lapsed is sold from the snapshot its transaction opened before it waited for the product lock, and takes units another customer reserved meanwhile. `OnTimeHoldsBacked` is what the code does keep. |
| `LostReceipt` | UnmatchedReceiptQueued | A receipt that does not match leaves the exception queue when a later lookup reports UNDERPAID or PENDING: MISMATCH is overwritten. |
| `ConfirmedOrder` | ConfirmedOrderStays | Later evidence with another amount writes REVIEW_REQUIRED over CREATED for an attempt that has an order. |
| `InboxStuck` | RecoveredAcknowledged | A handler dies after it stored the recovery task of a cancelled and paid attempt; its key is used again with a different time in the payload, so every redelivery throws and PayOS never gets its 200. |
| `InboxRepeated` | ConclusionStays | The claim takes every repeat for a new event (above): a concluded payment is set to PROCESSING and processed again. The service's test "does not finalize a duplicate processed event" (`payments/__tests__/payment-reconciliation.service.test.ts:260`) passes because it is given `inserted: false`, and the repository's own test because its mock answers `affectedRows: 0` (line 28). A repeat whose handler dies or throws leaves an event that was concluded and answered in PROCESSING or FAILED; what it did to the attempt stays. |
| `EmailsExhausted` | ExhaustedReviewable | The last attempt ends without an answer: the task is FAILED, the row stays PENDING, and an operator cannot send it again. |
| `EmailsDelivery` | DeliveryStays | A task taken over after its message was delivered writes ACCEPTED over DELIVERED. |
| `SessionRefused` | RefusedUnheld | Two requests with one key race for the last units: the one that lost sees the other's hold as somebody else's, answers 409, and the tab forgets the key of its own reservation. |
| `PayOSUnresolved` | UnresolvedSurfaced | A flow that used up its attempts, or met an underpaid link, ends in review while its attempt is UNKNOWN or PENDING; the exception queue lists PAID and MISMATCH only. |
| `RewardsLimit` | ReservationsWithinLimit | Two purchases count an ordinary code's uses in snapshots opened before they locked it, and both reserve the last use. |

Also met while modelling, and part of what the modules do:

* after-sales: PATCH from REFUND_PENDING to REFUNDED marks a request refunded with no transfer recorded; closing a refunded request frees its
  quantity, so the same units can be claimed again (the refund is refused then); the key and reference of a manual refund are looked up in a
  stale snapshot, and the unique indexes are what stops a second one;
* fulfilment: a PayOS order that was paid can never be cancelled; a delivery that failed can be cancelled, which restores the stock while
  the courier has the parcel (the check in `orders-cancellation.service.ts:48-49` is never true of internal shipments); an employee who is suspended on the way leaves an order
  nobody can move until they are active again; `confirmCod` accepts a cancelled order, and an order so paid can be cancelled with no way to
  refund it; a courier's own updates check neither the order nor its shipment;
* stock: cancelling an order of a removed product adds its units to -1 (`orders.repository.ts:105`); removing a product writes no movement
  and ignores holds (`products.repository.ts:656-667`);
* loyalty: a checkout nobody pays or cancels keeps its points and voucher on hold;
* link creation: a link may still be created after the cancellation window released the reservation; a new tab, or a changed quote, has a new key and makes a
  second reservation; a guest whose first answer is lost never gets the order's token; the link found by a lookup has no saved url, so
  the status page has nothing to resume with.

## 4. What is proved

The theorems hold for every number of products, checkouts, handlers, messages, workers, orders, couriers, documents, tabs' requests, customers, promotions and failures, under
the assumptions the modules name: amounts, prices and stocks are natural numbers and prices, transfers, refunds and order ids are not 0
(`MoneyAssumption`, `StockAssumption`, `OrderAssumption`, `WarehouseAssumption`), schedules are pairs of numbers (`FulfilmentAssumption`), quantities and prices of a bill are natural
numbers and no bill has a discount above its subtotal or costs more than its order (`AfterSalesAssumption`), the bounds are natural numbers (`BoundAssumption`,
`TaskAssumption`, `DocumentAssumption`, `SessionAssumption`), there are finitely many handlers, purchases and vouchers, prices of rewards, limits and points
are natural numbers (`RewardAssumption`), and no source of an order, worker, request or document is
mistaken for the name of none (`SourceAssumption`, `WorkerAssumption` and those above). TLC evaluates all of them on its instances.

| Theorem | Property | Argument |
|---|---|---|
| `CheckoutProofs!TypeCorrect` | `Checkout!TypeOK` | every action, by types alone |
| `RefundsAlwaysCovered` | `RefundsCovered` | `MoneyInv` |
| `SettledOnce` | `NoDoubleSettlement` | `CommitInv` |
| `FactsStay` | `ReceiptsPersist` | what one step can do to an attempt (`AttemptStep`), with `CommitInv` |
| `OneOrder` | `OneOrderPerCheckout` | `OrderLinks`, with `CommitInv` |
| `AlwaysEvidenced` | `EvidenceBacked` | `EvidenceInv`, with `CommitInv` |
| `StockAlwaysConserved` | `StockConserved` | `ShelfInv`, with `CommitInv` |
| `HoldsAlwaysBacked` | `OnTimeHoldsBacked` | `BackedInv`, with `CommitInv` |
| `ImplementsSettlement` | `SettlesAccounts` | each change of an attempt is a step or a stutter of `Settlement`; `MoneyInv`, `CommitInv` |
| `TaskProofs!EmailTypes` | | every action, with `TaskAssumption` |
| `ImplementsQueue` | `QueueKept` | `LeaseInv`; one task changes in a step (`OneChange`) |
| `SentAtMostOnce` | `SentOnce` | `AgeInv` |
| `ConclusionsStay` | `Emails!ConclusionStays` | `RowInv` |
| `SuccessMeansAccepted` | `SucceededAccepted` | `DoneInv` |
| `InboxProofs!InboxTypes` | | every action; generations outnumber handlers, so there is always a fresh one (`FreshCount`) |
| `AcknowledgedIsSettled` | `AcknowledgedSettled` | `InboxInv` |
| `OwnedOnce` | `OneOwner` | `InboxInv`: running handlers of one row carry different generations |
| `RecordedTruly` | `ConcludedTruly` | `InboxInv` |
| `FlowTypes` | | every action, with `FlowInv` |
| `FlowsAlwaysSettle` | `FlowsSettle` | `FlowInv` |
| `AlwaysFreedKnowingly` | `FreedKnowingly` | `FlowInv` |
| `RewardProofs!RewardTypes` | | every action, by types alone |
| `VouchersBack` | `VoucherBacks` | `RewardInv` |
| `RewardLimitHolds` | `RewardLimitKept` | `LimitInv`, with `RewardInv` |
| `PointsAlwaysConserved` | `PointsConserved` | `PointsInv`, with `RewardInv` |
| `SessionProofs!TypeCorrect` | | every action, with keys of those at work |
| `KeyHoldsOnce` | `OneHoldPerKey` | `SessionInv` |
| `TokenOpens` | `TokenOpensOrder` | `SessionInv` |
| `ShownIsSaved` | `ShownLinkSaved` | `SessionInv` |
| `LifecycleProofs!CouriersExpected` | `CourierExpected` | `LifeInv` |
| `SchedulesNeverClash` | `SchedulesApart` | `LifeInv` |
| `DeliveriesSettled` | `DeliveredSettled` | `LifeInv` |
| `PrepaidStays` | | `LifeInv`: `PrepaidKept`, an order paid through PayOS is never cancelled |
| `DeliveryRefined` | `DeliveryProtocol` | each step is a step or a stutter of `Delivery` under `Phase`; `LifeInv` |
| `UnitsRefundedOnce` | `RefundedOnce` | `RefundInv` |
| `RefundsAddUp` | `RefundsAccounted` | `MoneyInv`, with `LifeInv` |
| `AllocationsFair` | `AllocationFair` | lemmas about `RefundAllocation`, for any bill; `MoneyInv` says every order's bill is one |
| `LifecycleTypes` | | the three invariants: what a payment has refunded is bounded by its units |
| `InventoryProofs!TypeCorrect` | | `TypeInv` |
| `LedgerAlwaysExplains` | `LedgerExplains` | `Books`, with `TypeInv` |
| `HoldsAlwaysCovered` | `HoldsCovered` | `Books`, with `TypeInv` |
| `CountsStayFresh` | `CountFresh` | `TypeInv`: a product's revision is the number of its changes |
| `DecisionsSeen` | `DecidedAsSeen` | `PagesTrue` |
| `ObligationAlwaysKept` | `ObligationKept` | `Accounted`, with `TypeInv` |

Why the invariants are what they are:

* `MoneyInv` adds to RefundsCovered that evidence *on its way* (in a notice or a handler's job) reports no more than PayOS holds:
  otherwise the next observation could count too much.
* `CommitInv` says of a handler between snapshot and commit that its attempt is locked by nobody else, paid exactly, not refunded and
  not cancelled; and that a checkout is CONSUMED exactly when its attempt has an order. The guards were evaluated when
  the snapshot opened, and nothing but the lock keeps them true until the commit.
* `OrderLinks` says it per order id: the order exists and came from a checkout exactly when the checkout's attempt
  points to it, and then it has the reserved cart. A new order takes an id that was unused, so no attempt points to it yet.
* `EvidenceInv` adds that an attempt that is PAID was reported to be paid exactly, which is what
  the commit relies on later.
* `LeaseInv` says that the worker that holds a task counts its attempts as the row does, so that what
  it decides ("no attempts left") is true of the row; and that a message and its task come to exist together.
* `AgeInv` says that a message which is not fresh has been attempted and that whoever works on it makes a later attempt: so every call
  that may still be made is made while Resend knows the key, or is stopped by the policy.
* `RowInv` says that the row of a message whose holder is calling has no conclusion yet: it was read under the same
  lease, and only the holder marks it.
* `DoneInv` says that where the holder is about to report success the row has an accepted message's id.
* `InboxInv` says that what rows and handlers carry was sent by PayOS, and that the row of a running handler keeps the payload it was given; that an exact payment which was
  observed has the attempt PAID, and a partial one left an order or a review; that a handler about to conclude has seen the order or the review it concludes on;
  and that what a handler is about to acknowledge, or PayOS got its 200 for, is settled. An order and a review are never taken back (`AttemptKept`), so none of it
  depends on which handler owns the row by now, nor on how often it is processed again.
* `FlowInv` says of each worker what it read before it acts: that it reports success because there is an order, saw a closed link, or frees the
  reservation because of one or of the ten minutes. None of the three is ever undone (`Stays`), which is why a worker whose lease ran out does no harm
  with what it read.
* `RewardInv` says what a redemption implies (reserved exactly while the checkout is open, consumed exactly once there is an order), that a voucher is held
  by the purchase that redeems its promotion, for its owner, and that no purchase has two. `finishCancellationWindow` and the finalization
  find the voucher by its purchase alone, so without the last part they could return or redeem another's.
* `LimitInv` counts what is *given out* of a reward: redemptions reserved or consumed, lapsed ones too, and vouchers nobody used. A use that lapses
  leaves the code's count, and comes back to it when the voucher is returned, so RewardLimitKept itself is not inductive; what is given out only
  grows at a claim, which is counted under the promotion's lock. A purchase trades a voucher for a redemption and a release trades it back,
  which is why a stale snapshot does no harm to rewards, though it does to ordinary codes (`RewardsLimit.cfg`).
* `SessionInv` says of each request that past its lookup the attempt of its key exists, was made by the request that holds stock for it,
  and has the link whenever the request is about to report it; of each attempt that a bound link exists; and of the page that it holds the token and links of its
  key's attempt. The lemma `Grows` is what makes it stable: whatever anyone does, an attempt keeps who made it and its link, and a link that exists stays.
* `LifeInv` says of each order what its assignments imply for its shipment and payment (`Attended`, `Paying`), that the cash books
  match (`Booked`), and that claims are about delivered orders (`ClaimsOK`), without which a refund could undo the payment an order on its way relies on.
* `RefundInv` adds to RefundedOnce that the claim of an operation is REFUNDED or CLOSED: no transition leads back from there, so a second refund
  of it is refused. Units, keys and references are kept apart by the check under the lock and by the unique indexes, not by what the transaction read first.
* `TypeInv` of the inventory says that `revision` is the number of changes (which makes the code's comparison of revisions as good as
  `CountFresh`) and what an order is `Owed`; `PagesTrue`, that no page is ahead of its document and that one with the document's version is fresh.
* `ShelfInv` and `BackedInv` add to StockConserved and OnTimeHoldsBacked that the orders that stand, and the active reservations, are finitely many: the
  constants need not be finite, and a sum is one only over a finite set. `CommitInv` is what they rest on. The finalization takes the units of the reservation and
  ends it in one commit, and a checkout that is CONSUMED can never hold again, so what leaves the shelf leaves the holds as well. A sale from a lapsed
  reservation takes units nobody holds for it, and it stays on record (`LateStays`), which is why OnTimeHoldsBacked is about runs without one.
* `PointsInv` says of each purchase which event keys the ledger has: a purchase's points were taken under at most one key, and are returned under `release` only
  once its checkout is no longer open, under `cancel release` only once its order is cancelled, under `earn` exactly when the order is collected. The two returns
  have different keys, so the keys alone do not exclude both; that a checkout is RELEASED or CONSUMED, never both, does. PointsConserved then follows by
  regrouping the sum: what each purchase gained (`Gains`), split into what it earned and what it holds.
* `MoneyInv` of the lifecycle says that a payment's refunded amount is the sum of its transfers *and* the net value of the units refunded so far. The second is
  what bounds it: a refund takes only units that no earlier one took (`Chosen`, read under the lock), and all of an order's units are worth, together, the merchandise less the discount (`AllocationFair`).
* `AllocationFair` rests on two facts about any bill: the dong that shares rounded down leave are fewer than the units with a remainder, because the
  remainders add up to the subtotal times the dong left and each is below the subtotal; and the units ordered by remainder have ranks 0, 1, 2, ..., so exactly as many units as there are dong left get one.
* `Accounted` is the part of ObligationKept about receipts, with the fact that they are finitely many. A receipt adds one element to the sum because its key was not
  used before: a repeated request finds the first one's row and adds nothing.

Sums are proved about in `SumTheorems`: SumOf is a fold, defined by recursion over sets, and the library's induction theorems are out of reach, so `SetInduction` derives
induction over the subsets of a finite set from the well-foundedness of strict inclusion, as a statement about a *set* of subsets in place of a predicate. From it
follow that the recursion has exactly one solution and what the other proofs cite: a sum over a union, after a change of one value, with elements left out that add nothing.

Each proof module first states what one step can do to one row (`AttemptStep`; `TaskStep`, `MailStep`, `WorkerStep`; `Grows`, `OthersKeep`), and proves
the invariants from that.

**Model-checked only.** Liveness (AnsweredUnlessCancelled, EveryTaskConcludes, CancelReleases, PaidIsSeen): it is out of the
prover's reach. Everything else a passing run checks is a theorem: the safety invariants, the action properties and the
implementations of `Settlement`, `TaskQueue` and `Delivery`; so is the type invariant of each component.

## 5. What is not modelled

`PROJECT.json` gives the reason for each component, and for each modelled one what is left out of it. In short: catalogue, reviews, wishlist,
support, addresses, users and analytics are single-row operations or queries; files, guards, filters, configuration and telemetry are
plumbing; the client shows the API; shipping quotes and geocoding are external calls inside one transaction. Most of the implementation by
volume is of these kinds: pages, translations, queries, seeders and validation.

Two parts with state worth checking are not modelled yet:

* *Cart and guest cart.* A merge is made idempotent by an operation id. What was seen in the code: quantities of two tabs are subtracted from each
  other's result, the server's copy brings removed items back, a pending merge outlives a change of user, and an item added between
  the reservation and `markOpenCartComplete` is closed with the cart.
* *Sessions and guest order recovery.* A refresh token is rotated by read, compare and swap, and the loser of a race revokes the session.

One hazard has no property that holds: a flow in REVIEW_REQUIRED whose attempt is in no queue (`PayOSUnresolved.cfg`).

## 6. Plan

1. `CartMerge`: a guest cart in two tabs, its merge at sign-in, and the cart that a checkout closes.
2. `Sessions`: refresh rotation with its races, revocation, and one-time recovery tokens.
3. `Warehouse` as an abstraction of `Checkout`'s stock, by refinement, with a proof from `ShelfInv` and `BackedInv`.
