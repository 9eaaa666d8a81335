--------------------------- MODULE CheckoutProofs ---------------------------
(***************************************************************************)
(* Theorems about Checkout and their proofs, for every value of the        *)
(* constants: any number of products, checkouts, handlers and orders, any  *)
(* sizes of transfers and refunds, and no bound on their number.           *)
(***************************************************************************)
EXTENDS Checkout, SumTheorems, TLAPS

-----------------------------------------------------------------------------
(* Jobs *)

\* A handler's step names the kind of its job.
LEMMA JobKinds ==
  ASSUME NEW j \in Job
  PROVE  /\ j.step = "observe" => j \in ObserveJob
         /\ j.step = "finalize" => j \in FinalizeJob
         /\ j.step = "commit" => j \in CommitJob
         /\ j.step = "release" => j \in ReleaseJob
         /\ j.step = "review" => j \in ReviewJob
BY DEF Job, Idle, ObserveJob, FinalizeJob, CommitJob, ReleaseJob, ReviewJob

\* What a lookup reports is evidence.
LEMMA LookupIsEvidence ==
  ASSUME TypeOK, NEW c \in Checkouts, NEW ok \in BOOLEAN,
         provider[c].status # "NONE"
  PROVE  LookupOf(c, ok) \in Evidence
BY MoneyAssumption DEF TypeOK, LookupOf, Evidence, LinkStatus

\* Recording evidence keeps an attempt an attempt.
LEMMA RecordType ==
  ASSUME NEW a \in Attempt, NEW j \in ObserveJob
  PROVE  Record(a, j) \in Attempt
<1> USE DEF Attempt, ObserveJob
<1>1. j.ev \in Evidence /\ <<SourceOf(j.via), j.ev>> \in Source \X Evidence
  BY DEF SourceOf, Source, Via
<1>2. NextPay(a, j.ev) \in PaymentState
  BY <1>1 DEF NextPay, PaymentState, Evidence, LinkStatus
<1>3. NextReceived(a, j.ev) \in Nat
  BY <1>1 DEF NextReceived, Evidence
<1>4. a.seen \cup {<<SourceOf(j.via), j.ev>>} \in SUBSET (Source \X Evidence)
  BY <1>1
<1>5. Conflicting(a, j.ev) \in BOOLEAN /\ (j.ev.status = "CANCELLED") \in BOOLEAN
  BY DEF Conflicting
<1> QED
  BY <1>2, <1>3, <1>4, <1>5 DEF Record, OrderState, ResolutionState

\* The other changes of an attempt keep it one.
LEMMA ChangeTypes ==
  ASSUME NEW a \in Attempt
  PROVE  /\ Reviewed(a) \in Attempt /\ Withheld(a) \in Attempt
         /\ \A o \in OrderIds : Created(a, o) \in Attempt
         /\ \A x \in Refunds : Repaid(a, x) \in Attempt
<1>1. Reviewed(a) \in Attempt
  BY DEF Reviewed, Attempt, OrderState, ResolutionState
<1>4. Withheld(a) \in Attempt
  BY DEF Withheld, Attempt, OrderState
<1>2. ASSUME NEW o \in OrderIds PROVE Created(a, o) \in Attempt
  BY DEF Created, Attempt, OrderState
<1>3. ASSUME NEW x \in Refunds PROVE Repaid(a, x) \in Attempt
  <2>1. a.refunded + x \in Nat
    BY MoneyAssumption DEF Attempt
  <2>2. (IF x = Balance(a) THEN "RESOLVED" ELSE "OPEN") \in ResolutionState
    BY DEF ResolutionState
  <2> QED
    BY <2>1, <2>2 DEF Repaid, Attempt
<1> QED
  BY <1>1, <1>2, <1>3, <1>4

\* SendToReview changes one field of one attempt.
LEMMA SendToReviewType ==
  ASSUME TypeOK, NEW c \in Checkouts, SendToReview(c)
  PROVE  attempt' \in [Checkouts -> Attempt]
BY ChangeTypes DEF SendToReview, TypeOK

\* What a handler does after an observation is a job, and never a commit.
LEMMA FollowUpType ==
  ASSUME NEW j \in ObserveJob, NEW b \in Attempt
  PROVE  FollowUp(j, b) \in Job /\ FollowUp(j, b).step \in
           {"finalize", "release", "review", "idle"}
<1>1. Offered(j.ev) \in Nat
  BY DEF ObserveJob, Evidence, Offered
<1> QED
  BY <1>1 DEF FollowUp, ObserveJob, Job, FinalizeJob, ReleaseJob, ReviewJob, Idle

\* Whatever a Starting action does, it touches only the provider's status or
\* gives an idle handler a job; the job is never a commit, and an observation
\* it holds is evidence of what the provider or a notice says.
Holds(j) ==
  j.step = "observe" =>
    \/ j.ev.paid <= provider[j.c].paid
    \/ \E n \in notices : n.c = j.c /\ n.amount = j.ev.paid
StartedJob(h, j) ==
  /\ work[h] = Idle /\ work' = [work EXCEPT ![h] = j]
  /\ j \in Job /\ j.step \in {"observe", "finalize", "release"}
  /\ Holds(j)
  /\ UNCHANGED provider

LEMMA StartingStep ==
  ASSUME TypeOK, Starting
  PROVE  /\ UNCHANGED <<stock, checkout, attempt, orders, notices, crashes>>
         /\ \/ \E h \in Handlers, j \in Job : StartedJob(h, j)
            \/ /\ \E c \in Checkouts :
                    provider' = [provider EXCEPT ![c].status = "CANCELLED"]
               /\ UNCHANGED work
<1>1. ASSUME NEW n \in notices, DeliverNotice(n)
      PROVE  \E h \in Handlers, j \in Job : StartedJob(h, j)
  <2>1. n \in Notice
    BY <1>1 DEF TypeOK
  <2>2. PICK ok \in BOOLEAN, h \in Handlers :
          /\ work[h] = Idle
          /\ work' = [work EXCEPT ![h] =
               [step |-> "observe", via |-> "WEBHOOK", c |-> n.c,
                ev |-> [status |-> "PAID", reported |-> n.amount,
                        paid |-> n.amount, ok |-> ok, ref |-> n.ref]]]
    BY <1>1, BoundAssumption DEF DeliverNotice, StartObserve, Start
  <2>3. [step |-> "observe", via |-> "WEBHOOK", c |-> n.c,
         ev |-> [status |-> "PAID", reported |-> n.amount,
                 paid |-> n.amount, ok |-> ok, ref |-> n.ref]] \in ObserveJob
    BY <2>1 DEF Notice, ObserveJob, Via, Evidence, LinkStatus
  <2> QED
    BY <1>1, <2>2, <2>3 DEF StartedJob, Job, Holds, DeliverNotice
<1>2. ASSUME NEW c \in Checkouts, NEW via \in Via, NEW ok \in BOOLEAN,
             provider[c].status # "NONE", UNCHANGED provider,
             StartObserve(c, via, LookupOf(c, ok))
      PROVE  \E h \in Handlers, j \in Job : StartedJob(h, j)
  <2>1. LookupOf(c, ok) \in Evidence /\ LookupOf(c, ok).paid = provider[c].paid
    BY <1>2, LookupIsEvidence DEF LookupOf
  <2>2. PICK h \in Handlers :
          /\ work[h] = Idle
          /\ work' = [work EXCEPT ![h] = [step |-> "observe", via |-> via,
                         c |-> c, ev |-> LookupOf(c, ok)]]
    BY <1>2 DEF StartObserve, Start
  <2>3. [step |-> "observe", via |-> via, c |-> c, ev |-> LookupOf(c, ok)]
          \in ObserveJob
    BY <2>1 DEF ObserveJob
  <2>4. provider[c].paid <= provider[c].paid
    BY DEF TypeOK
  <2>5. Holds([step |-> "observe", via |-> via, c |-> c, ev |-> LookupOf(c, ok)])
    BY <2>1, <2>4 DEF Holds
  <2> QED
    BY <1>2, <2>2, <2>3, <2>5 DEF StartedJob, Job
<1>3. ASSUME NEW c \in Checkouts, Lookup(c) \/ CancelLookup(c)
      PROVE  \E h \in Handlers, j \in Job : StartedJob(h, j)
  BY <1>2, <1>3, BoundAssumption DEF Lookup, CancelLookup, Via
<1>4. ASSUME NEW c \in Checkouts, CancelCall(c)
      PROVE  \/ \E h \in Handlers, j \in Job : StartedJob(h, j)
             \/ /\ provider' = [provider EXCEPT ![c].status = "CANCELLED"]
                /\ UNCHANGED work
  BY <1>2, <1>4, BoundAssumption DEF CancelCall, Via
<1>5. ASSUME NEW c \in Checkouts, CancelWindow(c)
      PROVE  \E h \in Handlers, j \in Job : StartedJob(h, j)
  <2>1. [step |-> "release", c |-> c, review |-> TRUE] \in ReleaseJob
    BY DEF ReleaseJob
  <2> QED
    BY <1>5, <2>1 DEF CancelWindow, Start, StartedJob, Job, Holds
<1>6. ASSUME NEW c \in Checkouts, AdminRetry(c)
      PROVE  \E h \in Handlers, j \in Job : StartedJob(h, j)
  <2>1. [step |-> "finalize", c |-> c, amount |-> attempt[c].received]
          \in FinalizeJob
    BY DEF FinalizeJob, TypeOK, Attempt
  <2> QED
    BY <1>6, <2>1 DEF AdminRetry, Start, StartedJob, Job, Holds
<1>7. UNCHANGED <<stock, checkout, attempt, orders, notices, crashes>>
  BY DEF Starting, DeliverNotice, Lookup, CancelLookup, CancelCall,
         CancelWindow, AdminRetry
<1> QED
  BY <1>1, <1>3, <1>4, <1>5, <1>6, <1>7 DEF Starting

-----------------------------------------------------------------------------
(* Types *)

LEMMA TypeInit == Init => TypeOK
<1> SUFFICES ASSUME Init PROVE TypeOK
  OBVIOUS
<1>1. NewAttempt \in Attempt
  BY DEF NewAttempt, Attempt, PaymentState, OrderState, ResolutionState, NoOrder
<1>2. NewCheckout \in Checkout
  BY DEF NewCheckout, Checkout, CheckoutStatus, Empty
<1>3. Unused \in Order
  BY DEF Unused, Order, Empty
<1>4. [status |-> "NONE", paid |-> 0] \in [status : LinkStatus, paid : Nat]
  BY DEF LinkStatus
<1> QED
  BY <1>1, <1>2, <1>3, <1>4, StockAssumption DEF Init, TypeOK, Job

\* Every step keeps the types.
LEMMA TypeStep == TypeOK /\ [Next]_vars => TypeOK'
<1> SUFFICES ASSUME TypeOK, [Next]_vars PROVE TypeOK'
  OBVIOUS
<1>1. ASSUME NEW c \in Checkouts, NEW cart \in Carts, Reserve(c, cart)
      PROVE  TypeOK'
  BY <1>1, StockAssumption DEF Reserve, TypeOK, Checkout, CheckoutStatus
<1>2. ASSUME NEW c \in Checkouts, LapseHold(c)
      PROVE  TypeOK'
  BY <1>2 DEF LapseHold, TypeOK, Checkout
<1>3. ASSUME NEW cart \in Carts, CashPurchase(cart)
      PROVE  TypeOK'
  <2>1. stock' \in [Products -> Nat]
    BY <1>3, StockAssumption DEF CashPurchase, TypeOK, Take, CanTake
  <2>2. orders' \in [OrderIds -> Order]
    BY <1>3, StockAssumption DEF CashPurchase, TypeOK, Order
  <2> QED
    BY <1>3, <2>1, <2>2 DEF CashPurchase, TypeOK
<1>4. ASSUME NEW o \in OrderIds, CancelOrder(o)
      PROVE  TypeOK'
  BY <1>4 DEF CancelOrder, TypeOK, Order
<1>5. ASSUME NEW c \in Checkouts, CreateLink(c) \/ LinkExpires(c)
      PROVE  TypeOK'
  BY <1>5 DEF CreateLink, LinkExpires, TypeOK, LinkStatus
<1>6. ASSUME NEW c \in Checkouts, NEW a \in Amounts, Transfer(c, a)
      PROVE  TypeOK'
  <2>1. provider[c].paid + a \in Nat /\ a \in Nat
    BY MoneyAssumption DEF TypeOK
  <2>2. LinkAfter(provider[c].status, provider[c].paid + a) \in LinkStatus
    BY DEF LinkAfter, LinkStatus
  <2> QED
    BY <1>6, <2>1, <2>2 DEF Transfer, TypeOK, Notice
<1>7. ASSUME Starting
      PROVE  TypeOK'
  BY <1>7, StartingStep DEF TypeOK, StartedJob, LinkStatus
<1>8. ASSUME NEW h \in Handlers, Observe(h)
      PROVE  TypeOK'
  <2>1. work[h] \in ObserveJob
    BY <1>8, JobKinds DEF Observe, At, TypeOK
  <2>2. attempt[work[h].c] \in Attempt
    BY <2>1 DEF TypeOK, ObserveJob
  <2>3. Record(attempt[work[h].c], work[h]) \in Attempt
    BY <2>1, <2>2, RecordType
  <2>4. FollowUp(work[h], Record(attempt[work[h].c], work[h])) \in Job
    BY <2>1, <2>3, FollowUpType
  <2> QED
    BY <1>8, <2>3, <2>4 DEF Observe, TypeOK, Job
<1>9. ASSUME NEW h \in Handlers, FinalizeReview(h) \/ FinalizeReplay(h)
      PROVE  TypeOK'
  <2>1. work[h].c \in Checkouts
    BY <1>9, JobKinds DEF FinalizeReview, FinalizeReplay, Finalizing, At, TypeOK,
                          FinalizeJob
  <2>2. attempt' \in [Checkouts -> Attempt]
    BY <1>9, <2>1, SendToReviewType DEF FinalizeReview, FinalizeReplay, TypeOK
  <2> QED
    BY <1>9, <2>2 DEF FinalizeReview, FinalizeReplay, Done, TypeOK, Job
<1>10. ASSUME NEW h \in Handlers, OpenSnapshot(h)
       PROVE  TypeOK'
  <2>1. work[h].c \in Checkouts
    BY <1>10, JobKinds DEF OpenSnapshot, Finalizing, At, TypeOK, FinalizeJob
  <2> QED
    BY <1>10, <2>1 DEF OpenSnapshot, InStock, TypeOK, Job, CommitJob
<1>11. ASSUME NEW h \in Handlers, CommitReview(h) \/ CommitRollback(h)
       PROVE  TypeOK'
  <2>1. work[h].c \in Checkouts
    BY <1>11, JobKinds DEF CommitReview, CommitRollback, At, TypeOK, CommitJob
  <2>2. attempt' \in [Checkouts -> Attempt]
    BY <1>11, <2>1, SendToReviewType DEF CommitReview, CommitRollback, TypeOK
  <2> QED
    BY <1>11, <2>2 DEF CommitReview, CommitRollback, Done, TypeOK, Job
<1>12. ASSUME NEW h \in Handlers, CommitOrder(h)
       PROVE  TypeOK'
  <2>1. work[h].c \in Checkouts
    BY <1>12, JobKinds DEF CommitOrder, At, TypeOK, CommitJob
  <2>2. checkout[work[h].c].cart \in [Products -> Nat]
    BY <2>1 DEF TypeOK, Checkout
  <2>3. stock' \in [Products -> Nat]
    BY <1>12, <2>2 DEF CommitOrder, CanTake, Take, TypeOK
  <2>4. orders' \in [OrderIds -> Order]
    BY <1>12, <2>1, <2>2 DEF CommitOrder, TypeOK, Order
  <2>5. attempt' \in [Checkouts -> Attempt]
    <3>1. PICK o \in OrderIds : attempt' =
            [attempt EXCEPT ![work[h].c] = Created(attempt[work[h].c], o)]
      BY <1>12 DEF CommitOrder
    <3>2. Created(attempt[work[h].c], o) \in Attempt
      BY <2>1, ChangeTypes DEF TypeOK
    <3> QED
      BY <3>1, <3>2 DEF TypeOK
  <2>6. checkout' \in [Checkouts -> Checkout]
    BY <1>12, <2>1 DEF CommitOrder, TypeOK, Checkout, CheckoutStatus
  <2>7. work' \in [Handlers -> Job]
    BY <1>12 DEF CommitOrder, Done, TypeOK, Job
  <2> QED
    BY <1>12, <2>3, <2>4, <2>5, <2>6, <2>7 DEF CommitOrder, TypeOK
<1>13. ASSUME NEW h \in Handlers, Release(h)
       PROVE  TypeOK'
  <2>1. work[h].c \in Checkouts
    BY <1>13, JobKinds DEF Release, At, TypeOK, ReleaseJob
  <2>2. Reviewed(attempt[work[h].c]) \in Attempt
    BY <2>1, ChangeTypes DEF TypeOK
  <2>3. checkout' \in [Checkouts -> Checkout]
    <3>1. Freed(checkout[work[h].c]) \in Checkout
      BY <2>1 DEF Freed, TypeOK, Checkout, CheckoutStatus
    <3> QED
      BY <1>13, <3>1 DEF Release, TypeOK
  <2> QED
    BY <1>13, <2>2, <2>3 DEF Release, Done, TypeOK, Job
<1>14. ASSUME NEW h \in Handlers, MarkReview(h)
       PROVE  TypeOK'
  <2>1. work[h].c \in Checkouts
    BY <1>14, JobKinds DEF MarkReview, At, TypeOK, ReviewJob
  <2>2. Reviewed(attempt[work[h].c]) \in Attempt
    BY <2>1, ChangeTypes DEF TypeOK
  <2> QED
    BY <1>14, <2>2 DEF MarkReview, Done, TypeOK, Job
<1>15. ASSUME NEW h \in Handlers, Crash(h)
       PROVE  TypeOK'
  BY <1>15 DEF Crash, Done, TypeOK, Job
<1>16. ASSUME NEW c \in Checkouts, RequestCancellation(c)
       PROVE  TypeOK'
  BY <1>16 DEF RequestCancellation, TypeOK, Attempt
<1>17. ASSUME NEW c \in Checkouts, NEW x \in Refunds, RecordRefund(c, x)
       PROVE  TypeOK'
  BY <1>17, ChangeTypes DEF RecordRefund, TypeOK
<1>18. ASSUME UNCHANGED vars
       PROVE  TypeOK'
  BY <1>18 DEF vars, TypeOK
<1> QED
  BY <1>1, <1>2, <1>3, <1>4, <1>5, <1>6, <1>7, <1>8, <1>9, <1>10, <1>11,
     <1>12, <1>13, <1>14, <1>15, <1>16, <1>17, <1>18
  DEF Next, Shopping, PayOS, Working, Advance, People

\* Every state of the checkout is well typed: stock, in particular, is never
\* driven below zero by any interleaving of purchases and paid checkouts.
THEOREM TypeCorrect == Spec => []TypeOK
BY TypeInit, TypeStep, PTL DEF Spec

-----------------------------------------------------------------------------
(* What one step can do to an attempt, a checkout and the commits under way *)

\* The ways the attempt of c becomes b.
Change(c, b) ==
  LET a == attempt[c] IN
    \/ /\ ~Locked(c)
       /\ \E h \in Handlers : /\ At(h, "observe") /\ work[h].c = c
                              /\ b = Record(a, work[h])
    \/ b = Withheld(a)
    \/ /\ \E h \in Handlers : CommitOrder(h) /\ work[h].c = c
       /\ \E o \in OrderIds : b = Created(a, o)
    \/ ~Locked(c) /\ b = Reviewed(a)
    \/ /\ ~Locked(c) /\ a.ord # "CREATED"
       /\ b = [a EXCEPT !.cancel = TRUE]
    \/ /\ ~Locked(c)
       /\ \E x \in Refunds : /\ Refundable(a) /\ x <= Balance(a)
                             /\ b = Repaid(a, x)

\* A step changes at most one attempt, in one of these ways.
LEMMA AttemptStep ==
  ASSUME TypeOK, [Next]_vars
  PROVE  \/ attempt' = attempt
         \/ \E c \in Checkouts : \E b \in Attempt :
              Change(c, b) /\ attempt' = [attempt EXCEPT ![c] = b]
<1> DEFINE Goal == \/ attempt' = attempt
                   \/ \E c \in Checkouts : \E b \in Attempt :
                        Change(c, b) /\ attempt' = [attempt EXCEPT ![c] = b]
<1>1. ASSUME NEW h \in Handlers, Observe(h)
      PROVE  Goal
  <2>1. work[h] \in ObserveJob /\ work[h].c \in Checkouts
    BY <1>1, JobKinds DEF Observe, At, TypeOK, ObserveJob
  <2>2. Record(attempt[work[h].c], work[h]) \in Attempt
    BY <2>1, RecordType DEF TypeOK
  <2>3. Change(work[h].c, Record(attempt[work[h].c], work[h]))
    BY <1>1 DEF Observe, Change
  <2> QED
    BY <1>1, <2>1, <2>2, <2>3 DEF Observe
<1>2. ASSUME NEW h \in Handlers, FinalizeReview(h) \/ CommitReview(h)
      PROVE  Goal
  <2>1. work[h].c \in Checkouts
    BY <1>2, JobKinds DEF FinalizeReview, CommitReview, Finalizing, At, TypeOK,
                          FinalizeJob, CommitJob
  <2>2. Withheld(attempt[work[h].c]) \in Attempt
    BY <2>1, ChangeTypes DEF TypeOK
  <2>3. Change(work[h].c, Withheld(attempt[work[h].c]))
    BY DEF Change
  <2> QED
    BY <1>2, <2>1, <2>2, <2>3 DEF FinalizeReview, CommitReview, SendToReview
<1>3. ASSUME NEW h \in Handlers, CommitOrder(h)
      PROVE  Goal
  <2>1. work[h].c \in Checkouts
    BY <1>3, JobKinds DEF CommitOrder, At, TypeOK, CommitJob
  <2>2. PICK o \in OrderIds : attempt' =
          [attempt EXCEPT ![work[h].c] = Created(attempt[work[h].c], o)]
    BY <1>3 DEF CommitOrder
  <2>3. Created(attempt[work[h].c], o) \in Attempt
    BY <2>1, ChangeTypes DEF TypeOK
  <2>4. Change(work[h].c, Created(attempt[work[h].c], o))
    BY <1>3 DEF Change
  <2> QED
    BY <2>1, <2>2, <2>3, <2>4
<1>4. ASSUME NEW h \in Handlers, Release(h) \/ MarkReview(h)
      PROVE  Goal
  <2>1. work[h].c \in Checkouts
    BY <1>4, JobKinds DEF Release, MarkReview, At, TypeOK, ReleaseJob, ReviewJob
  <2>2. Reviewed(attempt[work[h].c]) \in Attempt
    BY <2>1, ChangeTypes DEF TypeOK
  <2>3. ~Locked(work[h].c) => Change(work[h].c, Reviewed(attempt[work[h].c]))
    BY DEF Change
  <2>4. \/ attempt' = [attempt EXCEPT ![work[h].c] = attempt[work[h].c]]
        \/ attempt' = [attempt EXCEPT ![work[h].c] = Reviewed(attempt[work[h].c])]
    BY <1>4 DEF Release, MarkReview
  <2>5. [attempt EXCEPT ![work[h].c] = attempt[work[h].c]] = attempt
    BY <2>1 DEF TypeOK
  <2> QED
    BY <1>4, <2>1, <2>2, <2>3, <2>4, <2>5 DEF Release, MarkReview
<1>5. ASSUME NEW c \in Checkouts, RequestCancellation(c)
      PROVE  Goal
  <2> DEFINE b == [attempt[c] EXCEPT !.cancel = TRUE]
  <2>1. b \in Attempt
    BY DEF TypeOK, Attempt
  <2>2. Change(c, b)
    BY <1>5 DEF RequestCancellation, Change
  <2>3. attempt' = [attempt EXCEPT ![c] = b]
    BY <1>5 DEF RequestCancellation, TypeOK
  <2> QED
    BY <2>1, <2>2, <2>3
<1>6. ASSUME NEW c \in Checkouts, NEW x \in Refunds, RecordRefund(c, x)
      PROVE  Goal
  <2>1. Repaid(attempt[c], x) \in Attempt
    BY ChangeTypes DEF TypeOK
  <2>2. Change(c, Repaid(attempt[c], x))
    BY <1>6 DEF RecordRefund, Change
  <2> QED
    BY <1>6, <2>1, <2>2 DEF RecordRefund
<1>7. ASSUME NEW h \in Handlers,
             \/ FinalizeReplay(h) \/ OpenSnapshot(h) \/ CommitRollback(h)
             \/ Crash(h)
      PROVE  attempt' = attempt
  BY <1>7 DEF FinalizeReplay, OpenSnapshot, CommitRollback, Crash
<1>8. ASSUME Shopping \/ PayOS \/ UNCHANGED vars
      PROVE  attempt' = attempt
  BY <1>8 DEF Shopping, PayOS, Reserve, LapseHold, CashPurchase, CancelOrder,
              CreateLink, LinkExpires, Transfer, vars
<1> HIDE DEF Goal
<1>9. Goal
  <2>1. Starting => attempt' = attempt
    BY StartingStep
  <2>2. attempt' = attempt => Goal
    BY DEF Goal
  <2> QED
    BY <1>1, <1>2, <1>3, <1>4, <1>5, <1>6, <1>7, <1>8, <2>1, <2>2
    DEF Next, Working, Advance, People
<1> QED
  BY <1>9 DEF Goal

\* A commit under way was so before, or its snapshot was just opened.
LEMMA CommitEntry ==
  ASSUME TypeOK, [Next]_vars, NEW h \in Handlers, At(h, "commit")'
  PROVE  /\ At(h, "commit") \/ OpenSnapshot(h)
         /\ work'[h].c = work[h].c
         /\ At(h, "commit") =>
              ~OpenSnapshot(h) /\ ~CommitReview(h) /\ ~CommitOrder(h)
<1> USE DEF At, Idle
<1>1. ASSUME NEW g \in Handlers, Done(g)
      PROVE  work'[h] = work[h] /\ h # g
  BY <1>1 DEF Done, TypeOK
<1>2. ASSUME Starting
      PROVE  work'[h] = work[h]
  <2>1. CASE UNCHANGED work
    BY <2>1
  <2>2. ASSUME NEW g \in Handlers, NEW j \in Job, StartedJob(g, j)
        PROVE  work'[h] = work[h]
    BY <2>2 DEF StartedJob, TypeOK
  <2> QED
    BY <1>2, <2>1, <2>2, StartingStep
<1>3. ASSUME NEW g \in Handlers, Observe(g)
      PROVE  work'[h] = work[h]
  <2>1. work[g] \in ObserveJob /\ attempt[work[g].c] \in Attempt
    BY <1>3, JobKinds DEF Observe, TypeOK, ObserveJob
  <2>2. FollowUp(work[g], Record(attempt[work[g].c], work[g])).step # "commit"
    BY <2>1, RecordType, FollowUpType
  <2>3. work'[g].step # "commit"
    BY <1>3, <2>2 DEF Observe, TypeOK
  <2> QED
    BY <1>3, <2>3 DEF Observe, TypeOK
<1>4. ASSUME NEW g \in Handlers, OpenSnapshot(g)
      PROVE  \/ h = g /\ work'[h].c = work[h].c
             \/ h # g /\ work'[h] = work[h]
  BY <1>4 DEF OpenSnapshot, TypeOK
<1>5. ASSUME NEW g \in Handlers,
             \/ FinalizeReview(g) \/ FinalizeReplay(g) \/ CommitReview(g)
             \/ CommitRollback(g) \/ CommitOrder(g) \/ Release(g)
             \/ MarkReview(g) \/ Crash(g)
      PROVE  work'[h] = work[h] /\ h # g
  BY <1>1, <1>5 DEF FinalizeReview, FinalizeReplay, CommitReview, CommitRollback,
                    CommitOrder, Release, MarkReview, Crash
<1>6. ASSUME Shopping \/ PayOS \/ People \/ UNCHANGED vars
      PROVE  work'[h] = work[h]
  BY <1>6 DEF Shopping, PayOS, People, Reserve, LapseHold, CashPurchase,
              CancelOrder, CreateLink, LinkExpires, Transfer,
              RequestCancellation, RecordRefund, vars
<1>7. At(h, "commit") => ~OpenSnapshot(h)
  BY DEF OpenSnapshot, Finalizing
<1>8. ~CommitReview(h) /\ ~CommitOrder(h)
  BY <1>1 DEF CommitReview, CommitOrder
<1> QED
  BY <1>2, <1>3, <1>4, <1>5, <1>6, <1>7, <1>8 DEF Next, Working, Advance

\* The row of a checkout: it is reserved once, released only while no order
\* holds it and no commit is under way, and consumed only by a commit.
LEMMA CheckoutStep ==
  ASSUME TypeOK, [Next]_vars, NEW c \in Checkouts
  PROVE  \/ /\ checkout'[c].status = checkout[c].status
            /\ checkout'[c].cart = checkout[c].cart
         \/ checkout[c].status = "NONE" /\ checkout'[c].status = "PENDING"
         \/ /\ checkout[c].status = "PENDING" /\ checkout'[c].status = "RELEASED"
            /\ checkout'[c].cart = checkout[c].cart
            /\ ~Locked(c)
         \/ /\ \E h \in Handlers : CommitOrder(h) /\ work[h].c = c
            /\ checkout'[c].status = "CONSUMED"
            /\ checkout'[c].cart = checkout[c].cart
<1> USE DEF TypeOK
<1>1. checkout[c] \in Checkout
  OBVIOUS
<1>2. ASSUME NEW d \in Checkouts, NEW cart \in Carts, Reserve(d, cart)
      PROVE  \/ checkout'[c] = checkout[c]
             \/ checkout[c].status = "NONE" /\ checkout'[c].status = "PENDING"
  BY <1>2 DEF Reserve
<1>3. ASSUME NEW d \in Checkouts, LapseHold(d)
      PROVE  /\ checkout'[c].status = checkout[c].status
             /\ checkout'[c].cart = checkout[c].cart
  BY <1>1, <1>3 DEF LapseHold, Checkout
<1>4. ASSUME NEW h \in Handlers, Release(h)
      PROVE  \/ checkout'[c] = checkout[c]
             \/ /\ checkout[c].status = "PENDING"
                /\ checkout'[c].status = "RELEASED"
                /\ checkout'[c].cart = checkout[c].cart
                /\ ~Locked(c)
  <2>1. checkout' = checkout \/
          (checkout' = [checkout EXCEPT ![work[h].c] = Freed(checkout[work[h].c])])
    BY <1>4 DEF Release
  <2>2. checkout'[c] = checkout[c] \/ (c = work[h].c /\ checkout'[c] = Freed(checkout[c]))
    BY <2>1
  <2> QED
    BY <1>1, <1>4, <2>2 DEF Release, Freed, Checkout
<1>5. ASSUME NEW h \in Handlers, CommitOrder(h)
      PROVE  \/ checkout'[c] = checkout[c]
             \/ /\ work[h].c = c /\ checkout'[c].status = "CONSUMED"
                /\ checkout'[c].cart = checkout[c].cart
  BY <1>1, <1>5 DEF CommitOrder, Checkout
<1>6. ASSUME NEW h \in Handlers,
             \/ Observe(h) \/ FinalizeReview(h) \/ FinalizeReplay(h)
             \/ OpenSnapshot(h) \/ CommitReview(h) \/ CommitRollback(h)
             \/ MarkReview(h) \/ Crash(h)
      PROVE  checkout' = checkout
  BY <1>6 DEF Observe, FinalizeReview, FinalizeReplay, OpenSnapshot, CommitReview,
              CommitRollback, MarkReview, Crash
<1>7. ASSUME \/ PayOS \/ People \/ UNCHANGED vars \/ Starting
             \/ \E cart \in Carts : CashPurchase(cart)
             \/ \E o \in OrderIds : CancelOrder(o)
      PROVE  checkout' = checkout
  BY <1>7, StartingStep DEF PayOS, People, CashPurchase, CancelOrder, CreateLink,
              LinkExpires, Transfer, RequestCancellation, RecordRefund, vars
<1> QED
  BY <1>2, <1>3, <1>4, <1>5, <1>6, <1>7 DEF Next, Shopping, Working, Advance

\* What a change keeps and what it needs.  Under a commit, which locks the
\* attempt, only its review state or its order changes; money is counted only
\* on trusted evidence and refunded only while there is no order.
LEMMA ChangeEffect ==
  ASSUME TypeOK, NEW c \in Checkouts, NEW b \in Attempt, Change(c, b),
         NEW a, a = attempt[c]
  PROVE  /\ a.pay = "PAID" => b.pay = "PAID"
         /\ b.received >= a.received /\ b.refunded >= a.refunded
         /\ a.cancel => b.cancel
         /\ a.seen \subseteq b.seen
         /\ Locked(c) => /\ b.pay = a.pay /\ b.cancel = a.cancel
                         /\ b.received = a.received /\ b.refunded = a.refunded
         /\ b.order # a.order =>
              /\ b.cancel = a.cancel
              /\ b.received = a.received /\ b.refunded = a.refunded
              /\ \E h \in Handlers : CommitOrder(h) /\ work[h].c = c
         /\ b.received # a.received =>
              /\ b.refunded = a.refunded /\ b.cancel = a.cancel
              /\ \E h \in Handlers : /\ At(h, "observe") /\ work[h].c = c
                                     /\ b.received = work[h].ev.paid
              /\ \E s \in b.seen : /\ s[2].ok /\ s[2].status = "PAID"
                                   /\ s[2].paid = b.received
         /\ b.refunded # a.refunded =>
              /\ a.order = NoOrder /\ b.refunded <= a.received
              /\ b.received = a.received /\ b.cancel = a.cancel
         /\ (b.pay = "PAID" /\ a.pay # "PAID") =>
              \E s \in b.seen : /\ s[2].ok /\ s[2].status = "PAID"
                               /\ s[2].reported = Expected
                               /\ s[2].paid = Expected
<1>1. a \in Attempt /\ a.received \in Nat /\ a.refunded \in Nat
  BY DEF TypeOK, Attempt
<1>2. ASSUME NEW h \in Handlers, At(h, "observe"), work[h].c = c,
             b = Record(a, work[h]), ~Replayed(a, work[h]), ~Locked(c)
      PROVE  /\ b.pay = NextPay(a, work[h].ev)
             /\ b.received = NextReceived(a, work[h].ev)
             /\ b.refunded = a.refunded /\ b.order = a.order
             /\ b.seen = a.seen \cup {<<SourceOf(work[h].via), work[h].ev>>}
             /\ b.cancel <=> (a.cancel \/ (/\ work[h].ev.status = "CANCELLED"
                                           /\ ~Conflicting(a, work[h].ev)))
  BY <1>2 DEF Record
<1>3. ASSUME NEW h \in Handlers, At(h, "observe"), work[h].c = c,
             b = Record(a, work[h]), ~Replayed(a, work[h]), ~Locked(c)
      PROVE  /\ a.pay = "PAID" => b.pay = "PAID"
             /\ b.received >= a.received /\ b.refunded = a.refunded
             /\ a.cancel => b.cancel
             /\ a.seen \subseteq b.seen /\ b.order = a.order
             /\ b.received # a.received =>
                  /\ b.received = work[h].ev.paid
                  /\ b.cancel = a.cancel
                  /\ \E s \in b.seen : /\ s[2].ok /\ s[2].status = "PAID"
                                       /\ s[2].paid = b.received
             /\ (b.pay = "PAID" /\ a.pay # "PAID") =>
                  \E s \in b.seen : /\ s[2].ok /\ s[2].status = "PAID"
                                   /\ s[2].reported = Expected
                                   /\ s[2].paid = Expected
  <2>1. work[h] \in ObserveJob /\ work[h].ev \in Evidence
    BY <1>3, JobKinds DEF At, TypeOK, ObserveJob
  <2>2. work[h].ev.paid \in Nat
    BY <2>1 DEF Evidence
  <2>3. <<SourceOf(work[h].via), work[h].ev>> \in b.seen
    BY <1>2, <1>3
  <2>4. <<SourceOf(work[h].via), work[h].ev>>[2] = work[h].ev
    OBVIOUS
  <2>5. b.received # a.received =>
          /\ b.received = work[h].ev.paid /\ b.received > a.received
          /\ work[h].ev.status = "PAID" /\ work[h].ev.ok
    BY <1>1, <1>2, <1>3, <2>2 DEF NextReceived, Trusted
  <2>6. (b.pay = "PAID" /\ a.pay # "PAID") =>
          /\ work[h].ev.status = "PAID" /\ work[h].ev.ok
          /\ work[h].ev.reported = Expected /\ work[h].ev.paid = Expected
    BY <1>2, <1>3 DEF NextPay, Conflicting, Exact, Trusted
  <2>7. a.pay = "PAID" => b.pay = "PAID"
    BY <1>2, <1>3 DEF NextPay
  <2>8. b.received # a.received => b.cancel = a.cancel
    <3>1. b.received # a.received => (b.cancel <=> a.cancel)
      BY <1>2, <1>3, <2>5
    <3> QED
      BY <1>1, <3>1 DEF Attempt
  <2>9. (a.cancel => b.cancel) /\ a.seen \subseteq b.seen
    BY <1>2, <1>3
  <2>10. b.received >= a.received
    BY <1>1, <2>2, <2>5
  <2> QED
    BY <1>2, <1>3, <2>3, <2>4, <2>5, <2>6, <2>7, <2>8, <2>9, <2>10
<1>4. ASSUME \/ b = a \/ b = Withheld(a) \/ b = Reviewed(a)
      PROVE  /\ b.pay = a.pay /\ b.received = a.received
             /\ b.refunded = a.refunded /\ b.cancel = a.cancel
             /\ b.seen = a.seen /\ b.order = a.order
  BY <1>1, <1>4 DEF Withheld, Reviewed, Attempt
<1>5. ASSUME NEW o \in OrderIds, b = Created(a, o)
      PROVE  /\ b.pay = a.pay /\ b.received = a.received
             /\ b.refunded = a.refunded /\ b.cancel = a.cancel
             /\ b.seen = a.seen
  BY <1>1, <1>5 DEF Created, Attempt
<1>6. ASSUME b = [a EXCEPT !.cancel = TRUE]
      PROVE  /\ b.pay = a.pay /\ b.received = a.received
             /\ b.refunded = a.refunded /\ b.cancel
             /\ b.seen = a.seen /\ b.order = a.order
  BY <1>1, <1>6 DEF Attempt
<1>7. ASSUME NEW x \in Refunds, Refundable(a), x <= Balance(a), b = Repaid(a, x)
      PROVE  /\ b.pay = a.pay /\ b.received = a.received
             /\ b.refunded > a.refunded /\ b.refunded <= a.received
             /\ b.cancel = a.cancel /\ b.seen = a.seen
             /\ b.order = a.order /\ a.order = NoOrder
  <2>1. b.refunded = a.refunded + x /\ x \in Nat /\ x > 0
    BY <1>1, <1>7, MoneyAssumption DEF Repaid, Attempt
  <2>2. b.refunded > a.refunded /\ b.refunded <= a.received
    BY <1>1, <1>7, <2>1 DEF Balance
  <2> QED
    BY <1>1, <1>7, <2>2 DEF Repaid, Refundable, Attempt
<1>8. ASSUME NEW h \in Handlers, b = Record(a, work[h]), Replayed(a, work[h])
      PROVE  b = a
  BY <1>8 DEF Record
<1>9. a.received >= a.received /\ a.refunded >= a.refunded
  BY <1>1
<1> QED
  <2>1. CASE b = a \/ b = Withheld(a) \/ b = Reviewed(a)
    BY <1>4, <1>9, <2>1
  <2>2. CASE /\ ~Locked(c)
             /\ \E h \in Handlers : /\ At(h, "observe") /\ work[h].c = c
                                    /\ b = Record(a, work[h])
    <3>1. PICK h \in Handlers : /\ At(h, "observe") /\ work[h].c = c
                                 /\ b = Record(a, work[h])
      BY <2>2
    <3>2. CASE Replayed(a, work[h])
      BY <1>8, <2>1, <3>1, <3>2
    <3>3. CASE ~Replayed(a, work[h])
      BY <1>3, <1>9, <2>2, <3>1, <3>3
    <3> QED
      BY <3>2, <3>3
  <2>3. CASE /\ \E h \in Handlers : CommitOrder(h) /\ work[h].c = c
             /\ \E o \in OrderIds : b = Created(a, o)
    BY <1>5, <1>9, <2>3
  <2>4. CASE ~Locked(c) /\ b = [a EXCEPT !.cancel = TRUE]
    BY <1>6, <1>9, <2>4
  <2>5. CASE /\ ~Locked(c)
             /\ \E x \in Refunds : /\ Refundable(a) /\ x <= Balance(a)
                                   /\ b = Repaid(a, x)
    <3>1. PICK x \in Refunds : /\ Refundable(a) /\ x <= Balance(a)
                               /\ b = Repaid(a, x)
      BY <2>5
    <3>2. b.refunded \in Nat
      BY DEF Attempt
    <3> QED
      BY <1>1, <1>7, <1>9, <2>5, <3>1, <3>2
  <2>6. \/ b = Withheld(a) \/ b = Reviewed(a)
        \/ /\ ~Locked(c)
           /\ \E h \in Handlers : /\ At(h, "observe") /\ work[h].c = c
                                  /\ b = Record(a, work[h])
        \/ /\ \E h \in Handlers : CommitOrder(h) /\ work[h].c = c
           /\ \E o \in OrderIds : b = Created(a, o)
        \/ ~Locked(c) /\ b = [a EXCEPT !.cancel = TRUE]
        \/ /\ ~Locked(c)
           /\ \E x \in Refunds : /\ Refundable(a) /\ x <= Balance(a)
                                 /\ b = Repaid(a, x)
    BY DEF Change
  <2> QED
    BY <2>1, <2>2, <2>3, <2>4, <2>5, <2>6

-----------------------------------------------------------------------------
(* Money: refunds are covered by receipts, and receipts by what was paid. *)

\* What carries money from the provider to the attempts never overstates it.
Carried ==
  /\ \A n \in notices : n.amount <= provider[n.c].paid
  /\ \A h \in Handlers :
       At(h, "observe") => work[h].ev.paid <= provider[work[h].c].paid

MoneyInv == RefundsCovered /\ Carried

\* The provider's total only grows.
LEMMA PaidGrows ==
  ASSUME TypeOK, [Next]_vars, NEW c \in Checkouts
  PROVE  provider'[c].paid >= provider[c].paid
<1>1. provider[c].paid \in Nat /\ provider[c].paid >= provider[c].paid
  BY DEF TypeOK
<1>2. ASSUME NEW d \in Checkouts, NEW a \in Amounts, Transfer(d, a)
      PROVE  provider'[c].paid >= provider[c].paid
  BY <1>1, <1>2, MoneyAssumption DEF Transfer, TypeOK
<1>3. ASSUME NEW d \in Checkouts, CreateLink(d) \/ LinkExpires(d)
      PROVE  provider'[c].paid = provider[c].paid
  BY <1>3 DEF CreateLink, LinkExpires, TypeOK
<1>4. ASSUME Starting
      PROVE  provider'[c].paid = provider[c].paid
  BY <1>4, StartingStep DEF StartedJob, TypeOK
<1>5. ASSUME Shopping \/ Working \/ People \/ UNCHANGED vars
      PROVE  provider' = provider
  BY <1>5 DEF Shopping, Working, People, Advance, Reserve, LapseHold,
              CashPurchase, CancelOrder, Observe, FinalizeReview, FinalizeReplay,
              OpenSnapshot, CommitReview, CommitRollback, CommitOrder, Release,
              MarkReview, Crash, RequestCancellation, RecordRefund, vars
<1> QED
  BY <1>1, <1>2, <1>3, <1>4, <1>5 DEF Next, PayOS

\* An observation under way was so before, or has just been started.
LEMMA ObserveEntry ==
  ASSUME TypeOK, [Next]_vars, NEW h \in Handlers, At(h, "observe")'
  PROVE  work'[h] = work[h] \/ StartedJob(h, work'[h])
<1> USE DEF At, Idle
<1>1. ASSUME Starting
      PROVE  work'[h] = work[h] \/ StartedJob(h, work'[h])
  <2>1. CASE UNCHANGED work
    BY <2>1
  <2>2. ASSUME NEW g \in Handlers, NEW j \in Job, StartedJob(g, j)
        PROVE  work'[h] = work[h] \/ StartedJob(h, work'[h])
    BY <2>2 DEF StartedJob, TypeOK
  <2> QED
    BY <1>1, <2>1, <2>2, StartingStep
<1>2. ASSUME NEW g \in Handlers, Observe(g)
      PROVE  work'[h] = work[h]
  <2>1. work[g] \in ObserveJob /\ attempt[work[g].c] \in Attempt
    BY <1>2, JobKinds DEF Observe, TypeOK, ObserveJob
  <2>2. FollowUp(work[g], Record(attempt[work[g].c], work[g])).step # "observe"
    BY <2>1, RecordType, FollowUpType
  <2>3. work'[g].step # "observe"
    BY <1>2, <2>2 DEF Observe, TypeOK
  <2> QED
    BY <1>2, <2>3 DEF Observe, TypeOK
<1>3. ASSUME NEW g \in Handlers,
             \/ FinalizeReview(g) \/ FinalizeReplay(g) \/ CommitReview(g)
             \/ CommitRollback(g) \/ CommitOrder(g) \/ Release(g)
             \/ MarkReview(g) \/ Crash(g) \/ OpenSnapshot(g)
      PROVE  work'[h] = work[h]
  BY <1>3 DEF Done, FinalizeReview, FinalizeReplay, CommitReview, CommitRollback,
              CommitOrder, Release, MarkReview, Crash, OpenSnapshot, TypeOK
<1>4. ASSUME Shopping \/ PayOS \/ People \/ UNCHANGED vars
      PROVE  work'[h] = work[h]
  BY <1>4 DEF Shopping, PayOS, People, Reserve, LapseHold, CashPurchase,
              CancelOrder, CreateLink, LinkExpires, Transfer,
              RequestCancellation, RecordRefund, vars
<1> QED
  BY <1>1, <1>2, <1>3, <1>4 DEF Next, Working, Advance

LEMMA NoticeEntry ==
  ASSUME TypeOK, [Next]_vars, NEW n \in notices'
  PROVE  n \in notices \/ n.amount <= provider'[n.c].paid
<1>1. ASSUME NEW d \in Checkouts, NEW a \in Amounts, Transfer(d, a),
             n \notin notices
      PROVE  n.amount <= provider'[n.c].paid
  <2>1. n.c = d /\ n.amount = a
    BY <1>1 DEF Transfer
  <2>2. provider'[d].paid = provider[d].paid + a
    BY <1>1 DEF Transfer, TypeOK
  <2>3. provider[d].paid \in Nat /\ a \in Nat
    BY MoneyAssumption DEF TypeOK
  <2> QED
    BY <2>1, <2>2, <2>3
<1>2. ASSUME NEW d \in Checkouts, CreateLink(d) \/ LinkExpires(d)
      PROVE  notices' = notices
  BY <1>2 DEF CreateLink, LinkExpires
<1>3. ASSUME Starting \/ Shopping \/ Working \/ People \/ UNCHANGED vars
      PROVE  notices' = notices
  BY <1>3, StartingStep
     DEF Shopping, Working, People, Advance, Reserve, LapseHold,
              CashPurchase, CancelOrder, Observe, FinalizeReview, FinalizeReplay,
              OpenSnapshot, CommitReview, CommitRollback, CommitOrder, Release,
              MarkReview, Crash, RequestCancellation, RecordRefund, vars
<1> QED
  BY <1>1, <1>2, <1>3 DEF Next, PayOS

LEMMA MoneyStep == TypeOK /\ MoneyInv /\ [Next]_vars => MoneyInv'
<1> SUFFICES ASSUME TypeOK, MoneyInv, [Next]_vars PROVE MoneyInv'
  OBVIOUS
<1>1. TypeOK'
  BY TypeStep
<1>2. ASSUME NEW n \in notices'
      PROVE  n.amount <= provider'[n.c].paid
  <2>1. CASE n \in notices
    <3>1. n.c \in Checkouts /\ n.amount \in Nat
      BY <2>1 DEF TypeOK, Notice
    <3>2. provider[n.c].paid \in Nat /\ provider'[n.c].paid \in Nat
      BY <1>1, <3>1 DEF TypeOK
    <3>3. n.amount <= provider[n.c].paid /\ provider'[n.c].paid >= provider[n.c].paid
      BY <2>1, <3>1, PaidGrows DEF MoneyInv, Carried
    <3> QED
      BY <3>1, <3>2, <3>3
  <2> QED
    BY <2>1, NoticeEntry
<1>3. ASSUME NEW h \in Handlers, At(h, "observe")'
      PROVE  work'[h].ev.paid <= provider'[work'[h].c].paid
  <2>1. work'[h] \in ObserveJob
    BY <1>1, <1>3, JobKinds DEF At, TypeOK
  <2>2. work'[h].c \in Checkouts /\ work'[h].ev.paid \in Nat
    BY <2>1 DEF ObserveJob, Evidence
  <2>3. /\ provider[work'[h].c].paid \in Nat /\ provider'[work'[h].c].paid \in Nat
        /\ provider'[work'[h].c].paid >= provider[work'[h].c].paid
    BY <1>1, <2>2, PaidGrows DEF TypeOK
  <2>4. work'[h].ev.paid <= provider[work'[h].c].paid
    <3>1. CASE work'[h] = work[h]
      BY <1>3, <3>1 DEF MoneyInv, Carried, At
    <3>2. CASE StartedJob(h, work'[h])
      BY <1>3, <3>2 DEF StartedJob, Holds, MoneyInv, Carried, At
    <3> QED
      BY <1>3, <3>1, <3>2, ObserveEntry
  <2> QED
    BY <2>2, <2>3, <2>4
<1>4. ASSUME NEW c \in Checkouts
      PROVE  /\ attempt'[c].refunded <= attempt'[c].received
             /\ attempt'[c].received <= provider'[c].paid
  <2> DEFINE a == attempt[c]
             b == attempt'[c]
  <2>1. /\ a.received \in Nat /\ a.refunded \in Nat /\ provider[c].paid \in Nat
        /\ b.received \in Nat /\ b.refunded \in Nat /\ provider'[c].paid \in Nat
        /\ provider'[c].paid >= provider[c].paid
    BY <1>1, PaidGrows DEF TypeOK, Attempt
  <2>2. a.refunded <= a.received /\ a.received <= provider[c].paid
    BY DEF MoneyInv, RefundsCovered
  <2>3. CASE b = a
    BY <2>1, <2>2, <2>3
  <2>4. CASE Change(c, b)
    <3> HIDE DEF b
    <3>1. b \in Attempt
      BY <1>1 DEF TypeOK, b
    <3>2. b.received # a.received =>
            /\ b.refunded = a.refunded
            /\ \E h \in Handlers : /\ At(h, "observe") /\ work[h].c = c
                                   /\ b.received = work[h].ev.paid
      BY <2>4, <3>1, ChangeEffect
    <3>3. b.received # a.received => b.received <= provider[c].paid
      BY <3>2 DEF MoneyInv, Carried
    <3>4. b.refunded # a.refunded =>
            b.refunded <= a.received /\ b.received = a.received
      BY <2>4, <3>1, ChangeEffect
    <3>5. b.received >= a.received
      BY <2>4, <3>1, ChangeEffect
    <3>6. b.received \in Nat /\ b.refunded \in Nat
      BY <3>1 DEF Attempt
    <3>7. b.refunded <= b.received /\ b.received <= provider'[c].paid
      BY <2>1, <2>2, <3>2, <3>3, <3>4, <3>5, <3>6
    <3> QED
      BY <3>7 DEF b
  <2> QED
    BY <2>3, <2>4, AttemptStep DEF TypeOK
<1> QED
  BY <1>2, <1>3, <1>4 DEF MoneyInv, RefundsCovered, Carried, At

LEMMA MoneyInit == Init => MoneyInv
BY DEF Init, MoneyInv, RefundsCovered, Carried, NewAttempt, At, Idle

\* What an operator records as sent back never exceeds what was verified as
\* received, nor that what the customer paid.
THEOREM RefundsAlwaysCovered == Spec => []RefundsCovered
<1>1. Init => MoneyInv
  BY MoneyInit
<1>2. TypeOK /\ MoneyInv /\ [Next]_vars => MoneyInv'
  BY MoneyStep
<1>3. MoneyInv => RefundsCovered
  BY DEF MoneyInv
<1> QED
  BY <1>1, <1>2, <1>3, TypeCorrect, PTL DEF Spec

-----------------------------------------------------------------------------
(* Orders: one per checkout, for money received in full and not sent back. *)

\* A commit decided on the attempt and the checkout it has locked, and what it
\* decided on still holds: no other transaction gets past the lock.
CommitsReady ==
  \A h \in Handlers : At(h, "commit") =>
    /\ attempt[work[h].c].pay = "PAID"
    /\ attempt[work[h].c].received = Expected
    /\ attempt[work[h].c].refunded = 0
    /\ ~attempt[work[h].c].cancel
    /\ checkout[work[h].c].status = "PENDING"

OneCommit ==
  \A g, h \in Handlers :
    (At(g, "commit") /\ At(h, "commit") /\ work[g].c = work[h].c) => g = h

ConsumedByOrder ==
  \A c \in Checkouts :
    (checkout[c].status = "CONSUMED") <=> (attempt[c].order # NoOrder)

CommitInv ==
  /\ CommitsReady /\ OneCommit /\ ConsumedByOrder
  /\ NoDoubleSettlement

LEMMA CommitInit == Init => CommitInv
BY DEF Init, CommitInv, CommitsReady, OneCommit, ConsumedByOrder,
       NoDoubleSettlement, NewAttempt, NewCheckout, At, Idle

LEMMA AttemptChange ==
  ASSUME TypeOK, [Next]_vars, NEW c \in Checkouts
  PROVE  attempt'[c] = attempt[c] \/ Change(c, attempt'[c])
BY AttemptStep DEF TypeOK

\* What CommitOrder does to its own checkout.
LEMMA CommitOrderEffect ==
  ASSUME TypeOK, CommitInv, NEW h \in Handlers, CommitOrder(h)
  PROVE  /\ work[h].c \in Checkouts
         /\ checkout'[work[h].c].status = "CONSUMED"
         /\ attempt[work[h].c].order = NoOrder
         /\ attempt[work[h].c].refunded = 0
         /\ attempt[work[h].c].received = Expected
         /\ ~attempt[work[h].c].cancel
         /\ attempt'[work[h].c].order \in OrderIds
         /\ attempt'[work[h].c].order # NoOrder
         /\ attempt'[work[h].c].refunded = 0
         /\ attempt'[work[h].c].received = Expected
<1>1. work[h].c \in Checkouts
  BY JobKinds DEF CommitOrder, At, TypeOK, CommitJob
<1>2. attempt[work[h].c] \in Attempt /\ checkout[work[h].c] \in Checkout
  BY <1>1 DEF TypeOK
<1>3. PICK o \in OrderIds : attempt' =
        [attempt EXCEPT ![work[h].c] = Created(attempt[work[h].c], o)]
  BY DEF CommitOrder
<1>4. attempt'[work[h].c] = Created(attempt[work[h].c], o)
  BY <1>1, <1>3 DEF TypeOK
<1>5. /\ attempt[work[h].c].refunded = 0
      /\ attempt[work[h].c].received = Expected
      /\ ~attempt[work[h].c].cancel
      /\ checkout[work[h].c].status = "PENDING"
  BY DEF CommitOrder, CommitInv, CommitsReady
<1>6. attempt[work[h].c].order = NoOrder
  BY <1>1, <1>5 DEF CommitInv, ConsumedByOrder
<1>7. checkout'[work[h].c].status = "CONSUMED"
  BY <1>1, <1>2 DEF CommitOrder, TypeOK, Checkout
<1>8. /\ attempt'[work[h].c].order = o
      /\ attempt'[work[h].c].refunded = attempt[work[h].c].refunded
      /\ attempt'[work[h].c].received = attempt[work[h].c].received
  BY <1>2, <1>4 DEF Created, Attempt
<1>9. o # NoOrder
  BY OrderAssumption DEF NoOrder
<1> QED
  BY <1>1, <1>5, <1>6, <1>7, <1>8, <1>9

LEMMA CommitStep == TypeOK /\ CommitInv /\ [Next]_vars => CommitInv'
<1> SUFFICES ASSUME TypeOK, CommitInv, [Next]_vars PROVE CommitInv'
  OBVIOUS
<1>0. TypeOK'
  BY TypeStep
<1>1. CommitsReady'
  <2> SUFFICES ASSUME NEW h \in Handlers, At(h, "commit")'
               PROVE  /\ attempt'[work'[h].c].pay = "PAID"
                      /\ attempt'[work'[h].c].received = Expected
                      /\ attempt'[work'[h].c].refunded = 0
                      /\ ~attempt'[work'[h].c].cancel
                      /\ checkout'[work'[h].c].status = "PENDING"
    BY DEF CommitsReady, At
  <2> DEFINE c == work[h].c
  <2>1. work'[h].c = c /\ c \in Checkouts
    BY <1>0, CommitEntry, JobKinds DEF At, TypeOK, CommitJob
  <2>2. CASE At(h, "commit")
    <3>1. Locked(c)
      BY <2>2 DEF Locked, At
    <3>2. /\ attempt[c].pay = "PAID" /\ attempt[c].received = Expected
          /\ attempt[c].refunded = 0 /\ ~attempt[c].cancel
          /\ checkout[c].status = "PENDING"
      BY <2>2 DEF CommitInv, CommitsReady
    <3>3. attempt'[c] \in Attempt
      BY <1>0, <2>1 DEF TypeOK
    <3>4. /\ attempt'[c].pay = attempt[c].pay
          /\ attempt'[c].cancel = attempt[c].cancel
          /\ attempt'[c].received = attempt[c].received
          /\ attempt'[c].refunded = attempt[c].refunded
      BY <2>1, <3>1, <3>3, AttemptChange, ChangeEffect
    <3>5. ASSUME NEW g \in Handlers, CommitOrder(g), work[g].c = c
          PROVE  FALSE
      <4>1. g = h
        BY <2>2, <3>5 DEF CommitInv, OneCommit, CommitOrder
      <4> QED
        BY <2>2, <3>5, <4>1, CommitEntry
    <3>6. checkout'[c].status = "PENDING"
      BY <2>1, <3>1, <3>2, <3>5, CheckoutStep
    <3> QED
      BY <2>1, <3>2, <3>4, <3>6
  <2>3. CASE OpenSnapshot(h)
    <3>1. /\ attempt[c].pay = "PAID" /\ attempt[c].received = Expected
          /\ attempt[c].refunded = 0 /\ ~attempt[c].cancel
          /\ checkout[c].status = "PENDING"
      BY <2>1, <2>3 DEF OpenSnapshot, MayCreate, Settled, Matches, Payable, TypeOK,
                        Attempt
    <3>2. attempt' = attempt /\ checkout' = checkout
      BY <2>3 DEF OpenSnapshot
    <3> QED
      BY <2>1, <3>1, <3>2
  <2> QED
    BY <2>2, <2>3, CommitEntry
<1>2. OneCommit'
  <2> SUFFICES ASSUME NEW g \in Handlers, NEW h \in Handlers,
                      At(g, "commit")', At(h, "commit")', work'[g].c = work'[h].c,
                      g # h
               PROVE  FALSE
    BY DEF OneCommit, At
  <2>1. work'[g].c = work[g].c /\ work'[h].c = work[h].c
    BY CommitEntry
  <2>2. CASE At(g, "commit") /\ At(h, "commit")
    BY <2>1, <2>2 DEF CommitInv, OneCommit
  <2>3. ASSUME NEW u \in Handlers, NEW v \in Handlers, u # v,
               OpenSnapshot(u), At(v, "commit")', work[u].c = work[v].c
        PROVE  FALSE
    <3>1. At(v, "commit")
      BY <2>3 DEF OpenSnapshot, At, TypeOK
    <3> QED
      BY <2>3, <3>1 DEF OpenSnapshot, Finalizing, Locked, At
  <2> QED
    BY <2>1, <2>2, <2>3, CommitEntry
<1>3. ASSUME NEW c \in Checkouts
      PROVE  /\ (checkout'[c].status = "CONSUMED") <=> (attempt'[c].order # NoOrder)
             /\ attempt'[c].order # NoOrder =>
                  attempt'[c].refunded = 0 /\ attempt'[c].received >= Expected
  <2>0. /\ attempt[c] \in Attempt /\ attempt'[c] \in Attempt
        /\ attempt[c].received \in Nat /\ attempt'[c].received \in Nat
        /\ Expected \in Nat
    BY <1>0, MoneyAssumption DEF TypeOK, Attempt
  <2>1. CASE \E h \in Handlers : CommitOrder(h) /\ work[h].c = c
    BY <2>0, <2>1, CommitOrderEffect
  <2>2. CASE ~ \E h \in Handlers : CommitOrder(h) /\ work[h].c = c
    <3>1. attempt'[c].order = attempt[c].order
      BY <2>0, <2>2, AttemptChange, ChangeEffect
    <3>2. (checkout'[c].status = "CONSUMED") <=> (checkout[c].status = "CONSUMED")
      BY <2>2, CheckoutStep
    <3>3. attempt[c].order # NoOrder => attempt'[c].refunded = attempt[c].refunded
      BY <2>0, AttemptChange, ChangeEffect
    <3>4. attempt'[c].received >= attempt[c].received
      BY <2>0, AttemptChange, ChangeEffect
    <3>5. /\ (checkout[c].status = "CONSUMED") <=> (attempt[c].order # NoOrder)
          /\ attempt[c].order # NoOrder =>
               attempt[c].refunded = 0 /\ attempt[c].received >= Expected
      BY DEF CommitInv, ConsumedByOrder, NoDoubleSettlement
    <3> QED
      BY <2>0, <3>1, <3>2, <3>3, <3>4, <3>5
  <2> QED
    BY <2>1, <2>2
<1> QED
  BY <1>1, <1>2, <1>3 DEF CommitInv, ConsumedByOrder, NoDoubleSettlement

LEMMA CommitAlways == Spec => []CommitInv
BY CommitInit, CommitStep, TypeCorrect, PTL DEF Spec

\* Money is settled once: no attempt has both an order and a refund, whatever
\* retries, redeliveries, refunds and cancellations interleave with it.
THEOREM SettledOnce == Spec => []NoDoubleSettlement
<1>1. CommitInv => NoDoubleSettlement
  BY DEF CommitInv
<1> QED
  BY <1>1, CommitAlways, PTL

\* A verified payment, an order and a cancellation request stay, and amounts
\* only grow, in every step.
THEOREM FactsStay == Spec => ReceiptsPersist
<1> DEFINE Stays ==
      \A c \in Checkouts :
        /\ attempt[c].pay = "PAID" => attempt'[c].pay = "PAID"
        /\ attempt'[c].received >= attempt[c].received
        /\ attempt'[c].refunded >= attempt[c].refunded
        /\ attempt[c].order # NoOrder => attempt'[c].order = attempt[c].order
        /\ attempt[c].cancel => attempt'[c].cancel
<1>1. TypeOK /\ CommitInv /\ [Next]_vars => Stays
  <2> SUFFICES ASSUME TypeOK, CommitInv, [Next]_vars, NEW c \in Checkouts
               PROVE  /\ attempt[c].pay = "PAID" => attempt'[c].pay = "PAID"
                      /\ attempt'[c].received >= attempt[c].received
                      /\ attempt'[c].refunded >= attempt[c].refunded
                      /\ attempt[c].order # NoOrder =>
                           attempt'[c].order = attempt[c].order
                      /\ attempt[c].cancel => attempt'[c].cancel
    OBVIOUS
  <2>1. /\ attempt'[c] \in Attempt
        /\ attempt[c].received \in Nat /\ attempt[c].refunded \in Nat
    BY TypeStep DEF TypeOK, Attempt
  <2>2. CASE attempt'[c] = attempt[c]
    BY <2>1, <2>2
  <2>3. CASE Change(c, attempt'[c])
    <3>1. attempt[c].order # NoOrder => attempt'[c].order = attempt[c].order
      BY <2>1, <2>3, ChangeEffect, CommitOrderEffect
    <3> QED
      BY <2>1, <2>3, <3>1, ChangeEffect
  <2> QED
    BY <2>2, <2>3, AttemptChange
<1>2. [Next]_vars /\ TypeOK /\ CommitInv => [Stays]_vars
  BY <1>1
<1> QED
  BY <1>2, TypeCorrect, CommitAlways, PTL DEF Spec, ReceiptsPersist

-----------------------------------------------------------------------------
(* One order per checkout *)

\* An order belongs to the checkout whose attempt names it, and to no other.
OrderLinks ==
  \A o \in OrderIds, c \in Checkouts :
    /\ (orders[o].status # "NONE" /\ orders[o].src = c) <=> attempt[c].order = o
    /\ attempt[c].order = o => orders[o].cart = checkout[c].cart

LEMMA LinksInit == Init => OrderLinks
BY OrderAssumption DEF Init, OrderLinks, Unused, NewAttempt, NoOrder

\* Steps that touch no order, and the two that touch only cash orders.
LEMMA OrdersStep ==
  ASSUME TypeOK, [Next]_vars, NEW o \in OrderIds
  PROVE  \/ orders'[o] = orders[o]
         \/ /\ \/ orders[o].src = Cash \/ orders[o].status = "NONE"
            /\ orders'[o].src = Cash
         \/ \E h \in Handlers : CommitOrder(h)
<1>1. ASSUME NEW cart \in Carts, CashPurchase(cart)
      PROVE  \/ orders'[o] = orders[o]
             \/ orders[o].status = "NONE" /\ orders'[o].src = Cash
  BY <1>1 DEF CashPurchase, FreshOrder, Unused, TypeOK
<1>2. ASSUME NEW q \in OrderIds, CancelOrder(q)
      PROVE  \/ orders'[o] = orders[o]
             \/ orders[o].src = Cash /\ orders'[o].src = Cash
  BY <1>2 DEF CancelOrder, TypeOK, Order
<1>3. ASSUME NEW h \in Handlers,
             \/ Observe(h) \/ FinalizeReview(h) \/ FinalizeReplay(h)
             \/ OpenSnapshot(h) \/ CommitReview(h) \/ CommitRollback(h)
             \/ Release(h) \/ MarkReview(h) \/ Crash(h)
      PROVE  orders' = orders
  BY <1>3 DEF Observe, FinalizeReview, FinalizeReplay, OpenSnapshot, CommitReview,
              CommitRollback, Release, MarkReview, Crash
<1>4. ASSUME \/ PayOS \/ People \/ UNCHANGED vars \/ Starting
             \/ \E c \in Checkouts, cart \in Carts : Reserve(c, cart)
             \/ \E c \in Checkouts : LapseHold(c)
      PROVE  orders' = orders
  BY <1>4, StartingStep DEF PayOS, People, Reserve, LapseHold, CreateLink,
              LinkExpires, Transfer, RequestCancellation, RecordRefund, vars
<1> QED
  BY <1>1, <1>2, <1>3, <1>4 DEF Next, Shopping, Working, Advance

LEMMA LinksStep ==
  TypeOK /\ CommitInv /\ OrderLinks /\ [Next]_vars => OrderLinks'
<1> SUFFICES ASSUME TypeOK, CommitInv, OrderLinks, [Next]_vars,
                    NEW o \in OrderIds, NEW c \in Checkouts
             PROVE  /\ (orders'[o].status # "NONE" /\ orders'[o].src = c)
                          <=> attempt'[c].order = o
                    /\ attempt'[c].order = o => orders'[o].cart = checkout'[c].cart
  BY DEF OrderLinks
<1>1. /\ (orders[o].status # "NONE" /\ orders[o].src = c) <=> attempt[c].order = o
      /\ attempt[c].order = o => orders[o].cart = checkout[c].cart
  BY DEF OrderLinks
<1>2. c # Cash /\ o # NoOrder /\ attempt'[c] \in Attempt
  BY SourceAssumption, OrderAssumption, TypeStep DEF NoOrder, TypeOK
<1>3. CASE \E h \in Handlers : CommitOrder(h)
  <2>1. PICK h \in Handlers : CommitOrder(h)
    BY <1>3
  <2>2. PICK q \in OrderIds :
          /\ orders[q] = Unused
          /\ orders' = [orders EXCEPT ![q] =
               [status |-> "PENDING", src |-> work[h].c,
                cart |-> checkout[work[h].c].cart]]
          /\ attempt' = [attempt EXCEPT
               ![work[h].c] = Created(attempt[work[h].c], q)]
    BY <2>1 DEF CommitOrder, FreshOrder
  <2>3. work[h].c \in Checkouts /\ attempt[work[h].c].order = NoOrder
    BY <2>1, CommitOrderEffect
  <2>4. /\ checkout'[work[h].c].cart = checkout[work[h].c].cart
        /\ c # work[h].c => checkout'[c] = checkout[c]
    BY <2>1, <2>3 DEF CommitOrder, TypeOK, Checkout
  <2>5. attempt'[work[h].c].order = q
    BY <2>2, <2>3 DEF Created, TypeOK, Attempt
  <2>6. c # work[h].c => attempt'[c] = attempt[c]
    BY <2>2, <2>3 DEF TypeOK
  <2>7. /\ orders'[q].status = "PENDING" /\ orders'[q].src = work[h].c
        /\ orders'[q].cart = checkout[work[h].c].cart
        /\ o # q => orders'[o] = orders[o]
    BY <2>2 DEF TypeOK
  <2>8. orders[q].status = "NONE"
    BY <2>2 DEF Unused
  <2>9. CASE c = work[h].c
    BY <1>1, <2>3, <2>4, <2>5, <2>7, <2>8, <2>9, <1>2
  <2>10. CASE c # work[h].c
    <3>1. attempt[c].order # q
      BY <2>8 DEF OrderLinks
    <3> QED
      BY <1>1, <2>4, <2>6, <2>7, <2>10, <3>1
  <2> QED
    BY <2>9, <2>10
<1>4. CASE ~ \E h \in Handlers : CommitOrder(h)
  <2>1. attempt'[c].order = attempt[c].order
    BY <1>2, <1>4, AttemptChange, ChangeEffect
  <2>2. attempt[c].order = o => checkout'[c].cart = checkout[c].cart
    <3>1. attempt[c].order = o => checkout[c].status = "CONSUMED"
      BY <1>2 DEF CommitInv, ConsumedByOrder
    <3> QED
      BY <1>4, <3>1, CheckoutStep
  <2>3. \/ orders'[o] = orders[o]
        \/ /\ \/ orders[o].src = Cash \/ orders[o].status = "NONE"
           /\ orders'[o].src = Cash
    BY <1>4, OrdersStep
  <2> QED
    BY <1>1, <1>2, <2>1, <2>2, <2>3
<1> QED
  BY <1>3, <1>4

\* However often a paid checkout is finalized, it yields at most one order, for
\* the cart it reserved, and is consumed exactly when it has one.
THEOREM OneOrder == Spec => []OneOrderPerCheckout
<1>1. Init => OrderLinks
  BY LinksInit
<1>2. TypeOK /\ CommitInv /\ OrderLinks /\ [Next]_vars => OrderLinks'
  BY LinksStep
<1>3. TypeOK /\ CommitInv /\ OrderLinks => OneOrderPerCheckout
  <2> SUFFICES ASSUME TypeOK, CommitInv, OrderLinks, NEW c \in Checkouts
               PROVE  /\ (checkout[c].status = "CONSUMED")
                            <=> (attempt[c].order # NoOrder)
                      /\ OrdersOf(c) = IF attempt[c].order = NoOrder THEN {}
                                       ELSE {attempt[c].order}
                      /\ \A o \in OrdersOf(c) : orders[o].cart = checkout[c].cart
    BY DEF OneOrderPerCheckout
  <2>1. attempt[c].order \in OrderIds \cup {NoOrder} /\ NoOrder \notin OrderIds
    BY OrderAssumption DEF TypeOK, Attempt, NoOrder
  <2>2. \A o \in OrderIds : o \in OrdersOf(c) <=> attempt[c].order = o
    BY DEF OrderLinks, OrdersOf
  <2>3. OrdersOf(c) \subseteq OrderIds
    BY DEF OrdersOf
  <2>4. OrdersOf(c) = IF attempt[c].order = NoOrder THEN {} ELSE {attempt[c].order}
    BY <2>1, <2>2, <2>3
  <2>5. \A o \in OrdersOf(c) : orders[o].cart = checkout[c].cart
    BY <2>2, <2>3 DEF OrderLinks
  <2> QED
    BY <2>4, <2>5 DEF CommitInv, ConsumedByOrder
<1> QED
  BY <1>1, <1>2, <1>3, TypeCorrect, CommitAlways, PTL DEF Spec

-----------------------------------------------------------------------------
(* Evidence *)

PaidExact ==
  \A c \in Checkouts : attempt[c].pay = "PAID" =>
    \E s \in attempt[c].seen : /\ s[2].ok /\ s[2].status = "PAID"
                             /\ s[2].reported = Expected
                             /\ s[2].paid = Expected

EvidenceInv == EvidenceBacked /\ PaidExact

LEMMA EvidenceStep ==
  TypeOK /\ CommitInv /\ EvidenceInv /\ [Next]_vars => EvidenceInv'
<1> SUFFICES ASSUME TypeOK, CommitInv, EvidenceInv, [Next]_vars,
                    NEW c \in Checkouts
             PROVE  /\ attempt'[c].received > 0 =>
                         \E s \in attempt'[c].seen :
                           /\ s[2].ok /\ s[2].status = "PAID"
                           /\ s[2].paid = attempt'[c].received
                    /\ attempt'[c].order # NoOrder =>
                         \E s \in attempt'[c].seen :
                           /\ s[2].ok /\ s[2].reported = Expected
                           /\ s[2].paid = Expected
                    /\ attempt'[c].pay = "PAID" =>
                         \E s \in attempt'[c].seen :
                           /\ s[2].ok /\ s[2].status = "PAID"
                           /\ s[2].reported = Expected /\ s[2].paid = Expected
  BY DEF EvidenceInv, EvidenceBacked, PaidExact
<1> DEFINE Received(a) == a.received > 0 =>
              \E s \in a.seen : /\ s[2].ok /\ s[2].status = "PAID"
                               /\ s[2].paid = a.received
           Ordered(a) == a.order # NoOrder =>
              \E s \in a.seen : /\ s[2].ok /\ s[2].reported = Expected
                               /\ s[2].paid = Expected
           Paid(a) == a.pay = "PAID" =>
              \E s \in a.seen : /\ s[2].ok /\ s[2].status = "PAID"
                               /\ s[2].reported = Expected
                               /\ s[2].paid = Expected
<1>1. Received(attempt[c]) /\ Ordered(attempt[c]) /\ Paid(attempt[c])
  BY DEF EvidenceInv, EvidenceBacked, PaidExact
<1>2. attempt'[c] \in Attempt
  BY TypeStep DEF TypeOK
<1>3. CASE Change(c, attempt'[c])
  <2>1. attempt[c].seen \subseteq attempt'[c].seen
    BY <1>2, <1>3, ChangeEffect
  <2>2. Received(attempt'[c])
    <3>1. CASE attempt'[c].received = attempt[c].received
      BY <1>1, <2>1, <3>1
    <3>2. CASE attempt'[c].received # attempt[c].received
      BY <1>2, <1>3, <3>2, ChangeEffect
    <3> QED
      BY <3>1, <3>2
  <2>3. Ordered(attempt'[c])
    <3>1. CASE attempt'[c].order = attempt[c].order
      BY <1>1, <2>1, <3>1
    <3>2. CASE attempt'[c].order # attempt[c].order
      <4>1. PICK h \in Handlers : CommitOrder(h) /\ work[h].c = c
        BY <1>2, <1>3, <3>2, ChangeEffect
      <4>2. attempt[c].pay = "PAID"
        BY <4>1 DEF CommitOrder, CommitInv, CommitsReady
      <4> QED
        BY <1>1, <2>1, <4>2
    <3> QED
      BY <3>1, <3>2
  <2>4. Paid(attempt'[c])
    <3>1. CASE attempt[c].pay = "PAID"
      BY <1>1, <2>1, <3>1
    <3>2. CASE attempt[c].pay # "PAID"
      BY <1>2, <1>3, <3>2, ChangeEffect
    <3> QED
      BY <3>1, <3>2
  <2> QED
    BY <2>2, <2>3, <2>4
<1> QED
  BY <1>1, <1>3, AttemptChange

\* No order without exact evidence about its own link, and no receipt that was
\* not reported for it, whatever other evidence arrives.
THEOREM AlwaysEvidenced == Spec => []EvidenceBacked
<1>1. Init => EvidenceInv
  BY DEF Init, EvidenceInv, EvidenceBacked, PaidExact, NewAttempt, NoOrder
<1>2. EvidenceInv => EvidenceBacked
  BY DEF EvidenceInv
<1> QED
  BY <1>1, <1>2, EvidenceStep, TypeCorrect, CommitAlways, PTL DEF Spec

-----------------------------------------------------------------------------
(* The shelf: what the orders took and what the reservations may still take *)

\* The steps that touch the stock, the reservations or the orders.
LEMMA ShelfStep ==
  ASSUME TypeOK, [Next]_vars
  PROVE  \/ UNCHANGED <<stock, checkout, orders>>
         \/ \E c \in Checkouts, cart \in Carts : Reserve(c, cart)
         \/ \E c \in Checkouts : LapseHold(c)
         \/ \E h \in Handlers : Release(h)
         \/ \E cart \in Carts : CashPurchase(cart)
         \/ \E o \in OrderIds : CancelOrder(o)
         \/ \E h \in Handlers : CommitOrder(h)
<1>1. ASSUME NEW h \in Handlers,
             \/ Observe(h) \/ FinalizeReview(h) \/ FinalizeReplay(h)
             \/ OpenSnapshot(h) \/ CommitReview(h) \/ CommitRollback(h)
             \/ MarkReview(h) \/ Crash(h)
      PROVE  UNCHANGED <<stock, checkout, orders>>
  BY <1>1 DEF Observe, FinalizeReview, FinalizeReplay, OpenSnapshot, CommitReview,
              CommitRollback, MarkReview, Crash
<1>2. ASSUME PayOS \/ People \/ UNCHANGED vars \/ Starting
      PROVE  UNCHANGED <<stock, checkout, orders>>
  BY <1>2, StartingStep DEF PayOS, People, CreateLink, LinkExpires, Transfer,
              RequestCancellation, RecordRefund, vars
<1> QED
  BY <1>1, <1>2 DEF Next, Shopping, Working, Advance

\* What each order takes of p, and the orders that stand are finitely many.
Sold(p) == [o \in OrderIds |-> orders[o].cart[p]]
ShelfInv == IsFiniteSet(Standing) /\ StockConserved

LEMMA SoldUnits ==
  ASSUME TypeOK, NEW p \in Products
  PROVE  \A o \in OrderIds : Sold(p)[o] = orders[o].cart[p] /\ Sold(p)[o] \in Nat
BY DEF TypeOK, Order, Sold

\* An order that did not stand joins the others and its cart leaves the shelf.
LEMMA SaleConserves ==
  ASSUME TypeOK, TypeOK', ShelfInv, NEW o \in OrderIds, orders[o] = Unused,
         NEW cart \in [Products -> Nat], stock' = Take(cart),
         NEW src \in Checkouts \cup {Cash},
         orders' = [orders EXCEPT ![o] =
           [status |-> "PENDING", src |-> src, cart |-> cart]]
  PROVE  ShelfInv'
<1>1. /\ orders'[o].status = "PENDING" /\ orders'[o].cart = cart
      /\ \A q \in OrderIds \ {o} : orders'[q] = orders[q]
      /\ orders[o].status = "NONE"
  BY DEF TypeOK, Unused
<1>2. Standing' = Standing \cup {o} /\ o \notin Standing
  BY <1>1 DEF Standing
<1>3. IsFiniteSet(Standing')
  BY <1>2, FS_AddElement DEF ShelfInv
<1>4. ASSUME NEW p \in Products
      PROVE  stock'[p] + SumOf(Sold(p)', Standing') = InitialStock[p]
  <2> DEFINE S == Standing
             f == Sold(p)
             g == Sold(p)'
  <2>1. IsFiniteSet(S) /\ o \notin S /\ Standing' = S \cup {o}
    BY <1>2 DEF ShelfInv
  <2>2. \A q \in S : f[q] \in Int /\ g[q] = f[q]
    BY <1>1, <1>2, SoldUnits DEF Sold, Standing
  <2>3. g[o] = cart[p] /\ g[o] \in Int
    BY <1>1 DEF Sold
  <2>4. \A q \in S : f[q] \in Nat
    BY SoldUnits DEF Standing
  <2>5. stock[p] + SumOf(f, S) = InitialStock[p]
    BY DEF ShelfInv, StockConserved, Sold
  <2>6. stock'[p] = stock[p] - cart[p] /\ stock[p] \in Nat /\ cart[p] \in Nat
    BY DEF Take, TypeOK
  <2> HIDE DEF S, f, g
  <2>7. SumOf(g, S \cup {o}) = SumOf(f, S) + g[o]
    BY <2>1, <2>2, <2>3, SumExtend
  <2>8. SumOf(f, S) \in Nat
    BY <2>1, <2>4, SumNat
  <2>9. stock'[p] + SumOf(g, S \cup {o}) = InitialStock[p]
    BY <2>3, <2>5, <2>6, <2>7, <2>8
  <2> QED
    BY <2>1, <2>9 DEF g
<1> QED
  BY <1>3, <1>4 DEF ShelfInv, StockConserved, Sold

\* A cancelled order gives back exactly what it took.
LEMMA CancelConserves ==
  ASSUME TypeOK, ShelfInv, NEW o \in OrderIds, CancelOrder(o)
  PROVE  ShelfInv'
<1>1. /\ orders'[o].status = "CANCELED"
      /\ \A q \in OrderIds : orders'[q].cart = orders[q].cart
      /\ \A q \in OrderIds \ {o} : orders'[q] = orders[q]
      /\ orders[o].status = "PENDING"
  BY DEF CancelOrder, TypeOK, Order
<1>2. Standing' = Standing \ {o} /\ o \in Standing
  BY <1>1 DEF Standing
<1>3. IsFiniteSet(Standing')
  BY <1>2, FS_RemoveElement DEF ShelfInv
<1>4. ASSUME NEW p \in Products
      PROVE  stock'[p] + SumOf(Sold(p)', Standing') = InitialStock[p]
  <2> DEFINE S == Standing
             f == Sold(p)
  <2>0. Sold(p)' = f
    BY <1>1 DEF Sold
  <2>1. IsFiniteSet(S) /\ o \in S /\ Standing' = S \ {o}
    BY <1>2 DEF ShelfInv
  <2>2. \A q \in S : f[q] \in Nat
    BY SoldUnits DEF Standing
  <2>3. f[o] = orders[o].cart[p] /\ f[o] \in Nat
    BY SoldUnits
  <2>4. stock[p] + SumOf(f, S) = InitialStock[p]
    BY DEF ShelfInv, StockConserved, Sold
  <2>5. stock'[p] = stock[p] + orders[o].cart[p] /\ stock[p] \in Nat
    BY DEF CancelOrder, TypeOK
  <2> HIDE DEF S, f
  <2>6. SumOf(f, S) = SumOf(f, S \ {o}) + f[o]
    BY <2>1, <2>2, SumRemove
  <2>7. SumOf(f, S \ {o}) \in Nat
    BY <2>1, <2>2, SumNat, FS_RemoveElement
  <2>8. stock'[p] + SumOf(f, S \ {o}) = InitialStock[p]
    BY <2>3, <2>4, <2>5, <2>6, <2>7
  <2> QED
    BY <2>0, <2>1, <2>8
<1> QED
  BY <1>3, <1>4 DEF ShelfInv, StockConserved, Sold

\* Nothing is sold at the start.
LEMMA ShelfInit == Init => ShelfInv
<1> SUFFICES ASSUME Init PROVE ShelfInv
  OBVIOUS
<1>1. Standing = {}
  BY DEF Init, Standing, Unused
<1>2. ASSUME NEW p \in Products
      PROVE  stock[p] + SumOf(Sold(p), Standing) = InitialStock[p]
  <2>1. SumOf(Sold(p), {}) = 0
    BY SumEmpty
  <2>2. stock[p] = InitialStock[p] /\ stock[p] \in Nat
    BY StockAssumption DEF Init
  <2> QED
    BY <1>1, <2>1, <2>2
<1> QED
  BY <1>1, <1>2, FS_EmptySet DEF ShelfInv, StockConserved, Sold

\* Every step keeps ShelfInv.
LEMMA ShelfKept == TypeOK /\ ShelfInv /\ [Next]_vars => ShelfInv'
<1> SUFFICES ASSUME TypeOK, ShelfInv, [Next]_vars PROVE ShelfInv'
  OBVIOUS
<1>t. TypeOK'
  BY TypeStep
<1>1. CASE \/ UNCHANGED <<stock, checkout, orders>>
           \/ \E c \in Checkouts, cart \in Carts : Reserve(c, cart)
           \/ \E c \in Checkouts : LapseHold(c)
           \/ \E h \in Handlers : Release(h)
  <2>1. UNCHANGED <<stock, orders>>
    BY <1>1 DEF Reserve, LapseHold, Release
  <2> QED
    BY <2>1 DEF ShelfInv, StockConserved, Standing
<1>2. ASSUME NEW cart \in Carts, CashPurchase(cart)
      PROVE  ShelfInv'
  <2>1. cart \in [Products -> Nat] /\ stock' = Take(cart)
    BY <1>2, StockAssumption DEF CashPurchase
  <2>2. PICK o \in OrderIds :
          /\ orders[o] = Unused
          /\ orders' = [orders EXCEPT
               ![o] = [status |-> "PENDING", src |-> Cash, cart |-> cart]]
    BY <1>2 DEF CashPurchase, FreshOrder
  <2> QED
    BY <1>t, <2>1, <2>2, SaleConserves
<1>3. ASSUME NEW h \in Handlers, CommitOrder(h)
      PROVE  ShelfInv'
  <2> DEFINE cart == checkout[work[h].c].cart
  <2>1. work[h].c \in Checkouts
    BY <1>3, JobKinds DEF CommitOrder, At, TypeOK, CommitJob
  <2>2. cart \in [Products -> Nat] /\ stock' = Take(cart)
    BY <1>3, <2>1 DEF CommitOrder, TypeOK, Checkout
  <2>3. PICK o \in OrderIds :
          /\ orders[o] = Unused
          /\ orders' = [orders EXCEPT ![o] =
               [status |-> "PENDING", src |-> work[h].c, cart |-> cart]]
    BY <1>3 DEF CommitOrder, FreshOrder
  <2> HIDE DEF cart
  <2> QED
    BY <1>t, <2>1, <2>2, <2>3, SaleConserves
<1>4. ASSUME NEW o \in OrderIds, CancelOrder(o)
      PROVE  ShelfInv'
  BY <1>4, CancelConserves
<1> QED
  BY <1>1, <1>2, <1>3, <1>4, ShelfStep

\* Whatever purchases, finalizations and cancellations interleave, and whatever
\* handlers die on the way, the units on the shelf and in the orders that stand
\* are the ones there were.
THEOREM StockAlwaysConserved == Spec => []StockConserved
<1>1. ShelfInv => StockConserved
  BY DEF ShelfInv
<1> QED
  BY <1>1, ShelfInit, ShelfKept, TypeCorrect, PTL DEF Spec

-----------------------------------------------------------------------------
(* Reservations are backed by stock until one is fulfilled after its time *)

\* What each reservation holds of p, and the active ones are finitely many.
Demand(p) == [c \in Checkouts |-> checkout[c].cart[p]]
Held == {c \in Checkouts : Holding(c)}
BackedInv == IsFiniteSet(Held) /\ OnTimeHoldsBacked

LEMMA HeldIs ==
  ASSUME NEW p
  PROVE  HeldUnits(p, Checkouts) = SumOf(Demand(p), Held)
BY DEF HeldUnits, Demand, Held

LEMMA DemandUnits ==
  ASSUME TypeOK, NEW p \in Products
  PROVE  \A c \in Checkouts : Demand(p)[c] = checkout[c].cart[p] /\ Demand(p)[c] \in Nat
BY DEF TypeOK, Checkout, Demand

\* A reservation fulfilled after its time stays one.
LEMMA LateStays ==
  ASSUME TypeOK, CommitInv, [Next]_vars, NEW c \in Checkouts, LateSale(c)
  PROVE  LateSale(c)'
<1>1. checkout[c] \in Checkout
  BY DEF TypeOK
<1>2. ASSUME NEW h \in Handlers, Release(h)
      PROVE  checkout'[c] = checkout[c]
  BY <1>2 DEF Release, Freed, TypeOK, LateSale
<1>3. ASSUME NEW h \in Handlers, CommitOrder(h)
      PROVE  checkout'[c] = checkout[c]
  <2>1. checkout[work[h].c].status = "PENDING"
    BY <1>3 DEF CommitOrder, CommitInv, CommitsReady
  <2> QED
    BY <1>3, <2>1 DEF CommitOrder, TypeOK, LateSale
<1>4. ASSUME \/ UNCHANGED <<stock, checkout, orders>>
             \/ \E d \in Checkouts, cart \in Carts : Reserve(d, cart)
             \/ \E d \in Checkouts : LapseHold(d)
             \/ \E cart \in Carts : CashPurchase(cart)
             \/ \E o \in OrderIds : CancelOrder(o)
      PROVE  checkout'[c] = checkout[c]
  BY <1>4 DEF Reserve, LapseHold, Holding, CashPurchase, CancelOrder, TypeOK, LateSale
<1> QED
  BY <1>2, <1>3, <1>4, ShelfStep DEF LateSale

\* No reservation is new, none holds more, and no stock is taken.
LEMMA LessHeld ==
  ASSUME TypeOK, TypeOK', BackedInv, HoldsBacked, Held' \subseteq Held,
         \A c \in Held' : checkout'[c].cart = checkout[c].cart,
         \A p \in Products : stock'[p] >= stock[p]
  PROVE  HoldsBacked'
<1> SUFFICES ASSUME NEW p \in Products
             PROVE  HeldUnits(p, Checkouts)' <= stock'[p]
  BY DEF HoldsBacked
<1> DEFINE S == Held
           T == Held'
           f == Demand(p)
           g == Demand(p)'
<1>1. IsFiniteSet(S) /\ T \in SUBSET S
  BY DEF BackedInv
<1>2. \A c \in S : f[c] \in Nat
  BY DemandUnits DEF Held
<1>3. \A c \in T : g[c] = f[c] /\ f[c] \in Int
  BY DemandUnits DEF Held, Demand
<1>4. SumOf(f, S) <= stock[p]
  BY HeldIs DEF HoldsBacked
<1>5. HeldUnits(p, Checkouts)' = SumOf(g, T)
  BY DEF HeldUnits, Demand, Held
<1>6. stock[p] \in Nat /\ stock'[p] \in Nat /\ stock'[p] >= stock[p]
  BY DEF TypeOK
<1> HIDE DEF S, T, f, g
<1>7. IsFiniteSet(T)
  BY <1>1, FS_Subset
<1>8. SumOf(g, T) = SumOf(f, T)
  BY <1>3, <1>7, SumSame
<1>9. SumOf(f, T) <= SumOf(f, S)
  BY <1>1, <1>2, SumPart
<1>10. SumOf(f, T) \in Int /\ SumOf(f, S) \in Nat
  BY <1>1, <1>2, <1>3, <1>7, SumInt, SumNat
<1> QED
  BY <1>4, <1>5, <1>6, <1>8, <1>9, <1>10

\* A new reservation holds only what the stock and the others leave.
LEMMA ReserveBacked ==
  ASSUME TypeOK, TypeOK', BackedInv, HoldsBacked,
         NEW c \in Checkouts, NEW cart \in Carts, Reserve(c, cart)
  PROVE  IsFiniteSet(Held') /\ HoldsBacked'
<1>1. /\ c \notin Held /\ Held' = Held \cup {c}
      /\ checkout'[c].cart = cart /\ cart \in [Products -> Nat]
      /\ \A d \in Checkouts \ {c} : checkout'[d] = checkout[d]
      /\ stock' = stock
  BY StockAssumption DEF Reserve, Held, Holding, TypeOK
<1>2. IsFiniteSet(Held')
  BY <1>1, FS_AddElement DEF BackedInv
<1>3. ASSUME NEW p \in Products
      PROVE  HeldUnits(p, Checkouts)' <= stock'[p]
  <2> DEFINE S == Held
             f == Demand(p)
             g == Demand(p)'
  <2>1. IsFiniteSet(S) /\ c \notin S
    BY <1>1 DEF BackedInv
  <2>2. \A d \in S : f[d] \in Int /\ g[d] = f[d]
    BY <1>1, DemandUnits DEF Held, Demand
  <2>3. g[c] = cart[p] /\ cart[p] \in Nat
    BY <1>1 DEF Demand
  <2>4. HeldUnits(p, Checkouts)' = SumOf(g, S \cup {c})
    BY <1>1 DEF HeldUnits, Demand, Held
  <2>5. SumOf(f, S) <= stock[p] /\ stock[p] \in Nat /\ stock'[p] = stock[p]
    BY <1>1, HeldIs DEF HoldsBacked, TypeOK
  <2>6. cart[p] > 0 => stock[p] - SumOf(f, S) >= cart[p]
    BY HeldIs DEF Reserve, InStock
  <2> HIDE DEF S, f, g
  <2>7. SumOf(g, S \cup {c}) = SumOf(f, S) + g[c]
    BY <2>1, <2>2, <2>3, SumExtend
  <2>8. SumOf(f, S) \in Int
    BY <2>1, <2>2, SumInt
  <2> QED
    BY <2>3, <2>4, <2>5, <2>6, <2>7, <2>8
<1> QED
  BY <1>2, <1>3 DEF HoldsBacked

\* A cash purchase takes only what the reservations leave.
LEMMA CashBacked ==
  ASSUME TypeOK, BackedInv, HoldsBacked, NEW cart \in Carts, CashPurchase(cart)
  PROVE  HoldsBacked'
<1> SUFFICES ASSUME NEW p \in Products
             PROVE  HeldUnits(p, Checkouts)' <= stock'[p]
  BY DEF HoldsBacked
<1>1. HeldUnits(p, Checkouts)' = SumOf(Demand(p), Held)
  BY DEF CashPurchase, HeldUnits, Holding, Demand, Held
<1>2. IsFiniteSet(Held) /\ \A c \in Held : Demand(p)[c] \in Int
  BY DemandUnits DEF BackedInv, Held
<1>3. SumOf(Demand(p), Held) \in Int
  BY <1>2, SumInt
<1>4. stock'[p] = stock[p] - cart[p] /\ stock[p] \in Nat /\ cart[p] \in Nat
  BY StockAssumption DEF CashPurchase, Take, TypeOK
<1>5. cart[p] > 0 => stock[p] - SumOf(Demand(p), Held) >= cart[p]
  BY HeldIs DEF CashPurchase, InStock
<1>6. SumOf(Demand(p), Held) <= stock[p]
  BY HeldIs DEF HoldsBacked
<1> QED
  BY <1>1, <1>3, <1>4, <1>5, <1>6

\* A reservation fulfilled in time takes from the shelf what it held there.
LEMMA CommitBacked ==
  ASSUME TypeOK, CommitInv, BackedInv, HoldsBacked,
         NEW h \in Handlers, CommitOrder(h),
         NEW c \in Checkouts, c = work[h].c, ~LateSale(c)'
  PROVE  HoldsBacked'
<1>2. checkout[c].status = "PENDING" /\ checkout[c] \in Checkout
  BY DEF CommitOrder, CommitInv, CommitsReady, TypeOK
<1>3. /\ checkout'[c].status = "CONSUMED" /\ checkout'[c].live = checkout[c].live
      /\ \A d \in Checkouts : checkout'[d].cart = checkout[d].cart
      /\ \A d \in Checkouts \ {c} : checkout'[d] = checkout[d]
  BY <1>2 DEF CommitOrder, TypeOK, Checkout
<1>4. checkout[c].live
  BY <1>3 DEF LateSale
<1>5. c \in Held /\ Held' = Held \ {c}
  BY <1>2, <1>3, <1>4 DEF Held, Holding
<1> SUFFICES ASSUME NEW p \in Products
             PROVE  HeldUnits(p, Checkouts)' <= stock'[p]
  BY DEF HoldsBacked
<1> DEFINE S == Held
           f == Demand(p)
<1>6. IsFiniteSet(S) /\ c \in S /\ \A d \in S : f[d] \in Int
  BY <1>5, DemandUnits DEF BackedInv, Held
<1>7. HeldUnits(p, Checkouts)' = SumOf(f, S \ {c})
  <2>1. Demand(p)' = f
    BY <1>3 DEF Demand
  <2>2. HeldUnits(p, Checkouts)' = SumOf(Demand(p)', Held')
    BY DEF HeldUnits, Demand, Held
  <2> QED
    BY <1>5, <2>1, <2>2
<1>8. /\ f[c] = checkout[c].cart[p] /\ f[c] \in Nat
      /\ stock'[p] = stock[p] - checkout[c].cart[p] /\ stock[p] \in Nat
  BY DemandUnits DEF CommitOrder, Take, TypeOK
<1>9. SumOf(f, S) <= stock[p]
  BY HeldIs DEF HoldsBacked
<1> HIDE DEF S, f
<1>10. SumOf(f, S) = SumOf(f, S \ {c}) + f[c]
  BY <1>6, SumRemove
<1>11. SumOf(f, S \ {c}) \in Int
  BY <1>6, SumInt, FS_RemoveElement
<1> QED
  BY <1>7, <1>8, <1>9, <1>10, <1>11

LEMMA BackedInit == Init => BackedInv
<1> SUFFICES ASSUME Init PROVE BackedInv
  OBVIOUS
<1>1. Held = {}
  BY DEF Init, Held, Holding, NewCheckout
<1>2. ASSUME NEW p \in Products
      PROVE  HeldUnits(p, Checkouts) <= stock[p]
  <2>1. HeldUnits(p, Checkouts) = 0
    BY <1>1, HeldIs, SumEmpty
  <2>2. stock[p] \in Nat
    BY StockAssumption DEF Init
  <2> QED
    BY <2>1, <2>2
<1> QED
  BY <1>1, <1>2, FS_EmptySet DEF BackedInv, OnTimeHoldsBacked, HoldsBacked

\* Every step keeps BackedInv.
LEMMA BackedStep ==
  TypeOK /\ CommitInv /\ BackedInv /\ [Next]_vars => BackedInv'
<1> SUFFICES ASSUME TypeOK, CommitInv, BackedInv, [Next]_vars
             PROVE  BackedInv'
  OBVIOUS
<1>t. TypeOK'
  BY TypeStep
<1>0. (\A c \in Checkouts : ~LateSale(c)') => HoldsBacked
  BY LateStays DEF BackedInv, OnTimeHoldsBacked
<1>1. CASE \E c \in Checkouts, cart \in Carts : Reserve(c, cart)
  <2>1. PICK c \in Checkouts, cart \in Carts : Reserve(c, cart)
    BY <1>1
  <2>2. Held' = Held \cup {c}
    BY <2>1 DEF Reserve, Held, Holding, TypeOK
  <2>3. IsFiniteSet(Held')
    BY <2>2, FS_AddElement DEF BackedInv
  <2> QED
    BY <1>t, <1>0, <2>1, <2>3, ReserveBacked DEF BackedInv, OnTimeHoldsBacked
<1>2. CASE \/ UNCHANGED <<stock, checkout, orders>>
           \/ \E c \in Checkouts : LapseHold(c)
           \/ \E h \in Handlers : Release(h)
           \/ \E o \in OrderIds : CancelOrder(o)
  <2>1. Held' \subseteq Held /\ \A c \in Held' : checkout'[c].cart = checkout[c].cart
    <3>1. ASSUME NEW c \in Checkouts, LapseHold(c)
          PROVE  Held' \subseteq Held /\ \A d \in Checkouts : checkout'[d].cart = checkout[d].cart
      BY <3>1 DEF LapseHold, Held, Holding, TypeOK, Checkout
    <3>2. ASSUME NEW h \in Handlers, Release(h)
          PROVE  Held' \subseteq Held /\ \A d \in Checkouts : checkout'[d].cart = checkout[d].cart
      <4>1. ASSUME NEW d \in Checkouts
            PROVE  checkout'[d] = checkout[d] \/ checkout'[d] = Freed(checkout[d])
        BY <3>2 DEF Release, TypeOK
      <4>2. ASSUME NEW d \in Checkouts
            PROVE  checkout'[d].cart = checkout[d].cart /\ (Holding(d)' => Holding(d))
        BY <4>1 DEF Freed, TypeOK, Checkout, Holding
      <4> QED
        BY <4>2 DEF Held
    <3>3. ASSUME checkout' = checkout
          PROVE  Held' \subseteq Held /\ \A d \in Checkouts : checkout'[d].cart = checkout[d].cart
      BY <3>3 DEF Held, Holding
    <3>4. Held' \subseteq Checkouts
      BY DEF Held
    <3> QED
      BY <1>2, <3>1, <3>2, <3>3, <3>4 DEF CancelOrder
  <2>2. \A p \in Products : stock'[p] >= stock[p]
    <3>1. ASSUME NEW o \in OrderIds, CancelOrder(o)
          PROVE  \A p \in Products : stock'[p] >= stock[p]
      BY <3>1 DEF CancelOrder, TypeOK, Order
    <3>2. CASE UNCHANGED stock
      BY <3>2 DEF TypeOK
    <3> QED
      BY <1>2, <3>1, <3>2 DEF LapseHold, Release
  <2>3. IsFiniteSet(Held')
    BY <2>1, FS_Subset DEF BackedInv
  <2> QED
    BY <1>t, <1>0, <2>1, <2>2, <2>3, LessHeld DEF BackedInv, OnTimeHoldsBacked
<1>3. ASSUME NEW cart \in Carts, CashPurchase(cart)
      PROVE  BackedInv'
  <2>1. Held' = Held
    BY <1>3 DEF CashPurchase, Held, Holding
  <2> QED
    BY <1>0, <1>3, <2>1, CashBacked DEF BackedInv, OnTimeHoldsBacked
<1>4. ASSUME NEW h \in Handlers, CommitOrder(h)
      PROVE  BackedInv'
  <2>1. PICK c \in Checkouts : c = work[h].c
    BY <1>4, JobKinds DEF CommitOrder, At, TypeOK, CommitJob
  <2>2. Held' \subseteq Held
    BY <1>4 DEF CommitOrder, Held, Holding, TypeOK, Checkout
  <2>3. IsFiniteSet(Held')
    BY <2>2, FS_Subset DEF BackedInv
  <2> QED
    BY <1>0, <1>4, <2>1, <2>3, CommitBacked DEF BackedInv, OnTimeHoldsBacked
<1> QED
  BY <1>1, <1>2, <1>3, <1>4, ShelfStep

\* As long as no checkout was fulfilled after its reservation had lapsed, what
\* the active reservations hold is on the shelf, whatever cash purchases,
\* payments, cancellations and deaths of handlers interleave.
THEOREM HoldsAlwaysBacked == Spec => []OnTimeHoldsBacked
<1>1. BackedInv => OnTimeHoldsBacked
  BY DEF BackedInv
<1> QED
  BY <1>1, BackedInit, BackedStep, CommitAlways, TypeCorrect, PTL DEF Spec

-----------------------------------------------------------------------------
(* The checkout implements Settlement *)

LEMMA SettlementInit == Init => Account!Init
<1> SUFFICES ASSUME Init PROVE Account!Init
  OBVIOUS
<1>1. ASSUME NEW c \in Checkouts
      PROVE  /\ attempt[c].received = 0 /\ attempt[c].refunded = 0
             /\ attempt[c].order = NoOrder /\ attempt[c].cancel = FALSE
  BY DEF Init, NewAttempt
<1>2. [c \in Checkouts |-> attempt[c].received] = [c \in Checkouts |-> 0]
  BY <1>1
<1>3. [c \in Checkouts |-> attempt[c].refunded] = [c \in Checkouts |-> 0]
  BY <1>1
<1>4. [c \in Checkouts |-> attempt[c].order # NoOrder]
        = [c \in Checkouts |-> FALSE]
  BY <1>1, Zenon
<1>5. [c \in Checkouts |-> attempt[c].cancel] = [c \in Checkouts |-> FALSE]
  BY <1>1
<1> QED
  BY <1>2, <1>3, <1>4, <1>5 DEF Account!Init

\* A step is a receipt, a withdrawal, a fulfilment or a refund of one account,
\* or none of the abstract variables changes.
LEMMA SettlementStep ==
  TypeOK /\ MoneyInv /\ CommitInv /\ [Next]_vars
    => [Account!Next]_(Account!vars)
<1> SUFFICES ASSUME TypeOK, MoneyInv, CommitInv, [Next]_vars
             PROVE  Account!Next \/ UNCHANGED Account!vars
  OBVIOUS
<1> DEFINE received == [c \in Checkouts |-> attempt[c].received]
           refunded == [c \in Checkouts |-> attempt[c].refunded]
           fulfilled == [c \in Checkouts |-> attempt[c].order # NoOrder]
           withdrawn == [c \in Checkouts |-> attempt[c].cancel]
<1>1. CASE attempt' = attempt
  BY <1>1 DEF Account!vars
<1>2. ASSUME NEW c \in Checkouts, NEW b \in Attempt, Change(c, b),
             attempt' = [attempt EXCEPT ![c] = b]
      PROVE  Account!Next \/ UNCHANGED Account!vars
  <2> DEFINE a == attempt[c]
  <2>1. /\ a \in Attempt /\ attempt'[c] = b
        /\ a.received \in Nat /\ b.received \in Nat
        /\ a.refunded \in Nat /\ b.refunded \in Nat
        /\ a.cancel \in BOOLEAN /\ b.cancel \in BOOLEAN
    BY <1>2 DEF TypeOK, Attempt
  <2>2. \A d \in Checkouts : d # c => attempt'[d] = attempt[d]
    BY <1>2 DEF TypeOK
  <2>3. /\ b.received = a.received => received' = received
        /\ b.refunded = a.refunded => refunded' = refunded
        /\ b.order = a.order => fulfilled' = fulfilled
        /\ b.cancel = a.cancel => withdrawn' = withdrawn
    BY <2>1, <2>2
  <2>4. /\ received' = [received EXCEPT ![c] = b.received]
        /\ refunded' = [refunded EXCEPT ![c] = b.refunded]
        /\ withdrawn' = [withdrawn EXCEPT ![c] = b.cancel]
        /\ fulfilled' = [fulfilled EXCEPT ![c] = (b.order # NoOrder)]
    BY <2>1, <2>2
  <2>5. CASE b.received # a.received
    <3>1. /\ b.refunded = a.refunded /\ b.cancel = a.cancel
          /\ b.order = a.order /\ b.received > a.received
      BY <1>2, <2>1, <2>5, ChangeEffect
    <3>2. Account!Receive(c)
      BY <2>1, <2>3, <2>4, <3>1 DEF Account!Receive
    <3> QED
      BY <3>2 DEF Account!Next
  <2>6. CASE b.refunded # a.refunded
    <3>1. /\ b.received = a.received /\ b.cancel = a.cancel
          /\ a.order = NoOrder /\ b.order = a.order
          /\ b.refunded > a.refunded /\ b.refunded <= a.received
      BY <1>2, <2>1, <2>6, ChangeEffect
    <3>2. Account!Refund(c)
      BY <2>1, <2>3, <2>4, <3>1 DEF Account!Refund
    <3> QED
      BY <3>2 DEF Account!Next
  <2>7. CASE b.order # a.order
    <3>1. PICK h \in Handlers : CommitOrder(h) /\ work[h].c = c
      BY <1>2, <2>1, <2>7, ChangeEffect
    <3>2. /\ a.order = NoOrder /\ b.order # NoOrder /\ ~a.cancel
          /\ a.received = Expected /\ a.refunded = 0
      BY <2>1, <3>1, CommitOrderEffect
    <3>3. b.received = a.received /\ b.refunded = a.refunded /\ b.cancel = a.cancel
      BY <1>2, <2>1, <2>7, ChangeEffect
    <3>4. Account!Fulfil(c)
      BY <2>1, <2>3, <2>4, <3>2, <3>3 DEF Account!Fulfil
    <3> QED
      BY <3>4 DEF Account!Next
  <2>8. CASE /\ b.received = a.received /\ b.refunded = a.refunded
             /\ b.order = a.order
    <3>1. CASE b.cancel = a.cancel
      BY <2>3, <2>8, <3>1 DEF Account!vars
    <3>2. CASE b.cancel # a.cancel
      <4>1. b.cancel = TRUE
        BY <1>2, <2>1, <3>2, ChangeEffect
      <4>2. Account!Withdraw(c)
        BY <2>3, <2>4, <2>8, <4>1 DEF Account!Withdraw
      <4> QED
        BY <4>2 DEF Account!Next
    <3> QED
      BY <3>1, <3>2
  <2> QED
    BY <2>5, <2>6, <2>7, <2>8
<1> QED
  BY <1>1, <1>2, AttemptStep

\* Whatever handlers, webhooks and operators do, the payment side behaves as an
\* account that sells its one price once or gives money back, and never both.
THEOREM ImplementsSettlement == Spec => SettlesAccounts
<1>1. Spec => []MoneyInv
  BY MoneyInit, MoneyStep, TypeCorrect, PTL DEF Spec
<1> QED
  BY <1>1, SettlementInit, SettlementStep, TypeCorrect, CommitAlways, PTL
  DEF Spec, SettlesAccounts, Account!Spec

=============================================================================
