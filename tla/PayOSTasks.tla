---------------------------- MODULE PayOSTasks ------------------------------
(***************************************************************************)
(* The durable tasks of one PayOS attempt: they look its payment link up,  *)
(* cancel it and give the reservation back.                                *)
(*                                                                         *)
(* A task that succeeds without settling the attempt enqueues its          *)
(* continuation in the transaction that finishes it.  A finished           *)
(* generation is never read again, so a flow is one row here: its current  *)
(* generation.  Module Checkout has the amounts, the refunds and the order *)
(* transaction; here that transaction is one step and money is none, part  *)
(* or all of what is expected.  CheckoutSession has the requests that      *)
(* create the link.  PayOS is external.                                    *)
(***************************************************************************)
EXTENDS Tasks

CONSTANTS
  Checks,   \* bound: reconciliation flows; Initial is the reservation's own
  Initial,
  Cancels,  \* bound: cancellation flows
  Hooks,    \* bound: webhooks about this link, each with its recovery flow
  Partial,  \* bound: whether a customer pays in parts
  Again     \* bound: whether an owner asks again when a flow is over

ASSUME FlowAssumption ==
  /\ Keys = Checks \cup Cancels \cup Hooks
  /\ Initial \in Checks
  /\ Partial \in BOOLEAN /\ Again \in BOOLEAN

VARIABLES
  attempt,  \* the payment_attempts row with its observations
  hold,     \* status of its pending checkout
  link,     \* the payment link at PayOS
  payload,  \* payload of each flow's current task
  lease,    \* the payload a worker was given with its lease
  hook,     \* how far each webhook is
  expired,  \* expires_at has passed
  waited,   \* ten minutes have passed since the cancellation request
  over      \* flows 24 hours past the expiry in their payload

vars == <<task, work, trouble, attempt, hold, link, payload, lease, hook,
          expired, waited, over>>

-----------------------------------------------------------------------------
(* Values *)

Money == {"none", "part", "all"}
LinkStatus == {"NONE", "PENDING", "UNDERPAID", "PAID", "CANCELLED"}
Evidence == [status : LinkStatus \ {"NONE"}, money : Money]
Via == {"RECONCILE", "CANCEL", "CANCEL_LINK", "WEBHOOK"}
Attempt == [pay : {"UNKNOWN", "PENDING", "PAID", "CANCELLED", "MISMATCH"},
            ord : {"NOT_CREATED", "CREATED", "REVIEW_REQUIRED"}, order : BOOLEAN,
            cancel : BOOLEAN, received : Money,
            seen : SUBSET (Via \X Evidence)]
\* "later" tells a recovery flow's continuations, which bear a cancellation key.
Payload == [op : Via \ {"WEBHOOK"}, sent : BOOLEAN, verify : BOOLEAN, later : BOOLEAN]
Reconcile == [op |-> "RECONCILE", sent |-> FALSE, verify |-> FALSE, later |-> FALSE]
Cancel == [Reconcile EXCEPT !.op = "CANCEL"]
Recover == [Cancel EXCEPT !.sent = TRUE, !.verify = TRUE]

\* What a task comes to, with the payload it leaves for the flow.
Verdict == {"matched", "mismatch", "retryable", "pending"}
Job == {Idle}
  \cup [step : {"start", "call"}, k : Keys, attempt : 1..MaxAttempts]
  \cup [step : {"observe"}, k : Keys, attempt : 1..MaxAttempts, ev : Evidence, intent : BOOLEAN]
  \cup [step : {"finalize", "review"}, k : Keys, attempt : 1..MaxAttempts]
  \cup [step : {"free"}, k : Keys, attempt : 1..MaxAttempts, review : BOOLEAN]
  \cup [step : {"finish"}, k : Keys, attempt : 1..MaxAttempts, verdict : Verdict,
        next : Payload]
HookStep == [step : {"quiet", "sent", "read", "finalize", "reopen", "done"},
             exact : BOOLEAN, intent : BOOLEAN]

TypeOK ==
  /\ task \in [Keys -> Task] /\ work \in [Workers -> Job] /\ trouble \in 0..MaxTrouble
  /\ attempt \in Attempt
  /\ hold \in {"PENDING", "RELEASED", "CONSUMED"}
  /\ link \in [status : LinkStatus, money : Money]
  /\ payload \in [Keys -> Payload] /\ lease \in [Workers -> Payload]
  /\ hook \in [Hooks -> HookStep]
  /\ expired \in BOOLEAN /\ waited \in BOOLEAN /\ over \subseteq Keys

\* The checkout was just reserved: its first task waits, its request goes on.
Init ==
  /\ task = [k \in Keys |-> IF k = Initial THEN [NoTask EXCEPT !.state = "READY"] ELSE NoTask]
  /\ work = [w \in Workers |-> Idle] /\ trouble = 0
  /\ attempt = [pay |-> "PENDING", ord |-> "NOT_CREATED", order |-> FALSE, cancel |-> FALSE,
                received |-> "none",
                seen |-> {}]
  /\ hold = "PENDING"
  /\ link = [status |-> "NONE", money |-> "none"]
  /\ payload = [k \in Keys |-> Reconcile] /\ lease = [w \in Workers |-> Reconcile]
  /\ hook = [e \in Hooks |-> [step |-> "quiet", exact |-> FALSE, intent |-> FALSE]]
  /\ expired = FALSE /\ waited = FALSE /\ over = {}

queueSide == <<task, work, trouble, payload, lease>>
clock == <<expired, waited, over>>

-----------------------------------------------------------------------------
(* PayOS and the customer *)

\* A request of the customer, at work or resumed, has PayOS make the link.
CreateLink ==
  /\ link.status = "NONE" /\ ~expired
  /\ link' = [link EXCEPT !.status = "PENDING"]
  /\ UNCHANGED <<queueSide, attempt, hold, hook, clock>>

\* A transfer; one under way may still land on a cancelled link.  PayOS emits a
\* webhook about each: one of Hooks, or one that never arrives.
Transfer(to) ==
  /\ link.status \in {"PENDING", "UNDERPAID", "CANCELLED"} /\ link.money # "all"
  /\ to \in (IF Partial THEN {"part", "all"} ELSE {"all"}) \ {link.money}
  /\ link' = [link EXCEPT !.money = to,
       !.status = IF @ = "CANCELLED" THEN @ ELSE IF to = "all" THEN "PAID" ELSE "UNDERPAID"]
  /\ \/ UNCHANGED hook
     \/ \E e \in Hooks :
          /\ hook[e].step = "quiet"
          /\ hook' = [hook EXCEPT ![e] =
               [@ EXCEPT !.step = "sent", !.exact = to = "all" /\ link.money = "none"]]
  /\ UNCHANGED <<queueSide, attempt, hold, clock>>

LinkExpires ==
  /\ expired /\ link.status \in {"PENDING", "UNDERPAID"}
  /\ link' = [link EXCEPT !.status = "CANCELLED"]
  /\ UNCHANGED <<queueSide, attempt, hold, hook, clock>>

Expire ==
  /\ ~expired /\ expired' = TRUE
  /\ UNCHANGED <<queueSide, attempt, hold, link, hook, waited, over>>
TenMinutes ==
  /\ attempt.cancel /\ ~waited /\ waited' = TRUE
  /\ UNCHANGED <<queueSide, attempt, hold, link, hook, expired, over>>
OneDay ==
  /\ expired /\ Initial \notin over
  /\ over' = over \cup Checks \cup Cancels
  /\ UNCHANGED <<queueSide, attempt, hold, link, hook, expired, waited>>
OneDayAfter(e) ==
  /\ task[e].state # "NONE" /\ e \notin over
  /\ over' = over \cup {e}
  /\ UNCHANGED <<queueSide, attempt, hold, link, hook, expired, waited>>

-----------------------------------------------------------------------------
(* What the owner asks for *)

Active(k) == task[k].state \in {"READY", "RUNNING"}
BearsCancelKey(k) == k \in Cancels \/ payload[k].later

\* A flow under a key of its own; the rows of one that is over are never read again.
New(k, p) ==
  /\ task[k].state \in {"NONE"} \cup (IF Again THEN Over ELSE {})
  /\ task' = [task EXCEPT ![k] = [NoTask EXCEPT !.state = "READY"]]
  /\ payload' = [payload EXCEPT ![k] = p]

\* requestOwnedReconciliation
RequestCheck(k) ==
  /\ k \in Checks
  /\ New(k, Reconcile)
  /\ UNCHANGED <<work, trouble, lease, attempt, hold, link, hook, clock>>

\* requestOwnedCancellation; a cancellation that is under way is not doubled.
RequestCancel(k) ==
  /\ k \in Cancels /\ attempt.ord # "CREATED"
  /\ attempt' = [attempt EXCEPT !.cancel = TRUE]
  /\ IF \E other \in Keys : Active(other) /\ BearsCancelKey(other)
     THEN UNCHANGED <<task, payload>>
     ELSE New(k, Cancel)
  /\ UNCHANGED <<work, trouble, lease, hold, link, hook, clock>>

-----------------------------------------------------------------------------
(* The transactions on the attempt *)

Exact(ev) == ev.status = "PAID" /\ ev.money = "all"
CancelConflict(a, ev) ==
  /\ ev.status = "CANCELLED"
  /\ ev.money # "none" \/ a.received # "none" \/ a.pay = "PAID" \/ a.order
Conflicting(a, ev) == CancelConflict(a, ev) \/ (ev.status = "PAID" /\ ~Exact(ev))
Replayed(a, via, ev) == <<via, ev>> \in a.seen
NextPay(a, ev) ==
  IF a.pay = "PAID" THEN "PAID"
  ELSE IF Conflicting(a, ev) THEN "MISMATCH"
  ELSE IF ev.status = "UNDERPAID" THEN "UNKNOWN" ELSE ev.status

\* recordObservation
Record(a, via, ev) ==
  IF Replayed(a, via, ev) THEN a
  ELSE LET conflict == Conflicting(a, ev) IN
    [a EXCEPT
      !.pay = NextPay(a, ev),
      !.ord = IF conflict /\ @ # "CREATED" THEN "REVIEW_REQUIRED" ELSE @,
      !.cancel = @ \/ (ev.status = "CANCELLED" /\ ~conflict),
      !.received = IF ev.status = "PAID" /\ @ # "all" THEN ev.money ELSE @,
      !.seen = @ \cup {<<via, ev>>}]
Told(a, via, ev) == Conflicting(a, ev) /\ ~Replayed(a, via, ev)

\* finalizePayOSAttemptCheckout, in one step: an order, the order there is, or
\* review; stock decides between the first and the last.
Matches(exact) == attempt.pay = "PAID" /\ attempt.received = "all" /\ exact
MayCreate(exact) == Matches(exact) /\ ~attempt.cancel /\ hold = "PENDING"
HasOrder == attempt.ord = "CREATED" /\ attempt.order
CreateOrder(exact) ==
  /\ ~HasOrder /\ MayCreate(exact)
  /\ attempt' = [attempt EXCEPT !.ord = "CREATED", !.order = TRUE]
  /\ hold' = "CONSUMED"
ReturnOrder(exact) == HasOrder /\ Matches(exact) /\ UNCHANGED <<attempt, hold>>
Withhold(exact) ==
  /\ ~(HasOrder /\ Matches(exact))
  /\ attempt' = [attempt EXCEPT !.ord = "REVIEW_REQUIRED"]
  /\ UNCHANGED hold
Finalize(exact) == CreateOrder(exact) \/ ReturnOrder(exact) \/ Withhold(exact)

\* markPaymentAttemptReviewRequired, of a cancelled attempt without an order
Stoppable == attempt.cancel /\ ~attempt.order
Reviewed(a) == IF a.ord = "CREATED" THEN a ELSE [a EXCEPT !.ord = "REVIEW_REQUIRED"]
Review == attempt' = IF Stoppable THEN Reviewed(attempt) ELSE attempt

\* finishCancellationWindow
MoneySeen == attempt.pay = "PAID" \/ attempt.received # "none"
Releases == Stoppable /\ ~MoneySeen
Free(review) ==
  /\ hold' = IF Releases /\ hold = "PENDING" THEN "RELEASED" ELSE hold
  /\ attempt' = IF Stoppable /\ (MoneySeen \/ review) THEN Reviewed(attempt) ELSE attempt

-----------------------------------------------------------------------------
(* Webhooks *)

Hook(e, step) == hook' = [hook EXCEPT ![e].step = step]

\* The attempt is read, with its cancellation intent, before the observation; the
\* inbox around the two is module WebhookInbox.
ReadHook(e) ==
  /\ hook[e].step = "sent"
  /\ hook' = [hook EXCEPT ![e].step = "read", ![e].intent = attempt.cancel]
  /\ UNCHANGED <<queueSide, attempt, hold, link, clock>>
Hear(e) ==
  /\ hook[e].step = "read"
  /\ LET ev == [status |-> "PAID", money |-> IF hook[e].exact THEN "all" ELSE "part"]
         b == Record(attempt, "WEBHOOK", ev)
     IN /\ attempt' = b
        /\ Hook(e, IF Told(attempt, "WEBHOOK", ev) \/ b.pay # "PAID" THEN "done"
                   ELSE IF hook[e].intent THEN "reopen" ELSE "finalize")
  /\ UNCHANGED <<queueSide, hold, link, clock>>

\* The handler ends, or dies; PayOS may send the event again after either, and the
\* inbox lets it through (module WebhookInbox).
FinalizeHeard(e) ==
  /\ hook[e].step = "finalize"
  /\ Finalize(hook[e].exact)
  /\ Hook(e, "done")
  /\ UNCHANGED <<queueSide, link, clock>>
HearAgain(e) ==
  /\ hook[e].step \in {"read", "finalize", "reopen", "done"} /\ Trouble
  /\ Hook(e, "sent")
  /\ UNCHANGED <<task, work, payload, lease, attempt, hold, link, clock>>

\* reopenCancelledPaymentRecovery; a second one under this event's key is refused.
Reopen(e) ==
  /\ hook[e].step = "reopen" /\ (Stoppable => task[e].state = "NONE")
  /\ Review
  /\ IF Stoppable THEN New(e, Recover) ELSE UNCHANGED <<task, payload>>
  /\ Hook(e, "done")
  /\ UNCHANGED <<work, trouble, lease, hold, link, clock>>

-----------------------------------------------------------------------------
(* The tasks: PayOSReconciliationTaskProcessor and the service it calls *)

Op(w) == lease[w].op
Step(w, s) == work[w].step = s
GoTo(w, s) == Go(w, [step |-> s, k |-> work[w].k, attempt |-> work[w].attempt])
Observing(w, ev) ==
  Go(w, [step |-> "observe", k |-> work[w].k, attempt |-> work[w].attempt,
         ev |-> ev, intent |-> attempt.cancel])
Freeing(w, review) ==
  Go(w, [step |-> "free", k |-> work[w].k, attempt |-> work[w].attempt, review |-> review])
Done(w, verdict, next) ==
  Go(w, [step |-> "finish", k |-> work[w].k, attempt |-> work[w].attempt,
         verdict |-> verdict, next |-> next])
Ends(w, verdict) == Done(w, verdict, lease[w])

\* The continuation a PENDING outcome asks for; CANCEL_LINK goes on as CANCEL.
Pending(w, sent, verify) ==
  Done(w, "pending",
    [op |-> IF Op(w) = "RECONCILE" THEN "RECONCILE" ELSE "CANCEL",
     sent |-> sent, verify |-> verify \/ lease[w].verify, later |-> work[w].k \in Hooks])
KeepsGoing(w) == Pending(w, lease[w].sent, FALSE)
Verifies(w) == Pending(w, lease[w].sent, TRUE)
CancelsNext(w) ==
  Done(w, "pending", [op |-> "CANCEL_LINK", sent |-> FALSE, verify |-> FALSE,
                      later |-> work[w].k \in Hooks])

Forget(w) == lease' = [lease EXCEPT ![w] = Reconcile]

attemptSide == <<attempt, hold, link, hook, clock>>
Quiet == UNCHANGED <<task, payload, lease>>

\* claimDue
Take(w, k) ==
  /\ Claim(w, k)
  /\ lease' = [lease EXCEPT ![w] = payload[k]]
  /\ UNCHANGED <<payload, attemptSide>>
Drop(k) == Exhaust(k) /\ UNCHANGED <<payload, lease, attemptSide>>

\* The payload's time is up; a cancellation reads the attempt before it calls.
Begin(w) ==
  /\ Step(w, "start")
  /\ IF work[w].k \in over THEN Ends(w, "mismatch")
     ELSE IF Op(w) = "RECONCILE" THEN GoTo(w, "call")
     ELSE IF attempt.ord = "CREATED" THEN Ends(w, "matched")
     ELSE IF Op(w) = "CANCEL_LINK" /\ waited THEN Freeing(w, TRUE)
     ELSE GoTo(w, "call")
  /\ Quiet /\ UNCHANGED <<trouble, attemptSide>>

\* Mutant of Unanswered: the ten minutes are not looked at without an answer.
UnansweredWaits(w) ==
  IF Op(w) = "RECONCILE" THEN Ends(w, "retryable") ELSE KeepsGoing(w)

\* No answer, or no such link yet: the processor sees the same exception.
Unanswered(w) ==
  IF Op(w) = "RECONCILE" THEN Ends(w, "retryable")
  ELSE IF waited THEN Freeing(w, TRUE) ELSE KeepsGoing(w)

LookUp(w) ==
  /\ Step(w, "call") /\ Op(w) # "CANCEL_LINK"
  /\ \/ link.status = "NONE" /\ Unanswered(w) /\ UNCHANGED trouble
     \/ link.status # "NONE" /\ Trouble /\ Unanswered(w)
     \/ /\ link.status # "NONE"
        /\ Observing(w, [status |-> link.status, money |-> link.money])
        /\ UNCHANGED trouble
  /\ Quiet /\ UNCHANGED attemptSide

\* cancelPaymentLink; whether an unanswered call took effect is not known, and
\* only an answer that says PAID is recorded.
CancelCall(w) ==
  /\ Step(w, "call") /\ Op(w) = "CANCEL_LINK"
  /\ \/ /\ link.status \in {"PENDING", "UNDERPAID"}
        /\ link' = [link EXCEPT !.status = "CANCELLED"]
        /\ Pending(w, TRUE, TRUE)
     \/ /\ link.status = "PAID"
        /\ Observing(w, [status |-> "PAID", money |-> link.money])
        /\ UNCHANGED link
     \/ Pending(w, TRUE, TRUE) /\ UNCHANGED link
  /\ Quiet /\ UNCHANGED <<trouble, attempt, hold, hook, clock>>

\* Mutant of AfterReconcile: a pending payment concludes the flow.
AfterReconcileOnce(w, ev, b, told) ==
  IF b.pay = "PENDING" THEN Ends(w, "matched")
  ELSE IF b.pay # "PAID" \/ told \/ work[w].intent THEN Ends(w, "mismatch")
  ELSE GoTo(w, "finalize")

\* After the observation, by operation: b is the projection it returned.
AfterReconcile(w, ev, b, told) ==
  IF ev.status = "CANCELLED" /\ (ev.money # "none" \/ told \/ b.pay \in {"MISMATCH", "PAID"})
    THEN Ends(w, "mismatch")
  ELSE IF ev.status = "CANCELLED" /\ b.pay = "CANCELLED" THEN Freeing(w, FALSE)
  ELSE IF b.pay = "PENDING" THEN KeepsGoing(w)
  ELSE IF b.pay # "PAID" \/ told \/ work[w].intent THEN Ends(w, "mismatch")
  ELSE GoTo(w, "finalize")

\* Mutant of AfterCancel: a cancellation that was sent is taken for done.
AfterCancelSent(w, ev, b, told) ==
  IF told \/ b.pay = "MISMATCH" THEN Ends(w, "mismatch")
  ELSE IF b.pay = "PAID" THEN GoTo(w, "review")
  ELSE IF waited \/ lease[w].sent THEN Freeing(w, TRUE)
  ELSE IF ~lease[w].verify THEN CancelsNext(w) ELSE KeepsGoing(w)

AfterCancel(w, ev, b, told) ==
  IF told \/ b.pay = "MISMATCH" THEN Ends(w, "mismatch")
  ELSE IF b.pay = "PAID" THEN GoTo(w, "review")
  ELSE IF ev.status = "CANCELLED"
    THEN IF ev.money = "none" THEN Freeing(w, FALSE) ELSE Ends(w, "mismatch")
  ELSE IF waited THEN Freeing(w, TRUE)
  ELSE IF ~lease[w].verify /\ ~lease[w].sent THEN CancelsNext(w) ELSE KeepsGoing(w)
AfterCancelLink(w, b, told) ==
  IF b.pay = "PAID" /\ ~told THEN GoTo(w, "review") ELSE Pending(w, TRUE, TRUE)

Observe(w) ==
  /\ Step(w, "observe")
  /\ LET ev == work[w].ev
         b == Record(attempt, Op(w), ev)
         told == Told(attempt, Op(w), ev)
     IN /\ attempt' = b
        /\ CASE Op(w) = "RECONCILE"   -> AfterReconcile(w, ev, b, told)
             [] Op(w) = "CANCEL"      -> AfterCancel(w, ev, b, told)
             [] Op(w) = "CANCEL_LINK" -> AfterCancelLink(w, b, told)
  /\ Quiet /\ UNCHANGED <<trouble, hold, link, hook, clock>>

\* An order settles the flow; review ends it; a rollback is retried.
FinalizeTask(w) ==
  /\ Step(w, "finalize")
  /\ \/ (CreateOrder(TRUE) \/ ReturnOrder(TRUE)) /\ Ends(w, "matched")
     \/ Withhold(TRUE) /\ Ends(w, "mismatch")
     \/ MayCreate(TRUE) /\ Ends(w, "retryable") /\ UNCHANGED <<attempt, hold>>
  /\ Quiet /\ UNCHANGED <<trouble, link, hook, clock>>

ReviewTask(w) ==
  /\ Step(w, "review")
  /\ Review
  /\ IF Op(w) = "CANCEL" THEN Verifies(w) ELSE Pending(w, TRUE, TRUE)
  /\ Quiet /\ UNCHANGED <<trouble, hold, link, hook, clock>>

FreeTask(w) ==
  /\ Step(w, "free")
  /\ Free(work[w].review)
  /\ CASE Op(w) = "RECONCILE" -> IF Releases THEN KeepsGoing(w) ELSE Ends(w, "mismatch")
       [] Op(w) = "CANCEL"      -> Verifies(w)
       [] Op(w) = "CANCEL_LINK" -> Pending(w, FALSE, TRUE)
  /\ Quiet /\ UNCHANGED <<trouble, link, hook, clock>>

\* Mutant of StateOf: a pending attempt ends its flow like any success.
StateOfEnding(verdict, attempt0) ==
  CASE verdict \in {"matched", "pending"} -> "SUCCEEDED"
    [] verdict = "mismatch" -> "REVIEW_REQUIRED"
    [] verdict = "retryable" -> IF attempt0 >= MaxAttempts THEN "REVIEW_REQUIRED" ELSE "READY"

\* nextTaskOutcome of a PAYOS_RECONCILE task, and READY for its continuation
StateOf(verdict, attempt0) ==
  CASE verdict = "matched" -> "SUCCEEDED"
    [] verdict = "mismatch" -> "REVIEW_REQUIRED"
    [] verdict = "retryable" -> IF attempt0 >= MaxAttempts THEN "REVIEW_REQUIRED" ELSE "READY"
    [] verdict = "pending" -> "READY"

\* finish, with the continuation in the same transaction
Conclude(w) ==
  /\ Step(w, "finish")
  /\ LET j == work[w]
         ended == Ended(task[j.k], StateOf(j.verdict, j.attempt))
     IN IF Holds(w)
        THEN /\ task' = [task EXCEPT ![j.k] =
                   IF j.verdict = "pending" THEN [ended EXCEPT !.attempt = 0] ELSE ended]
             /\ payload' = [payload EXCEPT ![j.k] = j.next]
        ELSE UNCHANGED <<task, payload>>
  /\ Go(w, Idle) /\ Forget(w)
  /\ UNCHANGED <<trouble, attemptSide>>

LeaseRunsOut(k) == Lapse(k) /\ UNCHANGED <<payload, lease, attemptSide>>
WorkerDies(w) == Die(w) /\ Forget(w) /\ UNCHANGED <<payload, attemptSide>>

-----------------------------------------------------------------------------
Advance(w) == Begin(w) \/ LookUp(w) \/ CancelCall(w) \/ Observe(w) \/ FinalizeTask(w)
              \/ ReviewTask(w) \/ FreeTask(w) \/ Conclude(w)
Outside == CreateLink \/ LinkExpires \/ Expire \/ TenMinutes \/ OneDay
           \/ \E to \in Money : Transfer(to)
Next ==
  \/ Outside
  \/ \E k \in Keys : RequestCheck(k) \/ RequestCancel(k) \/ Drop(k) \/ LeaseRunsOut(k)
  \/ \E e \in Hooks : ReadHook(e) \/ Hear(e) \/ FinalizeHeard(e) \/ HearAgain(e) \/ Reopen(e) \/ OneDayAfter(e)
  \/ \E w \in Workers : Advance(w) \/ WorkerDies(w) \/ \E k \in Keys : Take(w, k)

\* The runner keeps claiming what is due and goes on with what it claimed; the
\* ten minutes pass.  Nothing makes a customer, PayOS or a webhook act.
Fairness ==
  /\ \A w \in Workers : WF_vars(Advance(w)) /\ \A k \in Keys : SF_vars(Take(w, k))
  /\ \A k \in Keys : WF_vars(LeaseRunsOut(k)) /\ WF_vars(Drop(k))
  /\ WF_vars(TenMinutes)
Spec == Init /\ [][Next]_vars
FairSpec == Spec /\ Fairness

-----------------------------------------------------------------------------
(* Properties *)

\* A reconciliation flow is over without review only when there is an order, so
\* no payment is left without a task that looks for it.
FlowsSettle == \A k \in Keys : task[k].state = "SUCCEEDED" => attempt.order

\* A reservation is given back before the ten minutes are over only when PayOS has
\* closed the link.
FreedKnowingly ==
  [][hold = "PENDING" /\ hold' = "RELEASED" => waited \/ link.status = "CANCELLED"]_vars

\* A cancellation the customer asked for gives the reservation back, unless money
\* or contradictory evidence was seen or a day has passed.
CancelReleases ==
  attempt.cancel ~> (hold # "PENDING" \/ attempt.pay = "PAID"
                     \/ attempt.ord = "REVIEW_REQUIRED" \/ Initial \in over)

\* A full payment reaches its conclusion through the reservation's own flow, even
\* if its webhook never arrives: the order is made, or the attempt stands in front
\* of an operator.  The flow must have an attempt to spare, and must not meet the
\* payment halfway: an underpaid link ends it.
Spare == task[Initial].attempt + 1 + (MaxTrouble - trouble) <= MaxAttempts
Halfway == \E o \in attempt.seen : o[2].money = "part"
Surfaced ==
  \/ attempt.ord = "REVIEW_REQUIRED" \/ attempt.pay = "MISMATCH"
  \/ task[Initial].state = "REVIEW_REQUIRED" /\ attempt.pay = "PAID"
PaidIsSeen ==
  (link.money = "all" /\ Active(Initial) /\ Spare)
    ~> (attempt.order \/ Surfaced \/ Halfway \/ Initial \in over)

\* A flow that gave up shows in the exception queue, unless the order exists.
UnresolvedSurfaced ==
  task[Initial].state = "REVIEW_REQUIRED" =>
    attempt.order \/ attempt.pay \in {"PAID", "MISMATCH", "CANCELLED"}
=============================================================================
