---------------------------- MODULE WebhookInbox ----------------------------
(***************************************************************************)
(* The inbox of signed PayOS webhooks, payment_webhook_events: how one     *)
(* event is claimed, processed, concluded and acknowledged when PayOS      *)
(* repeats it, handlers overtake each other or die, and the customer asks  *)
(* to cancel meanwhile.  All events are about one payment attempt, of      *)
(* which the inbox only tells apart what it reads back (module Checkout    *)
(* has the attempt in full).                                               *)
(*                                                                         *)
(* The claim takes an event for new when its INSERT ... ON DUPLICATE KEY   *)
(* UPDATE id = LAST_INSERT_ID(id) affected one row.  mysql2 connects with  *)
(* CLIENT_FOUND_ROWS unless told otherwise, and the pool does not tell it: *)
(* MySQL then reports one row for a duplicate it leaves as it is, too.  So *)
(* every claim sees `inserted`, the exits for a concluded event and for a  *)
(* fresh one in process are never taken, and each repeat of a payment      *)
(* takes the event over, concluded or in another handler's hands.          *)
(*                                                                         *)
(* attempt_count is the generation of a claim.  It is only ever compared   *)
(* for equality, so a new generation is any number that neither the row    *)
(* nor a running handler carries.                                          *)
(***************************************************************************)
EXTENDS Naturals, FiniteSets

CONSTANTS
  Events,      \* event keys: PayOS' reference of a bank transfer
  Handlers,    \* bound: webhook requests served at one moment
  MaxSent,     \* bound: different webhooks PayOS emits
  MaxTrouble   \* bound: handlers that die, finalizations that throw and
               \* webhooks repeated without need, together

ASSUME BoundAssumption ==
  /\ IsFiniteSet(Handlers)
  /\ {MaxSent, MaxTrouble} \subseteq Nat

VARIABLES
  inbox,    \* payment_webhook_events, by event key
  attempt,  \* the payment attempt the webhooks are about
  recovery, \* events that have a recovery task under their own key
  work,     \* what each webhook request is at
  sent,     \* webhooks PayOS has emitted
  acked,    \* webhooks PayOS got a 200 for
  trouble   \* crashes, faults and needless repeats so far

vars == <<inbox, attempt, recovery, work, sent, acked, trouble>>

-----------------------------------------------------------------------------
(* Values *)

\* A success about the whole price, a success about another amount, and an
\* event that reports no success.
Payload == {"EXACT", "PARTIAL", "OTHER"}
Final == {"PROCESSED", "IGNORED", "MISMATCH"}
Generation == 0 .. Cardinality(Handlers) + 1

Row == [status : {"NONE", "PROCESSING", "FAILED"} \cup Final,
        payload : Payload, count : Generation]
NoRow == [status |-> "NONE", payload |-> "OTHER", count |-> 0]

\* The state UNKNOWN is treated like MISMATCH here and left out.
Attempt == [pay : {"PENDING", "PAID", "MISMATCH"}, ordered : BOOLEAN,
            review : BOOLEAN, cancel : BOOLEAN,
            seen : SUBSET (Events \X Payload)]
NewAttempt == [pay |-> "PENDING", ordered |-> FALSE, review |-> FALSE,
               cancel |-> FALSE, seen |-> {}]

Idle == [step |-> "idle"]
Claimed == [e : Events, p : Payload, count : Generation]
Job == {Idle}
  \cup [step : {"read"}, of : Claimed]
  \cup [step : {"observe"}, of : Claimed, cancel : BOOLEAN]
  \cup [step : {"finalize", "reopen"}, of : Claimed]
  \cup [step : {"complete"}, of : Claimed, to : Final \cup {"FAILED"}]
  \cup [step : {"answer"}, e : Events, p : Payload, ok : BOOLEAN]

TypeOK ==
  /\ inbox \in [Events -> Row]
  /\ attempt \in Attempt
  /\ recovery \subseteq Events
  /\ work \in [Handlers -> Job]
  /\ sent \subseteq Events \X Payload
  /\ acked \subseteq sent
  /\ trouble \in 0..MaxTrouble

Init ==
  /\ inbox = [e \in Events |-> NoRow]
  /\ attempt = NewAttempt
  /\ recovery = {}
  /\ work = [h \in Handlers |-> Idle]
  /\ sent = {}
  /\ acked = {}
  /\ trouble = 0

Trouble == trouble < MaxTrouble /\ trouble' = trouble + 1
Running(h) == work[h].step \notin {"idle", "answer"}
Carrying(e) == {h \in Handlers : Running(h) /\ work[h].of.e = e}
Go(h, job) == work' = [work EXCEPT ![h] = job]
Reply(h, e, p, ok) == Go(h, [step |-> "answer", e |-> e, p |-> p, ok |-> ok])

-----------------------------------------------------------------------------
(* PayOS and the customer, external *)

Emit(e, p) ==
  /\ <<e, p>> \notin sent
  /\ Cardinality(sent) < MaxSent
  /\ sent' = sent \cup {<<e, p>>}
  /\ UNCHANGED <<inbox, attempt, recovery, work, acked, trouble>>

\* requestOwnedCancellation
RequestCancellation ==
  /\ ~attempt.ordered
  /\ attempt' = [attempt EXCEPT !.cancel = TRUE]
  /\ UNCHANGED <<inbox, recovery, work, sent, acked, trouble>>

-----------------------------------------------------------------------------
(* Meanwhile a reconciliation task looks the same payment up, and makes the  *)
(* order or hands it to an operator.                                        *)

\* Mutant of TaskObserves: a lookup that is late takes a payment back.
TaskObservesLatest ==
  /\ \E pay \in {"PENDING", "PAID"} : attempt' = [attempt EXCEPT !.pay = pay]
  /\ UNCHANGED <<inbox, recovery, work, sent, acked, trouble>>

\* A lookup that reports no payment yet rewrites MISMATCH too.
TaskObserves ==
  /\ attempt.pay # "PAID"
  /\ \E pay \in {"PENDING", "PAID"} : attempt' = [attempt EXCEPT !.pay = pay]
  /\ UNCHANGED <<inbox, recovery, work, sent, acked, trouble>>

TaskFinalizes ==
  /\ attempt.pay = "PAID" /\ ~attempt.ordered
  /\ \/ ~attempt.cancel /\ attempt' = [attempt EXCEPT !.ordered = TRUE]
     \/ attempt' = [attempt EXCEPT !.review = TRUE]
  /\ UNCHANGED <<inbox, recovery, work, sent, acked, trouble>>

-----------------------------------------------------------------------------
(* The claim: one transaction that inserts or locks the row of the event.   *)
(* A handler starts with it and either answers at once or owns the event.   *)

\* UPDATE ... WHERE status = 'PROCESSING' AND attempt_count = ?
Current(h) ==
  /\ inbox[work[h].of.e].status = "PROCESSING"
  /\ inbox[work[h].of.e].count = work[h].of.count

\* Each delivery names a webhook PayOS has emitted.  PayOS repeats it until it is
\* acknowledged; that it repeats what it got a 200 for, or what a live handler
\* has in hand, is bounded.
Needless(e, p) ==
  \/ <<e, p>> \in acked
  \/ \E h \in Carrying(e) : work[h].of.p = p /\ Current(h)
Delivered(h, e, p) ==
  /\ work[h] = Idle /\ <<e, p>> \in sent
  /\ IF Needless(e, p) THEN Trouble ELSE UNCHANGED trouble

Same(e, p) == inbox[e].status = "NONE" \/ inbox[e].payload = p

\* The event key is known with another payload: MISMATCH, whatever stood there.
ClaimConflict(h, e, p) ==
  /\ Delivered(h, e, p) /\ ~Same(e, p)
  /\ inbox' = [inbox EXCEPT ![e].status = "MISMATCH"]
  /\ Reply(h, e, p, TRUE)
  /\ UNCHANGED <<attempt, recovery, sent, acked>>

\* An event that reports no success is concluded at once, and again when it comes
\* again.
ClaimIgnored(h, e) ==
  /\ Delivered(h, e, "OTHER") /\ Same(e, "OTHER")
  /\ inbox' = [inbox EXCEPT ![e].status = "IGNORED", ![e].payload = "OTHER"]
  /\ Reply(h, e, "OTHER", TRUE)
  /\ UNCHANGED <<attempt, recovery, sent, acked>>

\* Mutant of NextCount: who takes an event over keeps the generation it found.
SameCount(e) == inbox[e].count

NextCount(e) ==
  CHOOSE n \in Generation :
    n # inbox[e].count /\ \A h \in Carrying(e) : n # work[h].of.count

\* A payment: the handler owns the event from here, whatever its row says.  A row
\* in PROCESSING is taken over whether or not its lease of 15 minutes is over;
\* the two ways to do it differ in the statement that counts the attempt only.
ClaimPayment(h, e, p) ==
  /\ Delivered(h, e, p) /\ Same(e, p) /\ p # "OTHER"
  /\ LET count == NextCount(e) IN
       /\ inbox' = [inbox EXCEPT ![e] =
            [status |-> "PROCESSING", payload |-> p, count |-> count]]
       /\ Go(h, [step |-> "read", of |-> [e |-> e, p |-> p, count |-> count]])
  /\ UNCHANGED <<attempt, recovery, sent, acked>>

-----------------------------------------------------------------------------
(* Processing: each step is a transaction of its own. *)

Finish(h, to) == Go(h, [step |-> "complete", of |-> work[h].of, to |-> to])

\* findPaymentAttempt: a cancellation request is read before the observation.
ReadAttempt(h) ==
  /\ work[h].step = "read"
  /\ Go(h, [step |-> "observe", of |-> work[h].of, cancel |-> attempt.cancel])
  /\ UNCHANGED <<inbox, attempt, recovery, sent, acked, trouble>>

\* recordObservation; a repeated observation is projected as not conflicting.
Observed(e, p) ==
  IF <<e, p>> \in attempt.seen THEN attempt
  ELSE [attempt EXCEPT
    !.pay = IF p = "EXACT" \/ @ = "PAID" THEN "PAID" ELSE "MISMATCH",
    !.review = @ \/ (p = "PARTIAL" /\ ~attempt.ordered),
    !.seen = @ \cup {<<e, p>>}]
Conflicting(e, p) == p = "PARTIAL" /\ <<e, p>> \notin attempt.seen

Observe(h) ==
  /\ work[h].step = "observe"
  /\ LET e == work[h].of.e
         p == work[h].of.p
         b == Observed(e, p) IN
       /\ attempt' = b
       /\ IF Conflicting(e, p) \/ b.pay = "MISMATCH" THEN Finish(h, "MISMATCH")
          ELSE IF b.pay = "PENDING" THEN Finish(h, "PROCESSED")
          ELSE Go(h, [step |-> IF work[h].cancel THEN "reopen" ELSE "finalize",
                      of |-> work[h].of])
  /\ UNCHANGED <<inbox, recovery, sent, acked, trouble>>

\* reopenCancelledPaymentRecovery: the recovery task is enqueued under a key
\* made of the event, and its facts contain the moment of the call.  A key that
\* exists with other facts throws, which rolls the transaction back.
Reopen(h) ==
  /\ work[h].step = "reopen"
  /\ IF attempt.ordered
     THEN Finish(h, "MISMATCH") /\ UNCHANGED <<attempt, recovery>>
     ELSE IF work[h].of.e \in recovery
     THEN Finish(h, "FAILED") /\ UNCHANGED <<attempt, recovery>>
     ELSE /\ attempt' = [attempt EXCEPT !.review = TRUE]
          /\ recovery' = recovery \cup {work[h].of.e}
          /\ Finish(h, "MISMATCH")
  /\ UNCHANGED <<inbox, sent, acked, trouble>>

Finalizing(h) == work[h].step = "finalize"

\* finalizePayOSCheckout finds the order, or makes it.
FinalizeOrder(h) ==
  /\ Finalizing(h) /\ work[h].of.p = "EXACT"
  /\ attempt.ordered \/ ~attempt.cancel
  /\ attempt' = [attempt EXCEPT !.ordered = TRUE]
  /\ Finish(h, "PROCESSED")
  /\ UNCHANGED <<inbox, recovery, sent, acked, trouble>>

\* It hands the attempt to an operator: the amounts differ, by this event or by
\* another, a cancellation was requested, or the stock is gone.
FinalizeReview(h) ==
  /\ Finalizing(h)
  /\ attempt' = [attempt EXCEPT !.review = TRUE]
  /\ Finish(h, "MISMATCH")
  /\ UNCHANGED <<inbox, recovery, sent, acked, trouble>>

\* It throws, and its transaction is rolled back.
FinalizeFault(h) ==
  /\ Finalizing(h)
  /\ Trouble
  /\ Finish(h, "FAILED")
  /\ UNCHANGED <<inbox, attempt, recovery, sent, acked>>

\* Mutant of Acknowledges: PayOS is told to stop although processing failed.
AcknowledgesFailure(h) == Current(h)

\* Mutant of Acknowledges: a mismatch is answered like a failure.
AcknowledgesSuccess(h) == Current(h) /\ work[h].to = "PROCESSED"

\* 200 for an event this handler concluded; 500 for one that failed, and when
\* the update hit no row because another handler owns the event by now.
Acknowledges(h) == Current(h) /\ work[h].to # "FAILED"

\* completeTerminal
Complete(h) ==
  /\ work[h].step = "complete"
  /\ inbox' = IF Current(h)
              THEN [inbox EXCEPT ![work[h].of.e].status = work[h].to]
              ELSE inbox
  /\ Reply(h, work[h].of.e, work[h].of.p, Acknowledges(h))
  /\ UNCHANGED <<attempt, recovery, sent, acked, trouble>>

\* The response reaches PayOS.
Answer(h) ==
  /\ work[h].step = "answer"
  /\ acked' = IF work[h].ok THEN acked \cup {<<work[h].e, work[h].p>>} ELSE acked
  /\ Go(h, Idle)
  /\ UNCHANGED <<inbox, attempt, recovery, sent, trouble>>

\* The handler dies between two transactions, or before its response is out.
Crash(h) ==
  /\ work[h] # Idle
  /\ Trouble
  /\ Go(h, Idle)
  /\ UNCHANGED <<inbox, attempt, recovery, sent, acked>>

-----------------------------------------------------------------------------
Deliver(e, p) ==
  \E h \in Handlers :
    \/ ClaimConflict(h, e, p)
    \/ p = "OTHER" /\ ClaimIgnored(h, e)
    \/ ClaimPayment(h, e, p)

Advance(h) ==
  \/ ReadAttempt(h) \/ Observe(h) \/ Reopen(h)
  \/ FinalizeOrder(h) \/ FinalizeReview(h) \/ FinalizeFault(h)
  \/ Complete(h) \/ Answer(h)

Next ==
  \/ \E e \in Events, p \in Payload : Emit(e, p) \/ Deliver(e, p)
  \/ \E h \in Handlers : Advance(h) \/ Crash(h)
  \/ RequestCancellation \/ TaskObserves \/ TaskFinalizes

\* PayOS repeats a webhook until it is acknowledged.  Delivery is strongly fair:
\* the bounds on handlers and on needless repeats disable it now and then.
Fairness ==
  /\ \A h \in Handlers : WF_vars(Advance(h))
  /\ \A e \in Events, p \in Payload :
       SF_vars(Deliver(e, p) /\ <<e, p>> \notin acked)

Spec == Init /\ [][Next]_vars
FairSpec == Spec /\ Fairness

-----------------------------------------------------------------------------
(* Properties *)

\* PayOS stops repeating what was acknowledged, so a payment whose webhook got
\* its 200 has left an order or a case for an operator, whoever of several
\* handlers answered, whichever of them died, and however often it was processed.
\* (A key reused with another payload is acknowledged as a conflict: only the
\* payload the row keeps is meant.)
Settled == attempt.ordered \/ attempt.review
AcknowledgedSettled ==
  \A w \in acked :
    w[2] # "OTHER" /\ inbox[w[1]].payload = w[2] => Settled

\* Fencing: of the handlers that process an event, one at most can still conclude
\* it; the others were overtaken by a repeat or by a payload conflict.
OneOwner ==
  \A e \in Events :
    inbox[e].status = "PROCESSING" =>
      Cardinality({h \in Carrying(e) : work[h].of.count = inbox[e].count}) <= 1

\* What the inbox records of a payment is true of the attempt, after whatever
\* repeats, takeovers and lookups: PROCESSED for the exact amount means that its
\* order exists, and neither PROCESSED nor MISMATCH is recorded before an order
\* or a case for an operator is, unless it only says that the key was reused.
Reused(e) == Cardinality({p \in Payload : <<e, p>> \in sent}) > 1
ConcludedTruly ==
  \A e \in Events :
    /\ inbox[e].status = "PROCESSED" =>
         IF inbox[e].payload = "EXACT" THEN attempt.ordered ELSE Settled
    /\ inbox[e].status = "MISMATCH" /\ inbox[e].payload # "OTHER" =>
         Settled \/ Reused(e)

\* Every webhook is acknowledged in the end, in spite of dead and slow handlers
\* and failing finalizations, unless the customer asked to cancel.
AnsweredUnlessCancelled ==
  \A e \in Events, p \in Payload :
    (<<e, p>> \in sent) ~> (<<e, p>> \in acked \/ attempt.cancel)

\* The service's own test asks it ("does not finalize a duplicate processed
\* event"): a concluded event is not processed again and keeps its outcome; only
\* a reused key turns it into a mismatch.
ConclusionStays ==
  [][\A e \in Events :
       inbox[e].status \in Final =>
         \/ inbox'[e].status = inbox[e].status
         \/ Reused(e) /\ inbox'[e].status = "MISMATCH"]_vars

\* The reliability design promises it for all: an event whose inbox row and
\* recovery task are committed is acknowledged.
RecoveredAcknowledged ==
  \A e \in Events :
    (e \in recovery) ~> (\A p \in Payload : <<e, p>> \in sent => <<e, p>> \in acked)
=============================================================================
