------------------------------- MODULE Emails -------------------------------
(***************************************************************************)
(* Transactional e-mail on the durable tasks: a message is enqueued with   *)
(* the business change, a worker reads it, calls Resend under the          *)
(* message's idempotency key, records the answer while it holds its lease, *)
(* and finishes the task.  Each of these may be the last thing it does.    *)
(* Resend reports the fate of an accepted message by webhook, and an       *)
(* operator may send a message again under a new key.                      *)
(*                                                                         *)
(* Resend itself is external: it accepts a message once per key for 24     *)
(* hours, may answer, refuse, or leave the worker without an answer.       *)
(***************************************************************************)
EXTENDS Tasks

CONSTANT Business  \* bound: the keys business changes enqueue; resend has the rest

VARIABLES
  mail,    \* transactional_emails, by event key
  age,     \* time since first_attempt_at
  resend,  \* what Resend knows of the key
  report   \* the delivery event stored of a message, or "NONE"

mailVars == <<task, work, trouble, mail, age, resend, report>>

-----------------------------------------------------------------------------
(* Values *)

\* Fates the provider reports; the code treats BOUNCED as it does DELIVERED.
Reported == {"DELIVERED", "FAILED"}
MailState == {"NONE", "PENDING", "ACCEPTED", "REVIEW_REQUIRED"} \cup Reported

\* id is the message Resend accepted last as far as the row knows, 0 for none.
Mail == [state : MailState, id : Nat]
NoMail == [state |-> "NONE", id |-> 0]

\* Under 23 hours, up to 24 hours, and after that.
Age == {"FRESH", "NEAR", "OVER"}
Answer == {"accepted", "refused", "lost"}
SendJob == [step : {"start", "call"}, k : Keys, attempt : 1..MaxAttempts]
ReplyJob == [step : {"reply"}, k : Keys, attempt : 1..MaxAttempts,
             answer : Answer, id : Nat]
FinishJob == [step : {"finish"}, k : Keys, attempt : 1..MaxAttempts, result : Result]
MailJob == {Idle} \cup SendJob \cup ReplyJob \cup FinishJob

MailTypeOK ==
  /\ task \in [Keys -> Task]
  /\ work \in [Workers -> MailJob]
  /\ trouble \in 0..MaxTrouble
  /\ mail \in [Keys -> Mail]
  /\ age \in [Keys -> Age]
  /\ resend \in [Keys -> Nat]
  /\ report \in [Keys -> Reported \cup {"NONE"}]

MailInit ==
  /\ QueueInit
  /\ mail = [k \in Keys |-> NoMail]
  /\ age = [k \in Keys |-> "FRESH"]
  /\ resend = [k \in Keys |-> 0]
  /\ report = [k \in Keys |-> "NONE"]

-----------------------------------------------------------------------------
(* Enqueue and resend *)

Written(k) == mail' = [mail EXCEPT ![k].state = "PENDING"]

\* The row and its task are inserted in the transaction of the business change.
Enqueue(k) ==
  /\ k \in Business /\ mail[k].state = "NONE"
  /\ Written(k)
  /\ task' = Enqueued(k)
  /\ UNCHANGED <<work, trouble, age, resend, report>>

\* What an operator sees: a message whose task needs review is in review.
Shown(k) ==
  IF task[k].state = "REVIEW_REQUIRED" /\ mail[k].state = "PENDING"
  THEN "REVIEW_REQUIRED" ELSE mail[k].state
Resendable(k) == Shown(k) \in {"FAILED", "ACCEPTED", "REVIEW_REQUIRED"}

\* resend, with the unknown outcome acknowledged where there is one: the same
\* facts under a new key.
Resend(k, new) ==
  /\ Resendable(k)
  /\ new \in Keys \ Business /\ mail[new].state = "NONE"
  /\ Written(new)
  /\ task' = Enqueued(new)
  /\ UNCHANGED <<work, trouble, age, resend, report>>

-----------------------------------------------------------------------------
(* processEmail *)

ConcludeMail(w, result) ==
  Go(w, [step |-> "finish", k |-> work[w].k, attempt |-> work[w].attempt,
         result |-> result])
AtMail(w, step) == work[w].step = step

\* Mutant of Read: whatever an earlier attempt recorded counts as done.
ReadSettled(w) ==
  /\ AtMail(w, "start")
  /\ IF mail[work[w].k].state \in {"ACCEPTED", "FAILED", "REVIEW_REQUIRED"}
     THEN ConcludeMail(w, "success")
     ELSE Go(w, [work[w] EXCEPT !.step = "call"])
  /\ UNCHANGED <<task, trouble, mail, age, resend, report>>

\* findForSend: what an earlier attempt recorded ends this one.
Read(w) ==
  /\ AtMail(w, "start")
  /\ LET state == mail[work[w].k].state IN
       CASE state = "ACCEPTED"        -> ConcludeMail(w, "success")
         [] state = "FAILED"          -> ConcludeMail(w, "permanent")
         [] state = "REVIEW_REQUIRED" -> ConcludeMail(w, "ambiguous")
         [] OTHER -> Go(w, [work[w] EXCEPT !.step = "call"])
  /\ UNCHANGED <<task, trouble, mail, age, resend, report>>

\* Mutant of TooLate: a late retry is sent like any other.
TooLateNever(w) == FALSE

\* emailRetryPolicy: a retry 23 hours after the first attempt is not sent.
TooLate(w) == work[w].attempt > 1 /\ age[work[w].k] # "FRESH"

\* Mutant of Mark: the row is updated without the lease.
MarkAlways(w, state, id) ==
  mail' = [mail EXCEPT ![work[w].k] = [state |-> state, id |-> id]]

\* updateFenced: while the lease lasts, whatever the state is by now.
Mark(w, state, id) ==
  mail' = IF Holds(w)
          THEN [mail EXCEPT ![work[w].k] = [state |-> state, id |-> id]]
          ELSE mail

KeepId(w) == mail[work[w].k].id

GiveUp(w) ==
  /\ AtMail(w, "call") /\ TooLate(w)
  /\ Mark(w, "REVIEW_REQUIRED", KeepId(w))
  /\ ConcludeMail(w, "ambiguous")
  /\ UNCHANGED <<task, trouble, age, resend, report>>

\* provider.send: Resend remembers a key for 24 hours and accepts it once; a
\* message is refused before it is accepted, or never.
Call(w, answer) ==
  /\ AtMail(w, "call") /\ ~TooLate(w)
  /\ LET k == work[w].k
         known == resend[k] > 0 /\ age[k] # "OVER"
         after == IF known THEN resend[k] ELSE resend[k] + 1
         reply(id) == [step |-> "reply", k |-> k, attempt |-> work[w].attempt,
                       answer |-> answer, id |-> id] IN
       \/ /\ answer # "refused"
          /\ resend' = [resend EXCEPT ![k] = after]
          /\ Go(w, reply(IF answer = "accepted" THEN after ELSE 0))
       \/ /\ answer # "accepted"
          /\ answer = "refused" => ~known
          /\ UNCHANGED resend
          /\ Go(w, reply(0))
  /\ UNCHANGED <<task, trouble, mail, age, report>>

\* markAccepted; a worker whose lease is gone reports an ambiguous outcome.
Accept(w) ==
  /\ AtMail(w, "reply") /\ work[w].answer = "accepted"
  /\ Mark(w, "ACCEPTED", work[w].id)
  /\ ConcludeMail(w, IF Holds(w) THEN "success" ELSE "ambiguous")
  /\ UNCHANGED <<task, trouble, age, resend, report>>

\* Resend refused the request, or did not answer, was busy or broken: the policy
\* decides again, at the age the message has by now.
Fail(w) ==
  /\ AtMail(w, "reply") /\ work[w].answer # "accepted"
  /\ IF TooLate(w)
     THEN Mark(w, "REVIEW_REQUIRED", KeepId(w)) /\ ConcludeMail(w, "ambiguous")
     ELSE IF work[w].answer = "refused"
     THEN Mark(w, "FAILED", KeepId(w)) /\ ConcludeMail(w, "permanent")
     ELSE UNCHANGED mail /\ ConcludeMail(w, "retryable")
  /\ UNCHANGED <<task, trouble, age, resend, report>>

\* A query fails.  While an accepted answer is recorded, the failure passes for
\* one of the network; elsewhere the runner takes the outcome for ambiguous.
Break(w) ==
  /\ Trouble
  /\ \/ /\ AtMail(w, "reply") /\ work[w].answer = "accepted"
        /\ Go(w, [work[w] EXCEPT !.answer = "lost", !.id = 0])
     \/ /\ \/ AtMail(w, "start")
           \/ AtMail(w, "call") /\ TooLate(w)
           \/ /\ AtMail(w, "reply")
              /\ work[w].answer = "refused" \/ (work[w].answer = "lost" /\ TooLate(w))
        /\ ConcludeMail(w, "ambiguous")
  /\ UNCHANGED <<task, mail, age, resend, report>>

-----------------------------------------------------------------------------
(* Time and delivery reports *)

\* A call takes at most 8 seconds, so the first attempt is over well before 23
\* hours are, and any attempt before the hour that is left after them.
Pass(k) ==
  /\ task[k].attempt > 0
  /\ \/ /\ age[k] = "FRESH"
        /\ \A w \in Workers : Working(w, k) => work[w].attempt > 1
        /\ age' = [age EXCEPT ![k] = "NEAR"]
     \/ /\ age[k] = "NEAR"
        /\ \A w \in Workers : ~Working(w, k)
        /\ age' = [age EXCEPT ![k] = "OVER"]
  /\ UNCHANGED <<task, work, trouble, mail, resend, report>>

\* recordDeliveryEvent: an event about an unknown message is answered 503 and
\* comes again; a known one is stored once and moves ACCEPTED only.
RecordReport(k, fate) ==
  /\ report[k] = "NONE"
  /\ mail[k].id = 1
  /\ report' = [report EXCEPT ![k] = fate]
  /\ mail' = [mail EXCEPT ![k].state = IF @ = "ACCEPTED" THEN fate ELSE @]
  /\ UNCHANGED <<task, work, trouble, age, resend>>

-----------------------------------------------------------------------------
(* Specification *)

others == <<mail, age, resend, report>>

TakeMail(k) ==
  /\ \/ \E w \in Workers : Claim(w, k)
     \/ Exhaust(k)
  /\ UNCHANGED others

AdvanceMail(w) ==
  \/ Read(w) \/ GiveUp(w) \/ Accept(w) \/ Fail(w)
  \/ \E answer \in Answer : Call(w, answer)
  \/ Finish(w) /\ UNCHANGED others

MailNext ==
  \/ \E k \in Keys :
       \/ Enqueue(k) \/ TakeMail(k) \/ Pass(k)
       \/ Lapse(k) /\ UNCHANGED others
       \/ \E new \in Keys : Resend(k, new)
       \/ \E fate \in Reported : RecordReport(k, fate)
  \/ \E w \in Workers :
       \/ AdvanceMail(w) \/ Break(w)
       \/ Die(w) /\ UNCHANGED others

MailSpec == MailInit /\ [][MailNext]_mailVars

\* A scheduler calls the task runner again and again; a worker that did not
\* die goes on; and the lease of one that did runs out.
FairMailSpec ==
  /\ MailSpec
  /\ \A w \in Workers : WF_mailVars(AdvanceMail(w))
  /\ \A k \in Keys :
       /\ WF_mailVars(TakeMail(k))
       /\ WF_mailVars(Lapse(k) /\ trouble' = trouble /\ UNCHANGED others)

-----------------------------------------------------------------------------
(* Properties *)

\* However often an attempt dies, outlasts its lease or gets no answer, the
\* retries of one message make Resend accept it once: the policy stops a retry
\* before the provider forgets the key.
SentOnce == \A k \in Keys : resend[k] <= 1

\* A task that succeeded means a message Resend accepted and the row knows it
\* by: no worker reports success for a message left for review or refused.
SucceededAccepted ==
  \A k \in Keys : task[k].state = "SUCCEEDED" =>
    mail[k].id > 0 /\ mail[k].state \in {"ACCEPTED"} \cup Reported

\* What one worker concluded of a message is not changed by another that still
\* holds its own answer: an accepted message moves by a delivery report only,
\* one that failed or awaits review does not move.
ConclusionStays == [][\A k \in Keys :
  /\ mail[k].state \in {"FAILED", "REVIEW_REQUIRED"} =>
       mail'[k].state = mail[k].state
  /\ mail[k].state = "ACCEPTED" =>
       mail'[k].state \in {"ACCEPTED", report'[k]}]_mailVars

\* Leases and tokens keep what a queue of tasks promises: bounded attempts, one
\* conclusion for each, none for an attempt another worker took over.
PhaseOf(t) == CASE t.state = "NONE"    -> "none"
                [] t.state = "READY"   -> "waiting"
                [] t.state = "RUNNING" -> "tried"
                [] t.state \in Over    -> "over"
phase == [k \in Keys |-> PhaseOf(task[k])]
tries == [k \in Keys |-> task[k].attempt]
Queue == INSTANCE TaskQueue
QueueKept == Queue!Spec

\* Every message's task is concluded in the end, whoever dies on the way.
EveryTaskConcludes ==
  \A k \in Keys : task[k].state = "READY" ~> task[k].state \in Over

\* "Permanent failures and exhausted attempts enter a reviewable state": an
\* operator can send a message again once its task has failed.
ExhaustedReviewable == \A k \in Keys : task[k].state = "FAILED" => Resendable(k)

\* A delivery the provider reported stays reported: the report moves a message
\* out of ACCEPTED, and a retry of the task does not take it back.
DeliveryStays == [][\A k \in Keys :
  mail[k].state = "DELIVERED" => mail'[k].state = "DELIVERED"]_mailVars
=============================================================================
