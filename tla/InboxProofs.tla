---------------------------- MODULE InboxProofs ----------------------------
(***************************************************************************)
(* Theorems about WebhookInbox, for any number of event keys, webhooks and *)
(* handlers, and any number of repeats and of handlers that die or fail.   *)
(***************************************************************************)
EXTENDS WebhookInbox, FiniteSetTheorems, TLAPS

-----------------------------------------------------------------------------
(* Jobs, generations and types *)

\* The step of a job names its kind.
LEMMA JobKinds ==
  ASSUME NEW j \in Job
  PROVE  /\ j = Idle <=> j.step = "idle"
         /\ j.step \notin {"idle", "answer"} => j.of \in Claimed
         /\ j.step = "complete" => j.to \in Final \cup {"FAILED"}
         /\ j.step = "answer" => j.e \in Events /\ j.p \in Payload /\ j.ok \in BOOLEAN
BY DEF Job, Idle, Claimed

\* There is a generation that neither the row nor a running handler carries:
\* there are two more of them than handlers.
LEMMA FreshCount ==
  ASSUME TypeOK, NEW e \in Events
  PROVE  /\ NextCount(e) \in Generation
         /\ NextCount(e) # inbox[e].count
         /\ \A h \in Carrying(e) : NextCount(e) # work[h].of.count
<1> DEFINE C == Carrying(e)
           f == [h \in C |-> work[h].of.count]
           T == {work[h].of.count : h \in C}
           n == Cardinality(Handlers)
<1>1. IsFiniteSet(C) /\ Cardinality(C) <= n /\ n \in Nat
  <2>1. C \in SUBSET Handlers
    BY DEF Carrying
  <2> QED
    BY <2>1, FS_Subset, FS_CardinalityType, BoundAssumption
<1>2. IsFiniteSet(T) /\ Cardinality(T) <= Cardinality(C)
  <2>1. f \in Surjection(C, T)
    BY DEF Surjection
  <2> HIDE DEF f, C, T
  <2> QED
    BY <1>1, <2>1, FS_Surjection
<1>3. IsFiniteSet(T \cup {inbox[e].count}) /\ Cardinality(T \cup {inbox[e].count}) <= n + 1
  <2> HIDE DEF T, C, n
  <2>1. Cardinality(T) \in Nat /\ Cardinality(C) \in Nat
    BY <1>1, <1>2, FS_CardinalityType
  <2>2. /\ IsFiniteSet(T \cup {inbox[e].count})
        /\ Cardinality(T \cup {inbox[e].count}) =
             IF inbox[e].count \in T THEN Cardinality(T) ELSE Cardinality(T) + 1
    BY <1>2, FS_AddElement, Zenon
  <2> QED
    BY <1>1, <1>2, <2>1, <2>2
<1>4. Cardinality(Generation) = n + 2
  <2>1. 0 \in Int /\ n + 1 \in Int
    BY <1>1
  <2>2. Cardinality(0 .. (n + 1)) = IF 0 > n + 1 THEN 0 ELSE n + 1 - 0 + 1
    BY <2>1, FS_Interval
  <2> QED
    BY <1>1, <2>2 DEF Generation
<1>5. \E m \in Generation : m \notin T \cup {inbox[e].count}
  <2> SUFFICES ASSUME Generation \subseteq T \cup {inbox[e].count} PROVE FALSE
    OBVIOUS
  <2> HIDE DEF T, C, n
  <2>1. Cardinality(Generation) <= Cardinality(T \cup {inbox[e].count})
    BY <1>3, FS_Subset
  <2>2. Cardinality(T \cup {inbox[e].count}) \in Nat
    BY <1>3, FS_CardinalityType
  <2> QED
    BY <1>1, <1>3, <1>4, <2>1, <2>2
<1> QED
  BY <1>5 DEF NextCount

LEMMA CountZero == 0 \in Generation
BY FS_CardinalityType, BoundAssumption DEF Generation

\* Nothing has been sent and every handler is idle.
LEMMA TypeInit == Init => TypeOK
<1> SUFFICES ASSUME Init PROVE TypeOK
  OBVIOUS
<1>1. NoRow \in Row
  BY CountZero DEF NoRow, Row, Payload
<1>2. NewAttempt \in Attempt
  BY DEF NewAttempt, Attempt
<1>3. Idle \in Job
  BY DEF Job
<1>4. inbox \in [Events -> Row] /\ attempt \in Attempt /\ work \in [Handlers -> Job]
  BY <1>1, <1>2, <1>3 DEF Init
<1> QED
  BY <1>4, BoundAssumption DEF Init, TypeOK

\* A handler that goes on to another job keeps the types.
LEMMA GoType ==
  ASSUME TypeOK, NEW h \in Handlers, NEW j \in Job, Go(h, j)
  PROVE  work' \in [Handlers -> Job]
BY DEF Go, TypeOK

LEMMA FinishType ==
  ASSUME TypeOK, NEW h \in Handlers, Running(h), NEW to \in Final \cup {"FAILED"},
         Finish(h, to)
  PROVE  work' \in [Handlers -> Job]
<1>1. work[h].of \in Claimed
  BY JobKinds DEF TypeOK, Running
<1>2. [step |-> "complete", of |-> work[h].of, to |-> to] \in Job
  BY <1>1 DEF Job
<1> QED
  BY <1>2, GoType DEF Finish

LEMMA ReplyType ==
  ASSUME TypeOK, NEW h \in Handlers, NEW e \in Events, NEW p \in Payload,
         NEW ok \in BOOLEAN, Reply(h, e, p, ok)
  PROVE  work' \in [Handlers -> Job]
<1>1. [step |-> "answer", e |-> e, p |-> p, ok |-> ok] \in Job
  BY DEF Job
<1> QED
  BY <1>1, GoType DEF Reply

LEMMA DeliveredType ==
  ASSUME TypeOK, NEW h \in Handlers, NEW e, NEW p, Delivered(h, e, p)
  PROVE  work[h] = Idle /\ <<e, p>> \in sent /\ trouble' \in 0 .. MaxTrouble
<1>1. CASE Needless(e, p)
  BY <1>1, BoundAssumption DEF Delivered, Trouble, TypeOK
<1>2. CASE ~Needless(e, p)
  BY <1>2 DEF Delivered, TypeOK
<1> QED
  BY <1>1, <1>2

\* A claim of a payment, with its generation under a name.
LEMMA Claims ==
  ASSUME NEW h \in Handlers, NEW e \in Events, NEW p, ClaimPayment(h, e, p)
  PROVE  \E c : /\ c = NextCount(e)
               /\ inbox' = [inbox EXCEPT ![e] =
                    [status |-> "PROCESSING", payload |-> p, count |-> c]]
               /\ Go(h, [step |-> "read", of |-> [e |-> e, p |-> p, count |-> c]])
BY DEF ClaimPayment

LEMMA ClaimType ==
  ASSUME TypeOK, NEW h \in Handlers, NEW e \in Events, NEW p \in Payload,
         ClaimPayment(h, e, p)
  PROVE  TypeOK'
<1>1. PICK c : /\ c = NextCount(e)
               /\ inbox' = [inbox EXCEPT ![e] =
                    [status |-> "PROCESSING", payload |-> p, count |-> c]]
               /\ Go(h, [step |-> "read", of |-> [e |-> e, p |-> p, count |-> c]])
  BY Claims
<1>2. c \in Generation
  BY <1>1, FreshCount
<1>3. [e |-> e, p |-> p, count |-> c] \in Claimed
  BY <1>2 DEF Claimed
<1>4. [step |-> "read", of |-> [e |-> e, p |-> p, count |-> c]] \in Job
  BY <1>3 DEF Job
<1>5. work' \in [Handlers -> Job]
  BY <1>1, <1>4, GoType
<1>6. [status |-> "PROCESSING", payload |-> p, count |-> c] \in Row
  BY <1>2 DEF Row
<1>7. inbox' \in [Events -> Row]
  BY <1>1, <1>6 DEF TypeOK
<1>8. trouble' \in 0 .. MaxTrouble
  BY DeliveredType DEF ClaimPayment
<1> QED
  BY <1>5, <1>7, <1>8 DEF ClaimPayment, TypeOK

\* What a handler reads of its job while it runs.
LEMMA AtWork ==
  ASSUME TypeOK, NEW h \in Handlers, Running(h)
  PROVE  /\ work[h].of \in Claimed
         /\ work[h].of.e \in Events /\ work[h].of.p \in Payload
BY JobKinds DEF TypeOK, Running, Claimed

LEMMA DeliverType ==
  ASSUME TypeOK, NEW e \in Events, NEW p \in Payload, Deliver(e, p)
  PROVE  TypeOK'
<1> PICK h \in Handlers :
      \/ ClaimConflict(h, e, p)
      \/ p = "OTHER" /\ ClaimIgnored(h, e)
      \/ ClaimPayment(h, e, p)
  BY DEF Deliver
<1>1. CASE ClaimConflict(h, e, p)
  <2>1. work' \in [Handlers -> Job]
    BY <1>1, ReplyType DEF ClaimConflict
  <2>2. inbox' \in [Events -> Row]
    BY <1>1 DEF ClaimConflict, TypeOK, Row, Final
  <2>3. trouble' \in 0 .. MaxTrouble
    BY <1>1, DeliveredType DEF ClaimConflict
  <2> QED
    BY <1>1, <2>1, <2>2, <2>3 DEF ClaimConflict, TypeOK
<1>2. CASE p = "OTHER" /\ ClaimIgnored(h, e)
  <2>1. work' \in [Handlers -> Job]
    BY <1>2, ReplyType DEF ClaimIgnored
  <2>2. inbox' \in [Events -> Row]
    BY <1>2 DEF ClaimIgnored, TypeOK, Row, Final, Payload
  <2>3. trouble' \in 0 .. MaxTrouble
    BY <1>2, DeliveredType DEF ClaimIgnored
  <2> QED
    BY <1>2, <2>1, <2>2, <2>3 DEF ClaimIgnored, TypeOK
<1>3. CASE ClaimPayment(h, e, p)
  BY <1>3, ClaimType
<1> QED
  BY <1>1, <1>2, <1>3

LEMMA AdvanceType ==
  ASSUME TypeOK, NEW h \in Handlers, Advance(h),
         work[h].step = "answer" => <<work[h].e, work[h].p>> \in sent
  PROVE  TypeOK'
<1>1. CASE ReadAttempt(h)
  <2>1. Running(h)
    BY <1>1 DEF ReadAttempt, Running
  <2>2. [step |-> "observe", of |-> work[h].of, cancel |-> attempt.cancel] \in Job
    BY <2>1, AtWork DEF Job, TypeOK, Attempt
  <2> QED
    BY <1>1, <2>2, GoType DEF ReadAttempt, TypeOK
<1>2. CASE Observe(h)
  <2>1. Running(h)
    BY <1>2 DEF Observe, Running
  <2> DEFINE e == work[h].of.e
             p == work[h].of.p
  <2>2. e \in Events /\ p \in Payload /\ work[h].of \in Claimed
    BY <2>1, AtWork
  <2>3. Observed(e, p) \in Attempt
    <3> HIDE DEF e, p
    <3>1. attempt \in Attempt /\ <<e, p>> \in Events \X Payload
      BY <2>2 DEF TypeOK
    <3>2. CASE <<e, p>> \in attempt.seen
      BY <3>1, <3>2 DEF Observed
    <3>3. CASE <<e, p>> \notin attempt.seen
      <4> DEFINE pay == IF p = "EXACT" \/ attempt.pay = "PAID" THEN "PAID" ELSE "MISMATCH"
                 review == attempt.review \/ (p = "PARTIAL" /\ ~attempt.ordered)
                 seen == attempt.seen \cup {<<e, p>>}
      <4>1. /\ pay \in {"PENDING", "PAID", "MISMATCH"} /\ review \in BOOLEAN
            /\ seen \in SUBSET (Events \X Payload)
        BY <3>1 DEF Attempt
      <4>2. Observed(e, p) = [attempt EXCEPT !.pay = pay, !.review = review, !.seen = seen]
        BY <3>1, <3>3 DEF Observed, Attempt
      <4> HIDE DEF pay, review, seen
      <4> QED
        BY <3>1, <4>1, <4>2 DEF Attempt
    <3> QED
      BY <3>2, <3>3
  <2>4. \A s \in {"finalize", "reopen"} : [step |-> s, of |-> work[h].of] \in Job
    BY <2>2 DEF Job
  <2>5. work' \in [Handlers -> Job]
    BY <1>2, <2>1, <2>4, FinishType, GoType DEF Observe, Final
  <2> QED
    BY <1>2, <2>3, <2>5 DEF Observe, TypeOK
<1>3. CASE Reopen(h)
  <2>1. Running(h)
    BY <1>3 DEF Reopen, Running
  <2>2. work' \in [Handlers -> Job]
    BY <1>3, <2>1, FinishType DEF Reopen, Final
  <2>3. attempt' \in Attempt
    BY <1>3 DEF Reopen, TypeOK, Attempt
  <2>4. recovery' \subseteq Events
    BY <1>3, <2>1, AtWork DEF Reopen, TypeOK
  <2> QED
    BY <1>3, <2>2, <2>3, <2>4 DEF Reopen, TypeOK
<1>4. CASE FinalizeOrder(h)
  <2>1. Running(h)
    BY <1>4 DEF FinalizeOrder, Finalizing, Running
  <2>2. work' \in [Handlers -> Job]
    BY <1>4, <2>1, FinishType DEF FinalizeOrder, Final
  <2> QED
    BY <1>4, <2>2 DEF FinalizeOrder, TypeOK, Attempt
<1>5. CASE FinalizeReview(h)
  <2>1. Running(h)
    BY <1>5 DEF FinalizeReview, Finalizing, Running
  <2>2. work' \in [Handlers -> Job]
    BY <1>5, <2>1, FinishType DEF FinalizeReview, Final
  <2> QED
    BY <1>5, <2>2 DEF FinalizeReview, TypeOK, Attempt
<1>6. CASE FinalizeFault(h)
  <2>1. Running(h)
    BY <1>6 DEF FinalizeFault, Finalizing, Running
  <2>2. work' \in [Handlers -> Job]
    BY <1>6, <2>1, FinishType DEF FinalizeFault
  <2> QED
    BY <1>6, <2>2, BoundAssumption DEF FinalizeFault, TypeOK, Trouble
<1>7. CASE Complete(h)
  <2>1. Running(h)
    BY <1>7 DEF Complete, Running
  <2>2. work[h].of.e \in Events /\ work[h].of.p \in Payload
    BY <2>1, AtWork
  <2>3. work[h].to \in Final \cup {"FAILED"}
    BY <1>7, JobKinds DEF Complete, TypeOK
  <2>4. work' \in [Handlers -> Job]
    BY <1>7, <2>2, ReplyType DEF Complete, Acknowledges, Current
  <2>5. inbox' \in [Events -> Row]
    BY <1>7, <2>2, <2>3 DEF Complete, TypeOK, Row
  <2> QED
    BY <1>7, <2>4, <2>5 DEF Complete, TypeOK
<1>8. CASE Answer(h)
  BY <1>8, GoType DEF Answer, TypeOK, Job
<1> QED
  BY <1>1, <1>2, <1>3, <1>4, <1>5, <1>6, <1>7, <1>8 DEF Advance

LEMMA TypeStep ==
  ASSUME TypeOK, [Next]_vars,
         \A h \in Handlers :
           work[h].step = "answer" => <<work[h].e, work[h].p>> \in sent
  PROVE  TypeOK'
<1>1. ASSUME NEW e \in Events, NEW p \in Payload, Emit(e, p)
      PROVE  TypeOK'
  BY <1>1 DEF Emit, TypeOK
<1>2. ASSUME NEW e \in Events, NEW p \in Payload, Deliver(e, p)
      PROVE  TypeOK'
  BY <1>2, DeliverType
<1>4. ASSUME NEW h \in Handlers, Advance(h)
      PROVE  TypeOK'
  BY <1>4, AdvanceType
<1>5. ASSUME NEW h \in Handlers, Crash(h)
      PROVE  TypeOK'
  <2>1. Idle \in Job
    BY DEF Job
  <2> QED
    BY <1>5, <2>1, GoType, BoundAssumption DEF Crash, TypeOK, Trouble
<1>6. CASE RequestCancellation \/ TaskObserves \/ TaskFinalizes
  BY <1>6 DEF RequestCancellation, TaskObserves, TaskFinalizes, TypeOK, Attempt
<1>7. CASE UNCHANGED vars
  BY <1>7 DEF vars, TypeOK
<1> QED
  BY <1>1, <1>2, <1>4, <1>5, <1>6, <1>7 DEF Next

-----------------------------------------------------------------------------
(* What handlers and rows carry was sent *)

JobSent(j) ==
  /\ j.step \notin {"idle", "answer"} => <<j.of.e, j.of.p>> \in sent
  /\ j.step = "answer" => <<j.e, j.p>> \in sent

SentOK ==
  /\ \A h \in Handlers : JobSent(work[h])
  /\ \A e \in Events : inbox[e].status # "NONE" => <<e, inbox[e].payload>> \in sent

\* A handler that takes up a job about a webhook that was sent.
LEMMA GoSent ==
  ASSUME TypeOK, SentOK, NEW h \in Handlers, NEW j, Go(h, j), JobSent(j),
         UNCHANGED sent
  PROVE  \A g \in Handlers : JobSent(work[g])'
BY DEF TypeOK, SentOK, Go, JobSent

LEMMA ReplySent ==
  ASSUME TypeOK, SentOK, NEW h \in Handlers, NEW e, NEW p, NEW ok,
         Reply(h, e, p, ok), <<e, p>> \in sent, UNCHANGED sent
  PROVE  \A g \in Handlers : JobSent(work[g])'
<1>1. JobSent([step |-> "answer", e |-> e, p |-> p, ok |-> ok])
  BY DEF JobSent
<1> QED
  BY <1>1, GoSent DEF Reply

\* Of what a running handler carries, its next job is about the same.
LEMMA FinishSent ==
  ASSUME TypeOK, SentOK, NEW h \in Handlers, Running(h), NEW to, Finish(h, to),
         UNCHANGED sent
  PROVE  \A g \in Handlers : JobSent(work[g])'
<1>1. JobSent([step |-> "complete", of |-> work[h].of, to |-> to])
  BY DEF JobSent, SentOK, Running
<1> QED
  BY <1>1, GoSent DEF Finish

LEMMA DeliverSent ==
  ASSUME TypeOK, SentOK, NEW e \in Events, NEW p \in Payload, Deliver(e, p)
  PROVE  SentOK'
<1> PICK h \in Handlers :
      \/ ClaimConflict(h, e, p)
      \/ p = "OTHER" /\ ClaimIgnored(h, e)
      \/ ClaimPayment(h, e, p)
  BY DEF Deliver
<1>1. CASE ClaimConflict(h, e, p)
  <2>1. \A g \in Handlers : JobSent(work[g])'
    BY <1>1, ReplySent DEF ClaimConflict, Delivered
  <2>2. \A d \in Events : inbox'[d].status # "NONE" => <<d, inbox'[d].payload>> \in sent'
    BY <1>1 DEF ClaimConflict, Same, SentOK, TypeOK, Row
  <2> QED
    BY <2>1, <2>2 DEF SentOK
<1>2. CASE p = "OTHER" /\ ClaimIgnored(h, e)
  <2>1. \A g \in Handlers : JobSent(work[g])'
    BY <1>2, ReplySent DEF ClaimIgnored, Delivered
  <2>2. \A d \in Events : inbox'[d].status # "NONE" => <<d, inbox'[d].payload>> \in sent'
    BY <1>2 DEF ClaimIgnored, Delivered, SentOK, TypeOK, Row
  <2> QED
    BY <2>1, <2>2 DEF SentOK
<1>3. CASE ClaimPayment(h, e, p)
  <2>1. PICK c : /\ inbox' = [inbox EXCEPT ![e] =
                      [status |-> "PROCESSING", payload |-> p, count |-> c]]
                 /\ Go(h, [step |-> "read", of |-> [e |-> e, p |-> p, count |-> c]])
    BY <1>3, Claims
  <2>2. <<e, p>> \in sent /\ UNCHANGED sent
    BY <1>3 DEF ClaimPayment, Delivered
  <2>3. JobSent([step |-> "read", of |-> [e |-> e, p |-> p, count |-> c]])
    BY <2>2 DEF JobSent
  <2>4. \A g \in Handlers : JobSent(work[g])'
    BY <2>1, <2>2, <2>3, GoSent
  <2>5. \A d \in Events : inbox'[d].status # "NONE" => <<d, inbox'[d].payload>> \in sent'
    BY <2>1, <2>2 DEF SentOK, TypeOK
  <2> QED
    BY <2>4, <2>5 DEF SentOK
<1> QED
  BY <1>1, <1>2, <1>3

LEMMA AdvanceSent ==
  ASSUME TypeOK, SentOK, NEW h \in Handlers, Advance(h)
  PROVE  SentOK'
<1> DEFINE e == work[h].of.e
           p == work[h].of.p
<1>1. CASE ReadAttempt(h)
  <2>1. JobSent([step |-> "observe", of |-> work[h].of, cancel |-> attempt.cancel])
    BY <1>1 DEF ReadAttempt, JobSent, SentOK
  <2> QED
    BY <1>1, <2>1, GoSent DEF ReadAttempt, SentOK
<1>2. CASE Observe(h)
  <2>1. Running(h) /\ UNCHANGED <<inbox, sent>>
    BY <1>2 DEF Observe, Running
  <2>2. \A s \in {"finalize", "reopen"} : JobSent([step |-> s, of |-> work[h].of])
    BY <2>1 DEF JobSent, SentOK, Running
  <2>3. \A g \in Handlers : JobSent(work[g])'
    BY <1>2, <2>1, <2>2, FinishSent, GoSent DEF Observe
  <2> QED
    BY <2>1, <2>3 DEF SentOK
<1>3. CASE Reopen(h)
  <2>1. Running(h) /\ UNCHANGED <<inbox, sent>>
    BY <1>3 DEF Reopen, Running
  <2>2. \A g \in Handlers : JobSent(work[g])'
    BY <1>3, <2>1, FinishSent DEF Reopen
  <2> QED
    BY <2>1, <2>2 DEF SentOK
<1>4. CASE FinalizeOrder(h) \/ FinalizeReview(h) \/ FinalizeFault(h)
  <2>1. Running(h) /\ UNCHANGED <<inbox, sent>>
    BY <1>4 DEF FinalizeOrder, FinalizeReview, FinalizeFault, Finalizing, Running
  <2>2. \A g \in Handlers : JobSent(work[g])'
    BY <1>4, <2>1, FinishSent DEF FinalizeOrder, FinalizeReview, FinalizeFault
  <2> QED
    BY <2>1, <2>2 DEF SentOK
<1>5. CASE Complete(h)
  <2>1. Running(h) /\ UNCHANGED sent
    BY <1>5 DEF Complete, Running
  <2>2. <<e, p>> \in sent
    BY <2>1 DEF SentOK, JobSent, Running
  <2>3. \A g \in Handlers : JobSent(work[g])'
    BY <1>5, <2>1, <2>2, ReplySent DEF Complete
  <2>4. \A d \in Events : inbox'[d].status # "NONE" => <<d, inbox'[d].payload>> \in sent'
    BY <1>5 DEF Complete, Current, SentOK, TypeOK, Row
  <2> QED
    BY <2>3, <2>4 DEF SentOK
<1>6. CASE Answer(h)
  <2>1. JobSent(Idle)
    BY DEF JobSent, Idle
  <2> QED
    BY <1>6, <2>1, GoSent DEF Answer, SentOK
<1> QED
  BY <1>1, <1>2, <1>3, <1>4, <1>5, <1>6 DEF Advance

LEMMA SentStep ==
  ASSUME TypeOK, SentOK, [Next]_vars
  PROVE  SentOK'
<1>1. ASSUME NEW e \in Events, NEW p \in Payload, Emit(e, p)
      PROVE  SentOK'
  BY <1>1 DEF Emit, SentOK, JobSent
<1>2. ASSUME NEW e \in Events, NEW p \in Payload, Deliver(e, p)
      PROVE  SentOK'
  BY <1>2, DeliverSent
<1>4. ASSUME NEW h \in Handlers, Advance(h)
      PROVE  SentOK'
  BY <1>4, AdvanceSent
<1>5. ASSUME NEW h \in Handlers, Crash(h)
      PROVE  SentOK'
  <2>1. JobSent(Idle)
    BY DEF JobSent, Idle
  <2> QED
    BY <1>5, <2>1, GoSent DEF Crash, SentOK
<1>6. CASE RequestCancellation \/ TaskObserves \/ TaskFinalizes
  BY <1>6 DEF RequestCancellation, TaskObserves, TaskFinalizes, SentOK, JobSent
<1>7. CASE UNCHANGED vars
  BY <1>7 DEF vars, SentOK, JobSent
<1> QED
  BY <1>1, <1>2, <1>4, <1>5, <1>6, <1>7 DEF Next

-----------------------------------------------------------------------------
(* What a step may do to a row *)

\* A key two different payloads came under is a reused one.
LEMMA TwoPayloads ==
  ASSUME NEW S \in SUBSET Payload, NEW p \in S, NEW q \in S, p # q
  PROVE  Cardinality(S) > 1
<1>1. IsFiniteSet({p}) /\ Cardinality({p}) = 1
  BY FS_Singleton
<1>2. IsFiniteSet({p} \cup {q}) /\ Cardinality({p} \cup {q}) = 2
  <2>1. Cardinality({p} \cup {q}) =
          IF q \in {p} THEN Cardinality({p}) ELSE Cardinality({p}) + 1
    BY <1>1, FS_AddElement, Zenon
  <2>2. IsFiniteSet({p} \cup {q})
    BY <1>1, FS_AddElement, Zenon
  <2> QED
    BY <1>1, <2>1, <2>2
<1>3. Cardinality({p} \cup {q}) <= Cardinality(S) /\ Cardinality(S) \in Nat
  <2>1. IsFiniteSet(Payload)
    <3>1. IsFiniteSet({"EXACT"})
      BY FS_Singleton
    <3>2. IsFiniteSet({"EXACT"} \cup {"PARTIAL"})
      BY <3>1, FS_AddElement, Zenon
    <3>3. IsFiniteSet({"EXACT"} \cup {"PARTIAL"} \cup {"OTHER"})
      BY <3>2, FS_AddElement, Zenon
    <3>4. Payload = {"EXACT"} \cup {"PARTIAL"} \cup {"OTHER"}
      BY DEF Payload
    <3> QED
      BY <3>3, <3>4
  <2>2. IsFiniteSet(S)
    BY <2>1, FS_Subset
  <2>3. {p} \cup {q} \in SUBSET S
    OBVIOUS
  <2> QED
    BY <2>2, <2>3, FS_Subset, FS_CardinalityType
<1> QED
  BY <1>2, <1>3

LEMMA ReusedBy ==
  ASSUME NEW e \in Events, NEW p \in Payload, NEW q \in Payload, p # q,
         <<e, p>> \in sent, <<e, q>> \in sent
  PROVE  Reused(e)
<1> DEFINE S == {r \in Payload : <<e, r>> \in sent}
<1>1. S \in SUBSET Payload /\ p \in S /\ q \in S
  OBVIOUS
<1>2. Cardinality(S) > 1
  <2> HIDE DEF S
  <2> QED
    BY <1>1, TwoPayloads
<1> QED
  BY <1>2 DEF Reused

LEMMA ReusedByThen ==
  ASSUME NEW e \in Events, NEW p \in Payload, NEW q \in Payload, p # q,
         <<e, p>> \in sent', <<e, q>> \in sent'
  PROVE  Reused(e)'
<1> DEFINE S == {r \in Payload : <<e, r>> \in sent'}
<1>1. S \in SUBSET Payload /\ p \in S /\ q \in S
  OBVIOUS
<1>2. Cardinality(S) > 1
  <2> HIDE DEF S
  <2> QED
    BY <1>1, TwoPayloads
<1> QED
  BY <1>2 DEF Reused

\* A row that exists keeps its payload, and a step leaves it alone, takes its
\* event, concludes it for the handler that owns it, ignores it, or calls a
\* reused key a mismatch.
RowStep(e) ==
  /\ inbox[e].status # "NONE" =>
       inbox'[e].status # "NONE" /\ inbox'[e].payload = inbox[e].payload
  /\ \/ inbox'[e] = inbox[e]
     \/ \E h \in Handlers, p \in Payload : ClaimPayment(h, e, p)
     \/ inbox'[e].status = "IGNORED"
     \/ \E h \in Handlers :
          /\ work[h].step = "complete" /\ work[h].of.e = e /\ Current(h)
          /\ inbox'[e].status = work[h].to
     \/ Reused(e) /\ inbox'[e].status = "MISMATCH"

LEMMA DeliverRows ==
  ASSUME TypeOK, SentOK, NEW d \in Events, NEW p \in Payload, Deliver(d, p),
         NEW e \in Events
  PROVE  RowStep(e)
<1> PICK h \in Handlers :
      \/ ClaimConflict(h, d, p)
      \/ p = "OTHER" /\ ClaimIgnored(h, d)
      \/ ClaimPayment(h, d, p)
  BY DEF Deliver
<1>1. CASE ClaimConflict(h, d, p)
  <2>1. CASE e = d
    <3>1. inbox[e].payload \in Payload /\ inbox[e].payload # p
      BY <1>1, <2>1 DEF ClaimConflict, Same, TypeOK, Row
    <3>2. <<e, p>> \in sent /\ <<e, inbox[e].payload>> \in sent
      BY <1>1, <2>1 DEF ClaimConflict, Same, Delivered, SentOK
    <3>3. Reused(e)
      BY <3>1, <3>2, ReusedBy
    <3>4. inbox'[e].status = "MISMATCH" /\ inbox'[e].payload = inbox[e].payload
      BY <1>1, <2>1 DEF ClaimConflict, TypeOK, Row
    <3> QED
      BY <3>3, <3>4 DEF RowStep
  <2>2. CASE e # d
    BY <1>1, <2>2 DEF ClaimConflict, TypeOK, RowStep
  <2> QED
    BY <2>1, <2>2
<1>2. CASE p = "OTHER" /\ ClaimIgnored(h, d)
  <2>1. CASE e = d
    <3>1. inbox'[e].status = "IGNORED" /\ inbox'[e].payload = "OTHER"
      BY <1>2, <2>1 DEF ClaimIgnored, TypeOK, Row
    <3> QED
      BY <1>2, <2>1, <3>1 DEF ClaimIgnored, Same, RowStep
  <2>2. CASE e # d
    BY <1>2, <2>2 DEF ClaimIgnored, TypeOK, RowStep
  <2> QED
    BY <2>1, <2>2
<1>3. CASE ClaimPayment(h, d, p)
  <2>1. PICK c : inbox' = [inbox EXCEPT ![d] =
                   [status |-> "PROCESSING", payload |-> p, count |-> c]]
    BY <1>3 DEF ClaimPayment
  <2>2. CASE e = d
    <3>1. inbox'[e].status = "PROCESSING" /\ inbox'[e].payload = p
      BY <2>1, <2>2 DEF TypeOK
    <3> QED
      BY <1>3, <2>2, <3>1 DEF ClaimPayment, Same, RowStep
  <2>3. CASE e # d
    BY <2>1, <2>3 DEF TypeOK, RowStep
  <2> QED
    BY <2>2, <2>3
<1> QED
  BY <1>1, <1>2, <1>3

LEMMA RowsStep ==
  ASSUME TypeOK, SentOK, [Next]_vars, NEW e \in Events
  PROVE  RowStep(e)
<1>1. ASSUME NEW d \in Events, NEW p \in Payload, Deliver(d, p)
      PROVE  RowStep(e)
  BY <1>1, DeliverRows
<1>2. ASSUME NEW h \in Handlers, Complete(h)
      PROVE  RowStep(e)
  <2>1. CASE Current(h) /\ work[h].of.e = e
    <3>1. inbox' = [inbox EXCEPT ![e].status = work[h].to]
      BY <1>2, <2>1 DEF Complete
    <3>2. inbox'[e].status = work[h].to /\ inbox'[e].payload = inbox[e].payload
      BY <3>1 DEF TypeOK, Row
    <3>3. work[h].to # "NONE"
      BY <1>2, JobKinds DEF Complete, TypeOK, Final
    <3> QED
      BY <1>2, <2>1, <3>2, <3>3 DEF Complete, RowStep
  <2>2. CASE ~(Current(h) /\ work[h].of.e = e)
    BY <1>2, <2>2 DEF Complete, TypeOK, RowStep
  <2> QED
    BY <2>1, <2>2
<1>4. CASE UNCHANGED inbox
  BY <1>4 DEF RowStep
<1>5. ASSUME NEW h \in Handlers, Advance(h), ~Complete(h)
      PROVE  UNCHANGED inbox
  BY <1>5 DEF Advance, ReadAttempt, Observe, Reopen, FinalizeOrder, FinalizeReview,
              FinalizeFault, Answer
<1> QED
  BY <1>1, <1>2, <1>4, <1>5
  DEF Next, Emit, Crash, RequestCancellation, TaskObserves, TaskFinalizes, vars

-----------------------------------------------------------------------------
(* What was concluded is settled *)

\* An exact payment that was seen is a payment, a partial one is settled.
SeenOK ==
  \A e \in Events :
    /\ <<e, "EXACT">> \in attempt.seen => attempt.pay = "PAID"
    /\ <<e, "PARTIAL">> \in attempt.seen => Settled

\* A webhook with a row, which is settled if the row is about this payload.
Known(e, p) ==
  /\ inbox[e].status # "NONE"
  /\ p # "OTHER" /\ inbox[e].payload = p => Settled

\* A handler works on a payment whose row exists, concludes what is settled, and
\* with success about the exact amount only what has its order.
JobSettled(j) ==
  /\ j.step \notin {"idle", "answer"} =>
       /\ j.of.p # "OTHER"
       /\ inbox[j.of.e].status # "NONE" /\ inbox[j.of.e].payload = j.of.p
  /\ j.step = "complete" /\ j.to # "FAILED" => Settled
  /\ j.step = "complete" /\ j.to = "PROCESSED" /\ j.of.p = "EXACT" => attempt.ordered
  /\ j.step = "answer" /\ j.ok => Known(j.e, j.p)

\* ConcludedTruly, of one row.
RowSettled(e) ==
  /\ inbox[e].status = "PROCESSED" =>
       IF inbox[e].payload = "EXACT" THEN attempt.ordered ELSE Settled
  /\ inbox[e].status = "MISMATCH" /\ inbox[e].payload # "OTHER" =>
       Settled \/ Reused(e)

AckedKnown == \A w \in acked : Known(w[1], w[2])

\* Of what changes the attempt, nothing takes back an order or a review.
AttemptKept ==
  /\ attempt.ordered => attempt'.ordered
  /\ Settled => Settled'
  /\ SeenOK => SeenOK'

LEMMA ObserveKeeps ==
  ASSUME TypeOK, NEW h \in Handlers, Observe(h)
  PROVE  AttemptKept
<1> DEFINE e == work[h].of.e
           p == work[h].of.p
<1>1. p \in Payload
  BY AtWork DEF Observe, Running
<1>2. attempt' = Observed(e, p)
  BY DEF Observe
<1> HIDE DEF e, p
<1>3. CASE <<e, p>> \in attempt.seen
  BY <1>2, <1>3 DEF Observed, AttemptKept, Settled, SeenOK
<1>4. CASE <<e, p>> \notin attempt.seen
  <2>1. /\ attempt'.ordered = attempt.ordered
        /\ attempt'.review = (attempt.review \/ (p = "PARTIAL" /\ ~attempt.ordered))
        /\ attempt'.seen = attempt.seen \cup {<<e, p>>}
        /\ attempt'.pay = IF p = "EXACT" \/ attempt.pay = "PAID" THEN "PAID" ELSE "MISMATCH"
    BY <1>2, <1>4 DEF Observed, TypeOK, Attempt
  <2> QED
    BY <1>1, <2>1 DEF AttemptKept, Settled, SeenOK, Payload
<1> QED
  BY <1>3, <1>4

LEMMA AttemptStep ==
  ASSUME TypeOK, [Next]_vars
  PROVE  AttemptKept
<1>1. CASE UNCHANGED attempt
  BY <1>1 DEF AttemptKept, Settled, SeenOK
<1>2. ASSUME NEW e \in Events, NEW p \in Payload, Deliver(e, p)
      PROVE  UNCHANGED attempt
  BY <1>2 DEF Deliver, ClaimConflict, ClaimIgnored, ClaimPayment
<1>3. ASSUME NEW h \in Handlers, Observe(h)
      PROVE  AttemptKept
  BY <1>3, ObserveKeeps
<1>4. ASSUME NEW h \in Handlers, FinalizeOrder(h) \/ FinalizeReview(h) \/ Reopen(h)
      PROVE  AttemptKept
  BY <1>4 DEF FinalizeOrder, FinalizeReview, Reopen, AttemptKept, Settled, SeenOK,
              TypeOK, Attempt
<1>5. ASSUME NEW h \in Handlers,
             ReadAttempt(h) \/ FinalizeFault(h) \/ Complete(h) \/ Answer(h)
      PROVE  UNCHANGED attempt
  BY <1>5 DEF ReadAttempt, FinalizeFault, Complete, Answer
<1>6. CASE RequestCancellation \/ TaskObserves \/ TaskFinalizes
  BY <1>6 DEF RequestCancellation, TaskObserves, TaskFinalizes, AttemptKept, Settled,
              SeenOK, TypeOK, Attempt
<1> QED
  BY <1>1, <1>2, <1>3, <1>4, <1>5, <1>6 DEF Next, Advance, Emit, Crash, vars

\* A job taken up in a step, with what the step makes of attempt and rows.
KnownThen(e, p) ==
  /\ inbox'[e].status # "NONE"
  /\ p # "OTHER" /\ inbox'[e].payload = p => Settled'
CarriedThen(of) ==
  of.p # "OTHER" /\ inbox'[of.e].status # "NONE" /\ inbox'[of.e].payload = of.p
JobFits(j) ==
  /\ j.step \notin {"idle", "answer"} => CarriedThen(j.of)
  /\ j.step = "complete" /\ j.to # "FAILED" => Settled'
  /\ j.step = "complete" /\ j.to = "PROCESSED" /\ j.of.p = "EXACT" => attempt'.ordered
  /\ j.step = "answer" /\ j.ok => KnownThen(j.e, j.p)

\* A webhook with a row keeps it, and stays settled.
LEMMA KnownStep ==
  ASSUME TypeOK, SentOK, [Next]_vars, NEW e \in Events, NEW p, Known(e, p)
  PROVE  KnownThen(e, p)
<1>1. RowStep(e)
  BY RowsStep
<1>2. Settled => Settled'
  BY AttemptStep DEF AttemptKept
<1> QED
  BY <1>1, <1>2 DEF RowStep, Known, KnownThen

\* What a running handler carries stays the payload of its row.
LEMMA CarriedStep ==
  ASSUME TypeOK, SentOK, [Next]_vars, NEW h \in Handlers, Running(h), JobSettled(work[h])
  PROVE  CarriedThen(work[h].of)
<1>1. work[h].of.e \in Events
  BY AtWork
<1>2. RowStep(work[h].of.e)
  BY <1>1, RowsStep
<1> QED
  BY <1>2 DEF RowStep, JobSettled, CarriedThen, Running

LEMMA JobsKept ==
  ASSUME TypeOK, SentOK, [Next]_vars, NEW g \in Handlers, JobSettled(work[g]),
         UNCHANGED work[g]
  PROVE  JobSettled(work[g])'
<1>1. (Settled => Settled') /\ (attempt.ordered => attempt'.ordered)
  BY AttemptStep DEF AttemptKept
<1>2. work[g].step = "answer" /\ work[g].ok => KnownThen(work[g].e, work[g].p)
  <2>1. work[g].step = "answer" => work[g].e \in Events
    BY JobKinds DEF TypeOK
  <2> QED
    BY <2>1, KnownStep DEF JobSettled
<1>3. Running(g) => CarriedThen(work[g].of)
  BY CarriedStep
<1> QED
  BY <1>1, <1>2, <1>3 DEF JobSettled, KnownThen, Known, CarriedThen, Running

LEMMA GoFits ==
  ASSUME TypeOK, NEW h \in Handlers, NEW j, Go(h, j), JobFits(j)
  PROVE  /\ JobSettled(work[h])'
         /\ \A g \in Handlers : g # h => work'[g] = work[g]
BY DEF Go, TypeOK, JobFits, JobSettled, Known, KnownThen, CarriedThen

LEMMA ReplyFits ==
  ASSUME TypeOK, NEW h \in Handlers, NEW e, NEW p, NEW ok, Reply(h, e, p, ok),
         ok => KnownThen(e, p)
  PROVE  /\ JobSettled(work[h])'
         /\ \A g \in Handlers : g # h => work'[g] = work[g]
<1>1. JobFits([step |-> "answer", e |-> e, p |-> p, ok |-> ok])
  BY DEF JobFits
<1> QED
  BY <1>1, GoFits DEF Reply

LEMMA FinishFits ==
  ASSUME TypeOK, SentOK, [Next]_vars, NEW h \in Handlers, Running(h),
         JobSettled(work[h]), NEW to, Finish(h, to),
         to # "FAILED" => Settled',
         to = "PROCESSED" /\ work[h].of.p = "EXACT" => attempt'.ordered
  PROVE  /\ JobSettled(work[h])'
         /\ \A g \in Handlers : g # h => work'[g] = work[g]
<1>1. CarriedThen(work[h].of)
  BY CarriedStep
<1>2. JobFits([step |-> "complete", of |-> work[h].of, to |-> to])
  BY <1>1 DEF JobFits
<1> QED
  BY <1>2, GoFits DEF Finish

\* A handler that goes on processing.
LEMMA OnFits ==
  ASSUME TypeOK, SentOK, [Next]_vars, NEW h \in Handlers, Running(h),
         JobSettled(work[h]), NEW j, Go(h, j), j.of = work[h].of,
         j.step \notin {"complete", "answer"}
  PROVE  /\ JobSettled(work[h])'
         /\ \A g \in Handlers : g # h => work'[g] = work[g]
<1>1. CarriedThen(work[h].of)
  BY CarriedStep
<1>2. JobFits(j)
  BY <1>1 DEF JobFits
<1> QED
  BY <1>2, GoFits

LEMMA IdleFits ==
  ASSUME TypeOK, NEW h \in Handlers, Go(h, Idle)
  PROVE  /\ JobSettled(work[h])'
         /\ \A g \in Handlers : g # h => work'[g] = work[g]
<1>1. JobFits(Idle)
  BY DEF JobFits, Idle
<1> QED
  BY <1>1, GoFits

LEMMA DeliverFits ==
  ASSUME TypeOK, SentOK, NEW e \in Events, NEW p \in Payload, Deliver(e, p)
  PROVE  \E h \in Handlers :
           /\ JobSettled(work[h])'
           /\ \A g \in Handlers : g # h => work'[g] = work[g]
<1> PICK h \in Handlers :
      \/ ClaimConflict(h, e, p)
      \/ p = "OTHER" /\ ClaimIgnored(h, e)
      \/ ClaimPayment(h, e, p)
  BY DEF Deliver
<1>1. CASE ClaimConflict(h, e, p)
  <2>1. inbox'[e].status = "MISMATCH" /\ inbox'[e].payload # p
    BY <1>1 DEF ClaimConflict, Same, TypeOK, Row
  <2> QED
    BY <1>1, <2>1, ReplyFits DEF ClaimConflict, KnownThen
<1>2. CASE p = "OTHER" /\ ClaimIgnored(h, e)
  <2>1. inbox'[e].status = "IGNORED"
    BY <1>2 DEF ClaimIgnored, TypeOK, Row
  <2>2. KnownThen(e, "OTHER")
    BY <2>1 DEF KnownThen
  <2> QED
    BY <1>2, <2>2, ReplyFits DEF ClaimIgnored
<1>3. CASE ClaimPayment(h, e, p)
  <2>1. PICK c : /\ inbox' = [inbox EXCEPT ![e] =
                      [status |-> "PROCESSING", payload |-> p, count |-> c]]
                 /\ Go(h, [step |-> "read", of |-> [e |-> e, p |-> p, count |-> c]])
    BY <1>3, Claims
  <2>2. inbox'[e].status = "PROCESSING" /\ inbox'[e].payload = p
    BY <2>1 DEF TypeOK
  <2>3. p # "OTHER"
    BY <1>3 DEF ClaimPayment
  <2>4. JobFits([step |-> "read", of |-> [e |-> e, p |-> p, count |-> c]])
    BY <2>2, <2>3 DEF JobFits, CarriedThen
  <2> QED
    BY <2>1, <2>4, GoFits
<1> QED
  BY <1>1, <1>2, <1>3

LEMMA AdvanceFits ==
  ASSUME TypeOK, SentOK, SeenOK, [Next]_vars, NEW h \in Handlers, Advance(h),
         JobSettled(work[h])
  PROVE  /\ JobSettled(work[h])'
         /\ \A g \in Handlers : g # h => work'[g] = work[g]
<1>1. CASE ReadAttempt(h)
  BY <1>1, OnFits DEF ReadAttempt, Running
<1>2. CASE Observe(h)
  <2> DEFINE e == work[h].of.e
             p == work[h].of.p
  <2>1. Running(h) /\ attempt' = Observed(e, p)
    BY <1>2 DEF Observe, Running
  <2>2. p \in {"EXACT", "PARTIAL"} /\ e \in Events
    BY <2>1, AtWork DEF JobSettled, Running, Payload
  <2>3. ASSUME Conflicting(e, p) \/ Observed(e, p).pay \in {"MISMATCH", "PENDING"}
        PROVE  Settled' /\ p # "EXACT"
    <3>1. CASE <<e, p>> \in attempt.seen
      <4>1. attempt' = attempt /\ attempt.pay # "PAID"
        BY <2>1, <2>3, <3>1 DEF Observed, Conflicting
      <4> QED
        BY <2>2, <3>1, <4>1 DEF SeenOK, Settled
    <3>2. CASE <<e, p>> \notin attempt.seen
      <4> HIDE DEF e, p
      <4>1. /\ attempt'.ordered = attempt.ordered
            /\ attempt'.review = (attempt.review \/ (p = "PARTIAL" /\ ~attempt.ordered))
            /\ p = "EXACT" => attempt'.pay = "PAID"
        BY <2>1, <3>2 DEF Observed, TypeOK, Attempt
      <4> QED
        BY <2>1, <2>2, <2>3, <4>1 DEF Settled, Conflicting
    <3> QED
      BY <3>1, <3>2
  <2>4. CASE Conflicting(e, p) \/ Observed(e, p).pay = "MISMATCH"
    <3>1. Finish(h, "MISMATCH")
      BY <1>2, <2>4 DEF Observe
    <3> QED
      BY <2>1, <2>3, <2>4, <3>1, FinishFits
  <2>5. CASE ~(Conflicting(e, p) \/ Observed(e, p).pay = "MISMATCH")
    <3>1. CASE Observed(e, p).pay = "PENDING"
      <4>1. Finish(h, "PROCESSED")
        BY <1>2, <2>5, <3>1 DEF Observe
      <4> QED
        BY <2>1, <2>3, <3>1, <4>1, FinishFits
    <3>2. CASE Observed(e, p).pay # "PENDING"
      <4>1. Go(h, [step |-> IF work[h].cancel THEN "reopen" ELSE "finalize",
                   of |-> work[h].of])
        BY <1>2, <2>5, <3>2 DEF Observe
      <4> QED
        BY <2>1, <4>1, OnFits
    <3> QED
      BY <3>1, <3>2
  <2> QED
    BY <2>4, <2>5
<1>3. CASE Reopen(h)
  <2> Running(h)
    BY <1>3 DEF Reopen, Running
  <2>1. CASE attempt.ordered
    BY <1>3, <2>1, FinishFits DEF Reopen, Settled
  <2>2. CASE ~attempt.ordered /\ work[h].of.e \in recovery
    BY <1>3, <2>2, FinishFits DEF Reopen
  <2>3. CASE ~attempt.ordered /\ work[h].of.e \notin recovery
    <3>1. Settled'
      BY <1>3, <2>3 DEF Reopen, Settled, TypeOK, Attempt
    <3> QED
      BY <1>3, <2>3, <3>1, FinishFits DEF Reopen
  <2> QED
    BY <2>1, <2>2, <2>3
<1>4. CASE FinalizeOrder(h)
  <2>1. attempt'.ordered /\ Running(h)
    BY <1>4 DEF FinalizeOrder, Finalizing, Running, TypeOK, Attempt
  <2> QED
    BY <1>4, <2>1, FinishFits DEF FinalizeOrder, Settled
<1>5. CASE FinalizeReview(h)
  <2>1. Settled' /\ Running(h)
    BY <1>5 DEF FinalizeReview, Finalizing, Running, Settled, TypeOK, Attempt
  <2> QED
    BY <1>5, <2>1, FinishFits DEF FinalizeReview
<1>6. CASE FinalizeFault(h)
  <2>1. Running(h)
    BY <1>6 DEF FinalizeFault, Finalizing, Running
  <2> QED
    BY <1>6, <2>1, FinishFits DEF FinalizeFault
<1>7. CASE Complete(h)
  <2> DEFINE e == work[h].of.e
             p == work[h].of.p
  <2>1. Running(h) /\ UNCHANGED attempt
    BY <1>7 DEF Complete, Running
  <2>2. CarriedThen(work[h].of)
    BY <2>1, CarriedStep
  <2>3. Acknowledges(h) => KnownThen(e, p)
    BY <1>7, <2>1, <2>2
    DEF Complete, Acknowledges, KnownThen, CarriedThen, JobSettled, Settled
  <2>4. Reply(h, e, p, Acknowledges(h))
    BY <1>7 DEF Complete
  <2> QED
    BY <2>3, <2>4, ReplyFits
<1>8. CASE Answer(h)
  BY <1>8, IdleFits DEF Answer
<1> QED
  BY <1>1, <1>2, <1>3, <1>4, <1>5, <1>6, <1>7, <1>8 DEF Advance

\* Whoever acts, every other job stays as it is.
LEMMA JobsStep ==
  ASSUME TypeOK, SentOK, SeenOK, \A h \in Handlers : JobSettled(work[h]), [Next]_vars
  PROVE  \A h \in Handlers : JobSettled(work[h])'
<1>1. ASSUME NEW h \in Handlers, JobSettled(work[h])',
             \A g \in Handlers : g # h => work'[g] = work[g]
      PROVE  \A g \in Handlers : JobSettled(work[g])'
  <2> TAKE g \in Handlers
  <2>1. CASE g = h
    BY <1>1, <2>1
  <2>2. CASE g # h
    BY <1>1, <2>2, JobsKept
  <2> QED
    BY <2>1, <2>2
<1>2. ASSUME NEW e \in Events, NEW p \in Payload, Deliver(e, p)
      PROVE  \A g \in Handlers : JobSettled(work[g])'
  BY <1>1, <1>2, DeliverFits
<1>3. ASSUME NEW h \in Handlers, Advance(h)
      PROVE  \A g \in Handlers : JobSettled(work[g])'
  BY <1>1, <1>3, AdvanceFits
<1>4. ASSUME NEW h \in Handlers, Crash(h)
      PROVE  \A g \in Handlers : JobSettled(work[g])'
  BY <1>1, <1>4, IdleFits DEF Crash
<1>5. CASE UNCHANGED work
  BY <1>5, JobsKept
<1> QED
  BY <1>2, <1>3, <1>4, <1>5
  DEF Next, Emit, RequestCancellation, TaskObserves, TaskFinalizes, vars

LEMMA SentGrows ==
  ASSUME [Next]_vars
  PROVE  sent \subseteq sent'
<1>1. ASSUME NEW e \in Events, NEW p \in Payload, Deliver(e, p)
      PROVE  UNCHANGED sent
  BY <1>1 DEF Deliver, ClaimConflict, ClaimIgnored, ClaimPayment
<1>2. ASSUME NEW h \in Handlers, Advance(h)
      PROVE  UNCHANGED sent
  BY <1>2 DEF Advance, ReadAttempt, Observe, Reopen, FinalizeOrder, FinalizeReview,
              FinalizeFault, Complete, Answer
<1> QED
  BY <1>1, <1>2
  DEF Next, Emit, Crash, RequestCancellation, TaskObserves, TaskFinalizes, vars

LEMMA ReusedStays ==
  ASSUME NEW e \in Events, sent \subseteq sent', Reused(e)
  PROVE  Reused(e)'
<1> DEFINE S == {p \in Payload : <<e, p>> \in sent}
           T == {p \in Payload : <<e, p>> \in sent'}
<1>1. Cardinality(S) > 1
  BY DEF Reused
<1>2. S \in SUBSET Payload /\ S \subseteq T
  OBVIOUS
<1>3. \E p, q \in S : p # q
  <2> HIDE DEF S, T
  <2> SUFFICES ASSUME \A p, q \in S : p = q PROVE FALSE
    OBVIOUS
  <2>1. CASE S = {}
    BY <1>1, <2>1, FS_EmptySet
  <2>2. CASE S # {}
    <3>1. PICK p \in S : TRUE
      BY <2>2
    <3>2. S = {p}
      BY <3>1
    <3> QED
      BY <1>1, <3>2, FS_Singleton
  <2> QED
    BY <2>1, <2>2
<1> QED
  BY <1>2, <1>3, ReusedByThen

\* A handler concludes its row with what it carries.
LEMMA RowsSettledStep ==
  ASSUME TypeOK, SentOK, \A h \in Handlers : JobSettled(work[h]),
         NEW e \in Events, RowSettled(e), [Next]_vars
  PROVE  RowSettled(e)'
<1>1. (Settled => Settled') /\ (attempt.ordered => attempt'.ordered)
  BY AttemptStep DEF AttemptKept
<1>2. Reused(e) => Reused(e)'
  BY SentGrows, ReusedStays
<1>3. RowStep(e)
  BY RowsStep
<1>4. CASE inbox'[e] = inbox[e]
  BY <1>1, <1>2, <1>4 DEF RowSettled
<1>5. ASSUME NEW h \in Handlers, NEW p \in Payload, ClaimPayment(h, e, p)
      PROVE  RowSettled(e)'
  <2>1. PICK c : inbox' = [inbox EXCEPT ![e] =
                   [status |-> "PROCESSING", payload |-> p, count |-> c]]
    BY <1>5 DEF ClaimPayment
  <2>2. inbox'[e].status = "PROCESSING"
    BY <2>1 DEF TypeOK
  <2> QED
    BY <2>2 DEF RowSettled
<1>6. CASE inbox'[e].status = "IGNORED"
  BY <1>6 DEF RowSettled
<1>7. ASSUME NEW h \in Handlers, work[h].step = "complete", work[h].of.e = e,
             Current(h), inbox'[e].status = work[h].to
      PROVE  RowSettled(e)'
  <2>1. JobSettled(work[h]) /\ Running(h)
    BY <1>7 DEF Running
  <2>2. inbox'[e].payload = work[h].of.p
    BY <1>7, <2>1, CarriedStep DEF CarriedThen
  <2> QED
    BY <1>1, <1>7, <2>1, <2>2 DEF RowSettled, JobSettled
<1>8. CASE Reused(e) /\ inbox'[e].status = "MISMATCH"
  BY <1>2, <1>8 DEF RowSettled
<1> QED
  BY <1>3, <1>4, <1>5, <1>6, <1>7, <1>8 DEF RowStep

LEMMA AckedStep ==
  ASSUME TypeOK, SentOK, \A h \in Handlers : JobSettled(work[h]),
         AckedKnown, [Next]_vars
  PROVE  AckedKnown'
<1>1. ASSUME NEW w \in acked
      PROVE  KnownThen(w[1], w[2])
  <2>1. w[1] \in Events
    BY <1>1 DEF TypeOK
  <2> QED
    BY <1>1, <2>1, KnownStep DEF AckedKnown
<1>2. CASE UNCHANGED acked
  BY <1>1, <1>2 DEF AckedKnown, Known, KnownThen
<1>3. ASSUME NEW h \in Handlers, Answer(h)
      PROVE  AckedKnown'
  <2>1. CASE work[h].ok
    <3>1. acked' = acked \cup {<<work[h].e, work[h].p>>} /\ UNCHANGED <<inbox, attempt>>
      BY <1>3, <2>1 DEF Answer
    <3>2. Known(work[h].e, work[h].p)
      BY <1>3, <2>1 DEF Answer, JobSettled
    <3>3. KnownThen(work[h].e, work[h].p)
      BY <3>1, <3>2 DEF Known, KnownThen, Settled
    <3> QED
      BY <1>1, <3>1, <3>3 DEF AckedKnown, Known, KnownThen
  <2>2. CASE ~work[h].ok
    BY <1>2, <1>3, <2>2 DEF Answer
  <2> QED
    BY <2>1, <2>2
<1>4. ASSUME NEW e \in Events, NEW p \in Payload, Deliver(e, p)
      PROVE  UNCHANGED acked
  BY <1>4 DEF Deliver, ClaimConflict, ClaimIgnored, ClaimPayment
<1>5. ASSUME NEW h \in Handlers, Advance(h), ~Answer(h)
      PROVE  UNCHANGED acked
  BY <1>5 DEF Advance, ReadAttempt, Observe, Reopen, FinalizeOrder, FinalizeReview,
              FinalizeFault, Complete
<1> QED
  BY <1>2, <1>3, <1>4, <1>5
  DEF Next, Emit, Crash, RequestCancellation, TaskObserves, TaskFinalizes, vars

-----------------------------------------------------------------------------
(* One owner *)

Owner(e) ==
  inbox[e].status = "PROCESSING" =>
    \A g, h \in Carrying(e) :
      work[g].of.count = inbox[e].count /\ work[h].of.count = inbox[e].count => g = h

\* A handler that does not claim an event carries none it did not carry.
JobStep(h) ==
  Running(h)' => Running(h) /\ work'[h].of = work[h].of

LEMMA AdvanceJobs ==
  ASSUME TypeOK, NEW h \in Handlers, Advance(h) \/ Crash(h), NEW g \in Handlers
  PROVE  JobStep(g)
<1>1. \A j : Go(h, j) => work' = [work EXCEPT ![h] = j]
  BY DEF Go
<1>2. ASSUME NEW j, Go(h, j), Running(h), j.of = work[h].of
      PROVE  JobStep(g)
  BY <1>2 DEF Go, JobStep, Running, TypeOK
<1>3. ASSUME NEW j, Go(h, j), j.step \in {"idle", "answer"}
      PROVE  JobStep(g)
  BY <1>3 DEF Go, JobStep, Running, TypeOK
<1>4. ASSUME NEW to, Finish(h, to), Running(h)
      PROVE  JobStep(g)
  BY <1>2, <1>4 DEF Finish
<1>5. CASE ReadAttempt(h)
  BY <1>2, <1>5 DEF ReadAttempt, Running
<1>6. CASE Observe(h)
  BY <1>2, <1>4, <1>6 DEF Observe, Running
<1>7. CASE Reopen(h)
  BY <1>4, <1>7 DEF Reopen, Running
<1>8. CASE FinalizeOrder(h) \/ FinalizeReview(h) \/ FinalizeFault(h)
  BY <1>4, <1>8 DEF FinalizeOrder, FinalizeReview, FinalizeFault, Finalizing, Running
<1>9. CASE Complete(h)
  BY <1>3, <1>9 DEF Complete, Reply
<1>10. CASE Answer(h) \/ Crash(h)
  BY <1>3, <1>10 DEF Answer, Crash, Idle
<1> QED
  BY <1>5, <1>6, <1>7, <1>8, <1>9, <1>10 DEF Advance

LEMMA DeliverJobs ==
  ASSUME TypeOK, NEW d \in Events, NEW p \in Payload, Deliver(d, p)
  PROVE  \/ \A g \in Handlers : JobStep(g)
         \/ \E h \in Handlers : ClaimPayment(h, d, p)
<1> PICK h \in Handlers :
      \/ ClaimConflict(h, d, p)
      \/ p = "OTHER" /\ ClaimIgnored(h, d)
      \/ ClaimPayment(h, d, p)
  BY DEF Deliver
<1>1. ASSUME NEW e, NEW q, NEW ok, Reply(h, e, q, ok)
      PROVE  \A g \in Handlers : JobStep(g)
  BY <1>1 DEF Reply, Go, JobStep, Running, TypeOK
<1>2. CASE ClaimConflict(h, d, p) \/ ClaimIgnored(h, d)
  BY <1>1, <1>2 DEF ClaimConflict, ClaimIgnored
<1> QED
  BY <1>2

\* A new owner's generation is one that no other handler of the event carries.
LEMMA ClaimKeepsOwner ==
  ASSUME TypeOK, NEW e \in Events, Owner(e), NEW d \in Events, NEW p,
         NEW h \in Handlers, ClaimPayment(h, d, p)
  PROVE  Owner(e)'
<1>1. PICK c : /\ c = NextCount(d)
               /\ inbox' = [inbox EXCEPT ![d] =
                    [status |-> "PROCESSING", payload |-> p, count |-> c]]
               /\ Go(h, [step |-> "read", of |-> [e |-> d, p |-> p, count |-> c]])
  BY Claims
<1>2. /\ \A g \in Carrying(d) : c # work[g].of.count
      /\ work' = [work EXCEPT ![h] = [step |-> "read", of |-> [e |-> d, p |-> p, count |-> c]]]
      /\ inbox' = [inbox EXCEPT ![d] =
           [status |-> "PROCESSING", payload |-> p, count |-> c]]
  BY <1>1, FreshCount DEF Go
<1>3. \A g \in Handlers : g # h => work'[g] = work[g]
  BY <1>2 DEF TypeOK
<1>4. CASE e = d
  <2>1. inbox'[e].count = c
    BY <1>2, <1>4 DEF TypeOK
  <2>2. ASSUME NEW g \in Carrying(e)', work'[g].of.count = c
        PROVE  g = h
    <3> SUFFICES ASSUME g # h PROVE FALSE
      OBVIOUS
    <3>1. g \in Handlers /\ work'[g] = work[g]
      BY <1>3, <2>2 DEF Carrying
    <3>2. g \in Carrying(d)
      BY <1>4, <2>2, <3>1 DEF Carrying, Running
    <3> QED
      BY <1>2, <2>2, <3>1, <3>2
  <2> QED
    BY <2>1, <2>2 DEF Owner
<1>5. CASE e # d
  <2>1. inbox'[e] = inbox[e]
    BY <1>2, <1>5 DEF TypeOK
  <2>2. ASSUME NEW g \in Carrying(e)'
        PROVE  g \in Carrying(e) /\ work'[g] = work[g]
    <3>1. g \in Handlers
      BY <2>2 DEF Carrying
    <3>2. g # h
      BY <1>2, <1>5, <2>2 DEF Carrying, TypeOK
    <3>3. work'[g] = work[g]
      BY <1>3, <3>1, <3>2
    <3> QED
      BY <2>2, <3>1, <3>3 DEF Carrying, Running
  <2> QED
    BY <2>1, <2>2 DEF Owner
<1> QED
  BY <1>4, <1>5

\* Without a new owner, an event in process keeps its generation and gains no
\* handler.
LEMMA OwnerKept ==
  ASSUME TypeOK, NEW e \in Events, Owner(e), \A g \in Handlers : JobStep(g),
         inbox'[e].status = "PROCESSING" =>
           inbox[e].status = "PROCESSING" /\ inbox'[e].count = inbox[e].count
  PROVE  Owner(e)'
<1>1. ASSUME NEW g \in Carrying(e)'
      PROVE  g \in Carrying(e) /\ work'[g].of = work[g].of
  BY <1>1 DEF Carrying, JobStep
<1> QED
  BY <1>1 DEF Owner

LEMMA OwnerStep ==
  ASSUME TypeOK, SentOK, NEW e \in Events, Owner(e), [Next]_vars
  PROVE  Owner(e)'
<1>1. CASE \E h \in Handlers, d \in Events, p \in Payload : ClaimPayment(h, d, p)
  BY <1>1, ClaimKeepsOwner
<1>2. CASE ~\E h \in Handlers, d \in Events, p \in Payload : ClaimPayment(h, d, p)
  <2>1. \A g \in Handlers : JobStep(g)
    <3>1. ASSUME NEW d \in Events, NEW p \in Payload, Deliver(d, p)
          PROVE  \A g \in Handlers : JobStep(g)
      BY <1>2, <3>1, DeliverJobs
    <3>2. ASSUME NEW h \in Handlers, Advance(h) \/ Crash(h)
          PROVE  \A g \in Handlers : JobStep(g)
      BY <3>2, AdvanceJobs
    <3>3. CASE UNCHANGED work
      BY <3>3 DEF JobStep, Running
    <3> QED
      BY <3>1, <3>2, <3>3
      DEF Next, Emit, RequestCancellation, TaskObserves, TaskFinalizes, vars
  <2>2. RowStep(e)
    BY RowsStep
  <2>3. ASSUME NEW h \in Handlers, work[h].step = "complete",
               inbox'[e].status = work[h].to
        PROVE  inbox'[e].status # "PROCESSING"
    BY <2>3, JobKinds DEF TypeOK, Final
  <2> QED
    BY <1>2, <2>1, <2>2, <2>3, OwnerKept DEF RowStep
<1> QED
  BY <1>1, <1>2

-----------------------------------------------------------------------------
(* The inductive invariant and the theorems *)

InboxInv ==
  /\ TypeOK
  /\ SentOK
  /\ SeenOK
  /\ \A h \in Handlers : JobSettled(work[h])
  /\ \A e \in Events : RowSettled(e) /\ Owner(e)
  /\ AckedKnown

LEMMA InvInit == Init => InboxInv
<1> SUFFICES ASSUME Init PROVE InboxInv
  OBVIOUS
<1>1. SentOK
  BY DEF Init, SentOK, JobSent, Idle, NoRow
<1>2. SeenOK
  BY DEF Init, SeenOK, NewAttempt
<1>3. \A h \in Handlers : JobSettled(work[h])
  BY DEF Init, JobSettled, Idle
<1>4. \A e \in Events : RowSettled(e) /\ Owner(e)
  BY DEF Init, RowSettled, Owner, NoRow
<1>5. AckedKnown
  BY DEF Init, AckedKnown
<1> QED
  BY <1>1, <1>2, <1>3, <1>4, <1>5, TypeInit DEF InboxInv

LEMMA InvStep == InboxInv /\ [Next]_vars => InboxInv'
<1> SUFFICES ASSUME InboxInv, [Next]_vars PROVE InboxInv'
  OBVIOUS
<1> USE DEF InboxInv
<1>1. TypeOK'
  BY TypeStep DEF SentOK, JobSent
<1>2. SentOK'
  BY SentStep
<1>3. SeenOK'
  BY AttemptStep DEF AttemptKept
<1>4. \A h \in Handlers : JobSettled(work[h])'
  BY JobsStep
<1>5. \A e \in Events : RowSettled(e)'
  BY RowsSettledStep
<1>6. \A e \in Events : Owner(e)'
  BY OwnerStep
<1>7. AckedKnown'
  BY AckedStep
<1> QED
  BY <1>1, <1>2, <1>3, <1>4, <1>5, <1>6, <1>7

\* Rows, jobs and webhooks keep their types, and nothing is acknowledged that PayOS
\* did not send (payment-reconciliation.service.ts handlePayOSWebhook).
THEOREM InboxTypes == Spec => []TypeOK
<1>1. InboxInv => TypeOK
  BY DEF InboxInv
<1> QED
  BY <1>1, InvInit, InvStep, PTL DEF Spec

\* A payment PayOS got its 200 for has left an order or a case for an operator
\* (AcknowledgedSettled; the answers of handleVerifiedPayOSWebhook).
THEOREM AcknowledgedIsSettled == Spec => []AcknowledgedSettled
<1>1. InboxInv => AcknowledgedSettled
  BY DEF InboxInv, AckedKnown, Known, AcknowledgedSettled
<1> QED
  BY <1>1, InvInit, InvStep, PTL DEF Spec

\* One handler at most can still conclude an event, however many overlap or are
\* overtaken (OneOwner; completeTerminal's fence).
THEOREM OwnedOnce == Spec => []OneOwner
<1>1. InboxInv => OneOwner
  <2> SUFFICES ASSUME InboxInv, NEW e \in Events, inbox[e].status = "PROCESSING"
               PROVE  Cardinality({h \in Carrying(e) : work[h].of.count = inbox[e].count}) <= 1
    BY DEF OneOwner
  <2> DEFINE S == {h \in Carrying(e) : work[h].of.count = inbox[e].count}
  <2>1. \A g, h \in S : g = h
    <3>1. Owner(e)
      BY DEF InboxInv
    <3> QED
      BY <3>1, Zenon DEF Owner
  <2> HIDE DEF S
  <2>2. CASE S = {}
    <3>1. Cardinality(S) = 0
      BY <2>2, FS_EmptySet
    <3> QED
      BY <3>1 DEF S
  <2>3. CASE S # {}
    <3>1. PICK h \in S : TRUE
      BY <2>3
    <3>2. S = {h}
      BY <2>1, <3>1
    <3>3. Cardinality(S) = 1
      BY <3>2, FS_Singleton
    <3> QED
      BY <3>3 DEF S
  <2> QED
    BY <2>2, <2>3
<1> QED
  BY <1>1, InvInit, InvStep, PTL DEF Spec

\* What a row records of a payment is true of the attempt, through every repeat,
\* takeover and lookup (ConcludedTruly).
THEOREM RecordedTruly == Spec => []ConcludedTruly
<1>1. InboxInv => ConcludedTruly
  BY DEF InboxInv, RowSettled, ConcludedTruly
<1> QED
  BY <1>1, InvInit, InvStep, PTL DEF Spec

=============================================================================
