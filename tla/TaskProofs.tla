----------------------------- MODULE TaskProofs -----------------------------
(***************************************************************************)
(* Theorems about the two systems that run on the durable tasks: first     *)
(* PayOSTasks, for any number of flows, workers, webhooks, attempts and    *)
(* failures; then Emails and the task queue, for any number of messages,   *)
(* workers, attempts, crashes and slow workers.  A fact about e-mail uses  *)
(* no assumption of PayOSTasks, and the other way round.                   *)
(***************************************************************************)
EXTENDS PayOSTasks, Emails, TLAPS

-----------------------------------------------------------------------------
(* The inductive invariant *)

\* What a worker is about to do was true when it read it, and stays so: it reports
\* success because there is an order, it saw a closed link at PayOS, and it gives the
\* reservation back because of one or because the ten minutes are over.
Backed(j) ==
  /\ j.step = "finish" /\ j.verdict = "matched" => attempt.order
  /\ j.step = "observe" /\ j.ev.status = "CANCELLED" => link.status = "CANCELLED"
  /\ j.step = "free" => waited \/ link.status = "CANCELLED"

JobsOK ==
  /\ work \in [Workers -> Job]
  /\ \A w \in Workers : Backed(work[w])

RowsOK ==
  /\ task \in [Keys -> Task] /\ trouble \in 0..MaxTrouble
  /\ payload \in [Keys -> Payload] /\ lease \in [Workers -> Payload]
  /\ FlowsSettle

Ordered == attempt.ord = "CREATED" => attempt.order
WorldOK ==
  /\ attempt \in Attempt /\ Ordered
  /\ hold \in {"PENDING", "RELEASED", "CONSUMED"}
  /\ link \in [status : LinkStatus, money : Money]
  /\ hook \in [Hooks -> HookStep]
  /\ expired \in BOOLEAN /\ waited \in BOOLEAN /\ over \subseteq Keys

FlowInv == WorldOK /\ RowsOK /\ JobsOK

\* What no step undoes.
Stays ==
  /\ attempt.order => attempt'.order
  /\ link.status = "CANCELLED" => link'.status = "CANCELLED"
  /\ waited => waited'

-----------------------------------------------------------------------------
(* Jobs *)

\* The step of a job names its kind.
LEMMA JobKinds ==
  ASSUME NEW j \in Job
  PROVE  /\ j = Idle <=> j.step = "idle"
         /\ j.step # "idle" => j.k \in Keys /\ j.attempt \in 1..MaxAttempts
         /\ j.step = "observe" => j.ev \in Evidence /\ j.intent \in BOOLEAN
         /\ j.step = "free" => j.review \in BOOLEAN
         /\ j.step = "finish" => j.verdict \in Verdict /\ j.next \in Payload
BY DEF Job, Idle

LEMMA PayloadOps ==
  ASSUME NEW p \in Payload
  PROVE  /\ p.op \in {"RECONCILE", "CANCEL", "CANCEL_LINK"} /\ p.op \in Via
         /\ p.sent \in BOOLEAN /\ p.verify \in BOOLEAN
BY DEF Payload, Via

LEMMA BasicPayloads == Reconcile \in Payload /\ Cancel \in Payload /\ Recover \in Payload
BY DEF Reconcile, Cancel, Recover, Payload, Via

\* The jobs a worker goes on to are backed by the state after the step.
Moves(w) == \E j \in Job : Go(w, j) /\ Backed(j)'

LEMMA MoveTo ==
  ASSUME FlowInv, NEW w \in Workers, work[w].step # "idle",
         NEW s \in {"call", "finalize", "review"}, GoTo(w, s)
  PROVE  Moves(w)
<1>0. PICK j : j = [step |-> s, k |-> work[w].k, attempt |-> work[w].attempt]
  OBVIOUS
<1>1. j \in Job
  BY <1>0, JobKinds DEF FlowInv, JobsOK, Job
<1>2. Backed(j)'
  BY <1>0 DEF Backed
<1> QED
  BY <1>0, <1>1, <1>2 DEF Moves, GoTo

LEMMA MoveObserving ==
  ASSUME FlowInv, NEW w \in Workers, work[w].step # "idle", NEW ev \in Evidence,
         ev.status = "CANCELLED" => link'.status = "CANCELLED", Observing(w, ev)
  PROVE  Moves(w)
<1>0. PICK j : j = [step |-> "observe", k |-> work[w].k, attempt |-> work[w].attempt,
               ev |-> ev, intent |-> attempt.cancel]
  OBVIOUS
<1>1. attempt.cancel \in BOOLEAN
  BY DEF FlowInv, WorldOK, Attempt
<1>2. j \in Job
  BY <1>0, <1>1, JobKinds DEF FlowInv, JobsOK, Job
<1>3. Backed(j)'
  BY <1>0 DEF Backed
<1> QED
  BY <1>0, <1>2, <1>3 DEF Moves, Observing

LEMMA MoveFreeing ==
  ASSUME FlowInv, NEW w \in Workers, work[w].step # "idle", NEW review \in BOOLEAN,
         waited' \/ link'.status = "CANCELLED", Freeing(w, review)
  PROVE  Moves(w)
<1>0. PICK j : j = [step |-> "free", k |-> work[w].k, attempt |-> work[w].attempt,
               review |-> review]
  OBVIOUS
<1>1. j \in Job
  BY <1>0, JobKinds DEF FlowInv, JobsOK, Job
<1>2. Backed(j)'
  BY <1>0 DEF Backed
<1> QED
  BY <1>0, <1>1, <1>2 DEF Moves, Freeing

LEMMA MoveDone ==
  ASSUME FlowInv, NEW w \in Workers, work[w].step # "idle", NEW verdict \in Verdict,
         NEW next \in Payload, verdict = "matched" => attempt'.order, Done(w, verdict, next)
  PROVE  Moves(w)
<1>0. PICK j : j = [step |-> "finish", k |-> work[w].k, attempt |-> work[w].attempt,
               verdict |-> verdict, next |-> next]
  OBVIOUS
<1>1. j \in Job
  BY <1>0, JobKinds DEF FlowInv, JobsOK, Job
<1>2. Backed(j)'
  BY <1>0 DEF Backed
<1> QED
  BY <1>0, <1>1, <1>2 DEF Moves, Done

LEMMA MoveEnds ==
  ASSUME FlowInv, NEW w \in Workers, work[w].step # "idle",
         NEW verdict \in Verdict, verdict = "matched" => attempt'.order, Ends(w, verdict)
  PROVE  Moves(w)
<1>1. lease[w] \in Payload
  BY DEF FlowInv, RowsOK
<1> QED
  BY <1>1, MoveDone DEF Ends

\* A flow that goes on does not report success.
LEMMA MovePending ==
  ASSUME FlowInv, NEW w \in Workers, work[w].step # "idle",
         NEW sent \in BOOLEAN, NEW verify \in BOOLEAN, Pending(w, sent, verify)
  PROVE  Moves(w)
<1> DEFINE next == [op |-> IF Op(w) = "RECONCILE" THEN "RECONCILE" ELSE "CANCEL",
                    sent |-> sent, verify |-> verify \/ lease[w].verify,
                    later |-> work[w].k \in Hooks]
<1>1. next \in Payload
  BY DEF Payload, Via
<1>2. "pending" \in Verdict /\ "pending" # "matched"
  BY DEF Verdict
<1>3. Done(w, "pending", next)
  BY DEF Pending
<1> HIDE DEF next
<1> QED
  BY <1>1, <1>2, <1>3, MoveDone

LEMMA MoveOn ==
  ASSUME FlowInv, NEW w \in Workers, work[w].step # "idle",
         KeepsGoing(w) \/ Verifies(w) \/ CancelsNext(w)
  PROVE  Moves(w)
<1>1. lease[w] \in Payload /\ lease[w].sent \in BOOLEAN
  BY PayloadOps DEF FlowInv, RowsOK
<1>2. CASE KeepsGoing(w) \/ Verifies(w)
  BY <1>1, <1>2, MovePending DEF KeepsGoing, Verifies
<1>3. CASE CancelsNext(w)
  <2> DEFINE next == [op |-> "CANCEL_LINK", sent |-> FALSE, verify |-> FALSE,
                      later |-> work[w].k \in Hooks]
  <2>1. next \in Payload
    BY DEF Payload, Via
  <2>2. "pending" \in Verdict /\ "pending" # "matched"
    BY DEF Verdict
  <2>3. Done(w, "pending", next)
    BY <1>3 DEF CancelsNext
  <2> HIDE DEF next
  <2> QED
    BY <2>1, <2>2, <2>3, MoveDone
<1> QED
  BY <1>2, <1>3

-----------------------------------------------------------------------------
(* The attempt, its reservation and its link *)

\* An observation neither makes an order nor says that there is one.
LEMMA RecordKeeps ==
  ASSUME NEW a \in Attempt, NEW via \in Via, NEW ev \in Evidence
  PROVE  /\ Record(a, via, ev) \in Attempt
         /\ Record(a, via, ev).order = a.order
         /\ Record(a, via, ev).ord = "CREATED" => a.ord = "CREATED"
<1>1. CASE Replayed(a, via, ev)
  BY <1>1 DEF Record
<1>2. CASE ~Replayed(a, via, ev)
  <2>1. NextPay(a, ev) \in {"UNKNOWN", "PENDING", "PAID", "CANCELLED", "MISMATCH"}
    BY DEF NextPay, Evidence, LinkStatus
  <2>2. ev.money \in Money /\ <<via, ev>> \in Via \X Evidence
    BY DEF Evidence
  <2> DEFINE c == Conflicting(a, ev)
             o == IF c /\ a.ord # "CREATED" THEN "REVIEW_REQUIRED" ELSE a.ord
             x == a.cancel \/ (ev.status = "CANCELLED" /\ ~c)
             m == IF ev.status = "PAID" /\ a.received # "all" THEN ev.money ELSE a.received
             s == a.seen \cup {<<via, ev>>}
  <2>3. /\ o \in {"NOT_CREATED", "CREATED", "REVIEW_REQUIRED"}
        /\ o = "CREATED" => a.ord = "CREATED"
    BY DEF Attempt
  <2>4. x \in BOOLEAN
    BY DEF Attempt
  <2>5. m \in Money
    BY <2>2 DEF Attempt
  <2>6. s \in SUBSET (Via \X Evidence)
    <3>1. a.seen \in SUBSET (Via \X Evidence)
      BY DEF Attempt
    <3> QED
      BY <2>2, <3>1
  <2>7. Record(a, via, ev) =
          [a EXCEPT !.pay = NextPay(a, ev), !.ord = o, !.cancel = x, !.received = m, !.seen = s]
    BY <1>2 DEF Record
  <2> HIDE DEF c, o, x, m, s
  <2> QED
    BY <2>1, <2>3, <2>4, <2>5, <2>6, <2>7 DEF Attempt
<1> QED
  BY <1>1, <1>2

\* What a step may do to the attempt.
AttemptGoes ==
  /\ attempt' \in Attempt /\ Ordered'
  /\ attempt.order => attempt'.order

LEMMA RecordGoes ==
  ASSUME WorldOK, NEW via \in Via, NEW ev \in Evidence, attempt' = Record(attempt, via, ev)
  PROVE  AttemptGoes
BY RecordKeeps DEF WorldOK, AttemptGoes, Ordered

LEMMA ReviewGoes ==
  ASSUME WorldOK, attempt' = attempt \/ attempt' = Reviewed(attempt)
  PROVE  AttemptGoes
BY DEF WorldOK, AttemptGoes, Ordered, Reviewed, Attempt

LEMMA FinalizeGoes ==
  ASSUME WorldOK, NEW exact \in BOOLEAN, Finalize(exact)
  PROVE  AttemptGoes /\ hold' \in {"PENDING", "RELEASED", "CONSUMED"}
<1>1. CASE CreateOrder(exact)
  BY <1>1 DEF CreateOrder, WorldOK, AttemptGoes, Ordered, Attempt
<1>2. CASE ReturnOrder(exact)
  BY <1>2 DEF ReturnOrder, HasOrder, WorldOK, AttemptGoes, Ordered
<1>3. CASE Withhold(exact)
  BY <1>3 DEF Withhold, WorldOK, AttemptGoes, Ordered, Attempt
<1> QED
  BY <1>1, <1>2, <1>3 DEF Finalize

LEMMA OrderIsThere ==
  ASSUME WorldOK, NEW exact \in BOOLEAN, CreateOrder(exact) \/ ReturnOrder(exact)
  PROVE  attempt'.order
BY DEF CreateOrder, ReturnOrder, HasOrder, WorldOK, Attempt

LEMMA FreeGoes ==
  ASSUME WorldOK, NEW review \in BOOLEAN, Free(review)
  PROVE  AttemptGoes /\ hold' \in {"PENDING", "RELEASED", "CONSUMED"}
<1>1. attempt' = attempt \/ attempt' = Reviewed(attempt)
  BY DEF Free
<1> QED
  BY <1>1, ReviewGoes DEF Free, WorldOK

\* What a step leaves true of the attempt, its hold, its link, webhooks and clock.
WorldGoes == WorldOK' /\ Stays

LEMMA AttemptWorld ==
  ASSUME WorldOK, AttemptGoes, hold' \in {"PENDING", "RELEASED", "CONSUMED"},
         hook' \in [Hooks -> HookStep], UNCHANGED <<link, clock>>
  PROVE  WorldGoes
BY DEF WorldGoes, WorldOK, Stays, AttemptGoes, clock

LEMMA SameAttempt ==
  ASSUME WorldOK, UNCHANGED attempt
  PROVE  AttemptGoes
BY DEF WorldOK, AttemptGoes, Ordered

LEMMA OutsideWorld ==
  ASSUME WorldOK, Outside \/ \E e \in Hooks : OneDayAfter(e)
  PROVE  WorldGoes
<1>1. CASE CreateLink
  BY <1>1 DEF CreateLink, WorldGoes, WorldOK, Stays, Ordered, LinkStatus, clock
<1>2. CASE LinkExpires
  BY <1>2 DEF LinkExpires, WorldGoes, WorldOK, Stays, Ordered, LinkStatus, clock
<1>3. CASE Expire \/ TenMinutes
  BY <1>3 DEF Expire, TenMinutes, WorldGoes, WorldOK, Stays, Ordered
<1>4. CASE OneDay
  BY <1>4, FlowAssumption DEF OneDay, WorldGoes, WorldOK, Stays, Ordered
<1>5. CASE \E e \in Hooks : OneDayAfter(e)
  BY <1>5, FlowAssumption DEF OneDayAfter, WorldGoes, WorldOK, Stays, Ordered
<1>6. ASSUME NEW to \in Money, Transfer(to)
      PROVE  WorldGoes
  <2>1. link' \in [status : LinkStatus, money : Money]
    BY <1>6 DEF Transfer, WorldOK, LinkStatus
  <2>2. link.status = "CANCELLED" => link'.status = "CANCELLED"
    BY <1>6 DEF Transfer, WorldOK
  <2>3. hook' \in [Hooks -> HookStep]
    <3>1. CASE UNCHANGED hook
      BY <3>1 DEF WorldOK
    <3>2. ASSUME NEW e \in Hooks, hook' = [hook EXCEPT ![e] =
               [@ EXCEPT !.step = "sent", !.exact = to = "all" /\ link.money = "none"]]
          PROVE  hook' \in [Hooks -> HookStep]
      <4>1. (to = "all" /\ link.money = "none") \in BOOLEAN /\ hook[e] \in HookStep
        BY DEF WorldOK
      <4> QED
        BY <3>2, <4>1 DEF WorldOK, HookStep
    <3> QED
      BY <1>6, <3>1, <3>2 DEF Transfer
  <2> QED
    BY <1>6, <2>1, <2>2, <2>3 DEF Transfer, WorldGoes, WorldOK, Stays, Ordered, clock
<1> QED
  BY <1>1, <1>2, <1>3, <1>4, <1>5, <1>6 DEF Outside

\* A webhook that goes on to another step keeps its type.
LEMMA HookGoes ==
  ASSUME WorldOK, NEW e \in Hooks,
         NEW step \in {"quiet", "sent", "read", "finalize", "reopen", "done"}, Hook(e, step)
  PROVE  hook' \in [Hooks -> HookStep]
BY DEF Hook, WorldOK, HookStep

LEMMA HookWorld ==
  ASSUME WorldOK, NEW e \in Hooks,
         ReadHook(e) \/ Hear(e) \/ FinalizeHeard(e) \/ HearAgain(e) \/ Reopen(e)
  PROVE  WorldGoes
<1>1. CASE ReadHook(e)
  <2>1. attempt.cancel \in BOOLEAN
    BY DEF WorldOK, Attempt
  <2>2. hook' \in [Hooks -> HookStep]
    BY <1>1, <2>1 DEF ReadHook, WorldOK, HookStep
  <2> QED
    BY <1>1, <2>2 DEF ReadHook, WorldGoes, WorldOK, Stays, Ordered, clock
<1>2. CASE Hear(e)
  <2> DEFINE ev == [status |-> "PAID", money |-> IF hook[e].exact THEN "all" ELSE "part"]
  <2>1. ev \in Evidence /\ "WEBHOOK" \in Via
    BY DEF Evidence, LinkStatus, Money, Via
  <2>2. attempt' = Record(attempt, "WEBHOOK", ev)
    BY <1>2 DEF Hear
  <2>3. AttemptGoes
    <3> HIDE DEF ev
    <3> QED
      BY <2>1, <2>2, RecordGoes
  <2>4. Hook(e, "done") \/ Hook(e, "reopen") \/ Hook(e, "finalize")
    BY <1>2 DEF Hear
  <2>5. hook' \in [Hooks -> HookStep]
    BY <2>4, HookGoes
  <2> QED
    BY <1>2, <2>3, <2>5, AttemptWorld DEF Hear, WorldOK
<1>3. CASE FinalizeHeard(e)
  <2>1. hook[e].exact \in BOOLEAN
    BY DEF WorldOK, HookStep
  <2>2. AttemptGoes /\ hold' \in {"PENDING", "RELEASED", "CONSUMED"}
    BY <1>3, <2>1, FinalizeGoes DEF FinalizeHeard
  <2>3. hook' \in [Hooks -> HookStep]
    BY <1>3, HookGoes DEF FinalizeHeard
  <2> QED
    BY <1>3, <2>2, <2>3, AttemptWorld DEF FinalizeHeard
<1>4. CASE HearAgain(e)
  <2>1. hook' \in [Hooks -> HookStep]
    BY <1>4, HookGoes DEF HearAgain
  <2> QED
    BY <1>4, <2>1, SameAttempt, AttemptWorld DEF HearAgain, WorldOK
<1>5. CASE Reopen(e)
  <2>1. hook' \in [Hooks -> HookStep]
    BY <1>5, HookGoes DEF Reopen
  <2>2. AttemptGoes
    BY <1>5, ReviewGoes DEF Reopen, Review
  <2> QED
    BY <1>5, <2>1, <2>2, AttemptWorld DEF Reopen, WorldOK
<1> QED
  BY <1>1, <1>2, <1>3, <1>4, <1>5

\* A worker changes the attempt as the code it calls does.
LEMMA WorkerWorld ==
  ASSUME FlowInv, NEW w \in Workers, Advance(w)
  PROVE  WorldGoes
<1> USE DEF attemptSide
<1>1. WorldOK /\ work[w] \in Job /\ hook \in [Hooks -> HookStep]
      /\ hold \in {"PENDING", "RELEASED", "CONSUMED"}
  BY DEF FlowInv, JobsOK, WorldOK
<1>2. CASE Begin(w) \/ LookUp(w) \/ Conclude(w)
  BY <1>1, <1>2, SameAttempt, AttemptWorld DEF Begin, LookUp, Conclude
<1>3. CASE CancelCall(w)
  <2>1. link' \in [status : LinkStatus, money : Money]
    BY <1>1, <1>3 DEF CancelCall, WorldOK, LinkStatus
  <2>2. link.status = "CANCELLED" => link'.status = "CANCELLED"
    BY <1>1, <1>3 DEF CancelCall, WorldOK
  <2> QED
    BY <1>1, <1>3, <2>1, <2>2 DEF CancelCall, WorldGoes, WorldOK, Stays, Ordered, clock
<1>4. CASE Observe(w)
  <2>1. work[w].ev \in Evidence
    BY <1>1, <1>4, JobKinds DEF Observe, Step
  <2>2. Op(w) \in Via
    BY PayloadOps DEF FlowInv, RowsOK, Op
  <2>3. attempt' = Record(attempt, Op(w), work[w].ev)
    BY <1>4 DEF Observe
  <2>4. AttemptGoes
    BY <1>1, <2>1, <2>2, <2>3, RecordGoes
  <2> QED
    BY <1>1, <1>4, <2>4, AttemptWorld DEF Observe
<1>5. CASE FinalizeTask(w)
  <2>1. CASE Finalize(TRUE)
    BY <1>1, <1>5, <2>1, FinalizeGoes, AttemptWorld DEF FinalizeTask
  <2>2. CASE UNCHANGED <<attempt, hold>>
    BY <1>1, <1>5, <2>2, SameAttempt, AttemptWorld DEF FinalizeTask
  <2> QED
    BY <1>5, <2>1, <2>2 DEF FinalizeTask, Finalize
<1>6. CASE ReviewTask(w)
  BY <1>1, <1>6, ReviewGoes, AttemptWorld DEF ReviewTask, Review
<1>7. CASE FreeTask(w)
  <2>1. work[w].review \in BOOLEAN
    BY <1>1, <1>7, JobKinds DEF FreeTask, Step
  <2> QED
    BY <1>1, <1>7, <2>1, FreeGoes, AttemptWorld DEF FreeTask
<1> QED
  BY <1>2, <1>3, <1>4, <1>5, <1>6, <1>7 DEF Advance

\* What a step does to the attempt and around it, whoever takes it.
LEMMA WorldStep ==
  ASSUME FlowInv, [Next]_vars
  PROVE  WorldGoes
<1> USE DEF attemptSide
<1>1. WorldOK /\ hook \in [Hooks -> HookStep] /\ hold \in {"PENDING", "RELEASED", "CONSUMED"}
  BY DEF FlowInv, WorldOK
<1>2. CASE Outside \/ \E e \in Hooks : OneDayAfter(e)
  BY <1>1, <1>2, OutsideWorld
<1>3. ASSUME NEW e \in Hooks,
             ReadHook(e) \/ Hear(e) \/ FinalizeHeard(e) \/ HearAgain(e) \/ Reopen(e)
      PROVE  WorldGoes
  BY <1>1, <1>3, HookWorld
<1>4. ASSUME NEW w \in Workers, Advance(w)
      PROVE  WorldGoes
  BY <1>4, WorkerWorld
<1>5. ASSUME NEW k \in Keys, RequestCheck(k) \/ RequestCancel(k)
      PROVE  WorldGoes
  <2>1. AttemptGoes
    BY <1>1, <1>5 DEF RequestCheck, RequestCancel, AttemptGoes, WorldOK, Ordered, Attempt
  <2> QED
    BY <1>1, <1>5, <2>1, AttemptWorld DEF RequestCheck, RequestCancel
<1>6. CASE UNCHANGED attemptSide
  BY <1>1, <1>6, SameAttempt, AttemptWorld
<1>7. ASSUME NEW k \in Keys, Drop(k) \/ LeaseRunsOut(k)
      PROVE  UNCHANGED attemptSide
  BY <1>7 DEF Drop, LeaseRunsOut
<1>8. ASSUME NEW w \in Workers, WorkerDies(w) \/ \E k \in Keys : Take(w, k)
      PROVE  UNCHANGED attemptSide
  BY <1>8 DEF WorkerDies, Take
<1>9. CASE UNCHANGED vars
  BY <1>6, <1>9 DEF vars, clock
<1> QED
  BY <1>2, <1>3, <1>4, <1>5, <1>6, <1>7, <1>8, <1>9 DEF Next

-----------------------------------------------------------------------------
(* The rows of the tasks *)

LEMMA SameRows ==
  ASSUME FlowInv, Stays, trouble' \in 0..MaxTrouble, UNCHANGED <<task, payload, lease>>
  PROVE  RowsOK'
BY DEF FlowInv, RowsOK, FlowsSettle, Stays

LEMMA TroubleType ==
  ASSUME FlowInv, Trouble
  PROVE  trouble' \in 0..MaxTrouble
BY TaskAssumption DEF FlowInv, RowsOK, Trouble

\* A row that changes stays true to the attempt.
LEMMA RowGoes ==
  ASSUME FlowInv, Stays, trouble' \in 0..MaxTrouble, NEW k \in Keys, NEW t \in Task,
         task' = [task EXCEPT ![k] = t], t.state = "SUCCEEDED" => attempt'.order,
         NEW p \in Payload, payload' = [payload EXCEPT ![k] = p] \/ UNCHANGED payload,
         lease' \in [Workers -> Payload]
  PROVE  RowsOK'
BY DEF FlowInv, RowsOK, FlowsSettle, Stays

LEMMA NewTask ==
  /\ NoTask \in Task /\ NoTask.state # "SUCCEEDED"
  /\ [NoTask EXCEPT !.state = "READY"] \in Task
  /\ [NoTask EXCEPT !.state = "READY"].state # "SUCCEEDED"
<1>1. NoTask \in Task /\ NoTask.state # "SUCCEEDED"
  BY TaskAssumption DEF NoTask, Task, TaskState
<1>2. PICK t : t = [NoTask EXCEPT !.state = "READY"]
  OBVIOUS
<1>3. t = [state |-> "READY", attempt |-> 0, token |-> NoWorker, live |-> FALSE]
  BY <1>2 DEF NoTask
<1>4. t \in Task /\ t.state # "SUCCEEDED"
  BY <1>3, TaskAssumption DEF Task, TaskState
<1> QED
  BY <1>1, <1>2, <1>4

LEMMA NewRow ==
  ASSUME FlowInv, Stays, NEW k \in Keys, NEW p \in Payload, New(k, p), UNCHANGED <<trouble, lease>>
  PROVE  RowsOK'
<1> DEFINE t == [NoTask EXCEPT !.state = "READY"]
<1>1. t \in Task /\ t.state # "SUCCEEDED"
  BY NewTask
<1>2. task' = [task EXCEPT ![k] = t] /\ payload' = [payload EXCEPT ![k] = p]
  BY DEF New
<1>3. trouble' \in 0..MaxTrouble /\ lease' \in [Workers -> Payload]
  BY DEF FlowInv, RowsOK
<1> HIDE DEF t
<1> QED
  BY <1>1, <1>2, <1>3, RowGoes

\* Reports of success are the only ones that make a row SUCCEEDED.
LEMMA ConcludeRows ==
  ASSUME FlowInv, Stays, NEW w \in Workers, Conclude(w)
  PROVE  RowsOK'
<1> DEFINE j == work[w]
           state == StateOf(j.verdict, j.attempt)
           ended == Ended(task[j.k], state)
           t == IF j.verdict = "pending" THEN [ended EXCEPT !.attempt = 0] ELSE ended
<1>1. j.k \in Keys /\ j.attempt \in 1..MaxAttempts /\ j.verdict \in Verdict /\ j.next \in Payload
  <2>1. j \in Job /\ j.step = "finish"
    BY DEF FlowInv, JobsOK, Conclude, Step
  <2> HIDE DEF j
  <2> QED
    BY <2>1, JobKinds
<1>2. state \in TaskState /\ (state = "SUCCEEDED" => j.verdict = "matched")
  <2> HIDE DEF j
  <2> QED
    BY <1>1 DEF StateOf, Verdict, TaskState, Over
<1>3. ended \in Task /\ ended.state = state
  <2>1. task[j.k] \in Task
    BY <1>1 DEF FlowInv, RowsOK
  <2> HIDE DEF state
  <2> QED
    BY <1>2, <2>1 DEF Ended, Task
<1>4. t \in Task /\ t.state = state
  <2> HIDE DEF ended, state, j
  <2> QED
    BY <1>3, TaskAssumption DEF Task
<1>5. state = "SUCCEEDED" => attempt'.order
  BY <1>2 DEF FlowInv, JobsOK, Backed, Conclude, Step, Stays
<1>6. trouble' \in 0..MaxTrouble /\ lease' \in [Workers -> Payload]
  BY BasicPayloads DEF Conclude, Forget, FlowInv, RowsOK
<1>7. CASE Holds(w)
  <2>1. task' = [task EXCEPT ![j.k] = t] /\ payload' = [payload EXCEPT ![j.k] = j.next]
    BY <1>7 DEF Conclude
  <2> HIDE DEF t, state, j
  <2> QED
    BY <1>1, <1>4, <1>5, <1>6, <2>1, RowGoes
<1>8. CASE ~Holds(w)
  <2>1. UNCHANGED <<task, payload>>
    BY <1>8 DEF Conclude
  <2> QED
    BY <1>6, <2>1 DEF FlowInv, RowsOK, FlowsSettle, Stays
<1> QED
  BY <1>7, <1>8

LEMMA QueueRows ==
  ASSUME FlowInv, Stays, NEW k \in Keys,
         Drop(k) \/ LeaseRunsOut(k) \/ \E w \in Workers : Take(w, k)
  PROVE  RowsOK'
<1>1. task[k] \in Task /\ payload[k] \in Payload /\ lease \in [Workers -> Payload]
      /\ trouble \in 0..MaxTrouble /\ task \in [Keys -> Task]
  BY DEF FlowInv, RowsOK
<1>2. CASE Drop(k)
  <2>1. Ended(task[k], "REVIEW_REQUIRED") \in Task
    BY <1>1 DEF Ended, Task, TaskState, Over
  <2>2. task' = [task EXCEPT ![k] = Ended(task[k], "REVIEW_REQUIRED")]
    BY <1>2 DEF Drop, Exhaust
  <2> QED
    BY <1>1, <1>2, <2>1, <2>2, RowGoes DEF Drop, Exhaust, Ended
<1>3. CASE LeaseRunsOut(k)
  <2>1. [task[k] EXCEPT !.live = FALSE] \in Task /\ task[k].state = "RUNNING"
    BY <1>1, <1>3 DEF LeaseRunsOut, Lapse, Task
  <2>2. task' = [task EXCEPT ![k] = [task[k] EXCEPT !.live = FALSE]]
    BY <1>1, <1>3 DEF LeaseRunsOut, Lapse
  <2>3. trouble' \in 0..MaxTrouble
    BY <1>1, <1>3, TroubleType DEF LeaseRunsOut, Lapse
  <2>4. [task[k] EXCEPT !.live = FALSE].state = "RUNNING"
    BY <1>1, <2>1 DEF Task
  <2> QED
    BY <1>1, <1>3, <2>1, <2>2, <2>3, <2>4, RowGoes DEF LeaseRunsOut
<1>4. ASSUME NEW w \in Workers, Take(w, k)
      PROVE  RowsOK'
  <2> DEFINE t == [state |-> "RUNNING", attempt |-> task[k].attempt + 1, token |-> w, live |-> TRUE]
  <2>1. t \in Task /\ t.state = "RUNNING"
    BY <1>1, <1>4, TaskAssumption DEF Take, Claim, Task, TaskState
  <2>2. task' = [task EXCEPT ![k] = t]
    BY <1>4 DEF Take, Claim
  <2>3. lease' \in [Workers -> Payload] /\ trouble' = trouble /\ UNCHANGED payload
    BY <1>1, <1>4 DEF Take, Claim
  <2> HIDE DEF t
  <2> QED
    BY <1>1, <2>1, <2>2, <2>3, RowGoes
<1> QED
  BY <1>2, <1>3, <1>4

LEMMA RowsStep ==
  ASSUME FlowInv, Stays, [Next]_vars
  PROVE  RowsOK'
<1>1. trouble \in 0..MaxTrouble
  BY DEF FlowInv, RowsOK
<1>2. CASE UNCHANGED queueSide
  BY <1>1, <1>2, SameRows DEF queueSide
<1>3. CASE Outside \/ \E e \in Hooks : OneDayAfter(e)
  BY <1>2, <1>3 DEF Outside, CreateLink, LinkExpires, Expire, TenMinutes, OneDay, Transfer,
                    OneDayAfter
<1>4. ASSUME NEW k \in Keys, RequestCheck(k)
      PROVE  RowsOK'
  BY <1>4, BasicPayloads, NewRow DEF RequestCheck
<1>5. ASSUME NEW k \in Keys, RequestCancel(k)
      PROVE  RowsOK'
  <2>1. CASE New(k, Cancel)
    BY <1>5, <2>1, BasicPayloads, NewRow DEF RequestCancel
  <2>2. CASE UNCHANGED <<task, payload>>
    BY <1>1, <1>5, <2>2, SameRows DEF RequestCancel
  <2> QED
    BY <1>5, <2>1, <2>2 DEF RequestCancel
<1>6. ASSUME NEW k \in Keys, Drop(k) \/ LeaseRunsOut(k) \/ \E w \in Workers : Take(w, k)
      PROVE  RowsOK'
  BY <1>6, QueueRows
<1>7. ASSUME NEW e \in Hooks, ReadHook(e) \/ Hear(e) \/ FinalizeHeard(e)
      PROVE  RowsOK'
  BY <1>2, <1>7 DEF ReadHook, Hear, FinalizeHeard
<1>8. ASSUME NEW e \in Hooks, HearAgain(e)
      PROVE  RowsOK'
  BY <1>8, TroubleType, SameRows DEF HearAgain
<1>9. ASSUME NEW e \in Hooks, Reopen(e)
      PROVE  RowsOK'
  <2>1. CASE New(e, Recover)
    BY <1>9, <2>1, BasicPayloads, NewRow, FlowAssumption DEF Reopen
  <2>2. CASE UNCHANGED <<task, payload>>
    BY <1>1, <1>9, <2>2, SameRows DEF Reopen
  <2> QED
    BY <1>9, <2>1, <2>2 DEF Reopen
<1>10. ASSUME NEW w \in Workers, Advance(w)
       PROVE  RowsOK'
  <2>1. CASE Conclude(w)
    BY <2>1, ConcludeRows
  <2>2. CASE LookUp(w)
    <3>1. UNCHANGED <<task, payload, lease>> /\ (UNCHANGED trouble \/ Trouble)
      BY <2>2 DEF LookUp, Quiet
    <3> QED
      BY <1>1, <3>1, TroubleType, SameRows
  <2>3. CASE Begin(w) \/ CancelCall(w) \/ Observe(w) \/ FinalizeTask(w) \/ ReviewTask(w) \/ FreeTask(w)
    <3>1. UNCHANGED <<task, payload, lease, trouble>>
      BY <2>3 DEF Begin, CancelCall, Observe, FinalizeTask, ReviewTask, FreeTask, Quiet
    <3> QED
      BY <1>1, <3>1, SameRows
  <2> QED
    BY <1>10, <2>1, <2>2, <2>3 DEF Advance
<1>11. ASSUME NEW w \in Workers, WorkerDies(w)
       PROVE  RowsOK'
  <2>1. lease' \in [Workers -> Payload] /\ UNCHANGED <<task, payload>>
    BY <1>11, BasicPayloads DEF WorkerDies, Die, Forget, FlowInv, RowsOK
  <2>2. trouble' \in 0..MaxTrouble
    BY <1>11, TroubleType DEF WorkerDies, Die
  <2> QED
    BY <2>1, <2>2 DEF FlowInv, RowsOK, FlowsSettle, Stays
<1>12. CASE UNCHANGED vars
  BY <1>2, <1>12 DEF vars, queueSide
<1> QED
  BY <1>3, <1>4, <1>5, <1>6, <1>7, <1>8, <1>9, <1>10, <1>11, <1>12 DEF Next

-----------------------------------------------------------------------------
(* The jobs of the workers *)

LEMMA BackedStays ==
  ASSUME NEW j, Backed(j), Stays
  PROVE  Backed(j)'
BY DEF Backed, Stays

LEMMA SameJobs ==
  ASSUME FlowInv, Stays, UNCHANGED work
  PROVE  JobsOK'
BY BackedStays DEF FlowInv, JobsOK

LEMMA MovedJobs ==
  ASSUME FlowInv, Stays, NEW w \in Workers, Moves(w)
  PROVE  JobsOK'
<1>1. PICK j \in Job : Go(w, j) /\ Backed(j)'
  BY DEF Moves
<1>2. work \in [Workers -> Job] /\ work' = [work EXCEPT ![w] = j]
  BY <1>1 DEF FlowInv, JobsOK, Go
<1>3. work' \in [Workers -> Job] /\ work'[w] = j
  BY <1>2
<1>4. ASSUME NEW v \in Workers
      PROVE  Backed(work[v])'
  <2>1. PICK i : i = work'[v]
    OBVIOUS
  <2>2. CASE v = w
    BY <1>1, <1>3, <2>1, <2>2 DEF Backed
  <2>3. CASE v # w
    <3>1. i = work[v] /\ Backed(i)
      BY <1>2, <2>1, <2>3 DEF FlowInv, JobsOK
    <3>2. Backed(i)'
      BY <3>1, BackedStays
    <3> QED
      BY <2>1, <3>2 DEF Backed
  <2> QED
    BY <2>2, <2>3
<1> QED
  BY <1>3, <1>4 DEF JobsOK

LEMMA MoveIdle ==
  ASSUME FlowInv, NEW w \in Workers, Go(w, Idle)
  PROVE  Moves(w)
<1>1. PICK j : j = Idle
  OBVIOUS
<1>2. j \in Job /\ Backed(j)'
  BY <1>1 DEF Job, Backed, Idle
<1> QED
  BY <1>1, <1>2 DEF Moves

LEMMA MoveStart ==
  ASSUME FlowInv, NEW w \in Workers, NEW k \in Keys, Claim(w, k)
  PROVE  Moves(w)
<1>1. PICK j : j = [step |-> "start", k |-> k, attempt |-> task[k].attempt + 1]
  OBVIOUS
<1>2. task[k].attempt \in 0..MaxAttempts /\ task[k].attempt < MaxAttempts
  BY DEF FlowInv, RowsOK, Task, Claim
<1>3. j \in Job
  <2>1. task[k].attempt + 1 \in 1..MaxAttempts
    BY <1>2, TaskAssumption
  <2> QED
    BY <1>1, <2>1 DEF Job
<1>4. Backed(j)'
  BY <1>1 DEF Backed
<1> QED
  BY <1>1, <1>3, <1>4 DEF Moves, Claim

\* "mismatch" and "retryable" claim nothing; "matched" claims an order.
LEMMA MoveEnded ==
  ASSUME FlowInv, NEW w \in Workers, work[w].step # "idle",
         \/ Ends(w, "mismatch") \/ Ends(w, "retryable")
         \/ attempt'.order /\ Ends(w, "matched")
  PROVE  Moves(w)
<1>1. {"matched", "mismatch", "retryable"} \subseteq Verdict
  BY DEF Verdict
<1> QED
  BY <1>1, MoveEnds

LEMMA ObserveMoves ==
  ASSUME FlowInv, Stays, NEW w \in Workers, Observe(w)
  PROVE  Moves(w)
<1> DEFINE ev == work[w].ev
           b == Record(attempt, Op(w), ev)
           told == Told(attempt, Op(w), ev)
<1>1. work[w].step # "idle" /\ lease[w] \in Payload
  BY DEF Observe, Step, FlowInv, RowsOK
<1>2. ev.status = "CANCELLED" => link'.status = "CANCELLED"
  BY DEF Observe, Step, FlowInv, JobsOK, Backed, Stays
<1>3. Op(w) \in {"RECONCILE", "CANCEL", "CANCEL_LINK"}
  BY <1>1, PayloadOps DEF Op
<1>4. \/ AfterReconcile(w, ev, b, told) \/ AfterCancel(w, ev, b, told) \/ AfterCancelLink(w, b, told)
  BY <1>3 DEF Observe
<1>5. \/ \E s \in {"finalize", "review"} : GoTo(w, s)
      \/ waited /\ Freeing(w, TRUE)
      \/ ev.status = "CANCELLED" /\ Freeing(w, FALSE)
      \/ Ends(w, "mismatch")
      \/ KeepsGoing(w) \/ Verifies(w) \/ CancelsNext(w)
      \/ Pending(w, TRUE, TRUE)
  <2> HIDE DEF ev, b, told
  <2>1. CASE AfterReconcile(w, ev, b, told)
    BY <2>1, Zenon DEF AfterReconcile
  <2>2. CASE AfterCancel(w, ev, b, told)
    BY <2>2, Zenon DEF AfterCancel
  <2>3. CASE AfterCancelLink(w, b, told)
    BY <2>3, Zenon DEF AfterCancelLink
  <2> QED
    BY <1>4, <2>1, <2>2, <2>3
<1> HIDE DEF ev, b, told
<1> QED
  BY <1>1, <1>2, <1>5, MoveTo, MoveFreeing, MoveEnded, MoveOn, MovePending DEF Stays

LEMMA WorkerMoves ==
  ASSUME FlowInv, WorldGoes, NEW w \in Workers, Advance(w)
  PROVE  Moves(w)
<1>1. WorldOK /\ work[w] \in Job /\ lease[w] \in Payload /\ Stays
  BY DEF FlowInv, JobsOK, RowsOK, WorldGoes
<1>2. CASE Begin(w)
  <2>1. work[w].step # "idle"
    BY <1>2 DEF Begin, Step
  <2>2. CASE attempt.ord = "CREATED" /\ Ends(w, "matched")
    BY <1>1, <2>1, <2>2, MoveEnded DEF WorldOK, Ordered, Stays
  <2>3. CASE Ends(w, "mismatch") \/ GoTo(w, "call") \/ (waited /\ Freeing(w, TRUE))
    BY <1>1, <2>1, <2>3, MoveEnded, MoveTo, MoveFreeing DEF Stays
  <2> QED
    BY <1>2, <2>2, <2>3 DEF Begin
<1>3. CASE LookUp(w)
  <2>1. work[w].step # "idle"
    BY <1>3 DEF LookUp, Step
  <2>2. CASE Unanswered(w)
    <3>1. Ends(w, "retryable") \/ (waited /\ Freeing(w, TRUE)) \/ KeepsGoing(w)
      BY <2>2 DEF Unanswered
    <3> QED
      BY <1>1, <2>1, <3>1, MoveEnded, MoveFreeing, MoveOn DEF Stays
  <2>3. CASE link.status # "NONE" /\ Observing(w, [status |-> link.status, money |-> link.money])
    <3>1. PICK ev : ev = [status |-> link.status, money |-> link.money]
      OBVIOUS
    <3>2. ev \in Evidence /\ (ev.status = "CANCELLED" => link'.status = "CANCELLED")
      BY <1>1, <2>3, <3>1 DEF WorldOK, Evidence, Stays
    <3> QED
      BY <2>1, <2>3, <3>1, <3>2, MoveObserving
  <2> QED
    BY <1>3, <2>2, <2>3 DEF LookUp
<1>4. CASE CancelCall(w)
  <2>1. work[w].step # "idle"
    BY <1>4 DEF CancelCall, Step
  <2>2. CASE Pending(w, TRUE, TRUE)
    BY <2>1, <2>2, MovePending
  <2>3. CASE Observing(w, [status |-> "PAID", money |-> link.money])
    <3>1. PICK ev : ev = [status |-> "PAID", money |-> link.money]
      OBVIOUS
    <3>2. ev \in Evidence /\ ev.status # "CANCELLED"
      BY <1>1, <3>1 DEF WorldOK, Evidence, LinkStatus
    <3> QED
      BY <2>1, <2>3, <3>1, <3>2, MoveObserving
  <2> QED
    BY <1>4, <2>2, <2>3 DEF CancelCall
<1>5. CASE Observe(w)
  BY <1>1, <1>5, ObserveMoves
<1>6. CASE FinalizeTask(w)
  <2>1. work[w].step # "idle"
    BY <1>6 DEF FinalizeTask, Step
  <2>2. CASE (CreateOrder(TRUE) \/ ReturnOrder(TRUE)) /\ Ends(w, "matched")
    BY <1>1, <2>1, <2>2, OrderIsThere, MoveEnded
  <2>3. CASE Ends(w, "mismatch") \/ Ends(w, "retryable")
    BY <2>1, <2>3, MoveEnded
  <2> QED
    BY <1>6, <2>2, <2>3 DEF FinalizeTask
<1>7. CASE ReviewTask(w)
  <2>1. work[w].step # "idle" /\ (Verifies(w) \/ Pending(w, TRUE, TRUE))
    BY <1>7 DEF ReviewTask, Step
  <2> QED
    BY <2>1, MoveOn, MovePending
<1>8. CASE FreeTask(w)
  <2>1. work[w].step # "idle"
    BY <1>8 DEF FreeTask, Step
  <2>2. Op(w) \in {"RECONCILE", "CANCEL", "CANCEL_LINK"}
    BY <1>1, PayloadOps DEF Op
  <2>3. KeepsGoing(w) \/ Ends(w, "mismatch") \/ Verifies(w) \/ Pending(w, FALSE, TRUE)
    BY <1>8, <2>2 DEF FreeTask
  <2> QED
    BY <2>1, <2>3, MoveOn, MoveEnded, MovePending
<1>9. CASE Conclude(w)
  BY <1>9, MoveIdle DEF Conclude
<1> QED
  BY <1>2, <1>3, <1>4, <1>5, <1>6, <1>7, <1>8, <1>9 DEF Advance

LEMMA JobsStep ==
  ASSUME FlowInv, WorldGoes, [Next]_vars
  PROVE  JobsOK'
<1>1. Stays
  BY DEF WorldGoes
<1>2. ASSUME NEW w \in Workers, Advance(w) \/ WorkerDies(w) \/ \E k \in Keys : Take(w, k)
      PROVE  JobsOK'
  <2>1. Moves(w)
    BY <1>2, WorkerMoves, MoveIdle, MoveStart DEF WorkerDies, Die, Take
  <2> QED
    BY <1>1, <2>1, MovedJobs
<1>3. CASE UNCHANGED work
  BY <1>1, <1>3, SameJobs
<1>4. CASE Outside \/ \E e \in Hooks : OneDayAfter(e)
  BY <1>3, <1>4 DEF Outside, CreateLink, LinkExpires, Expire, TenMinutes, OneDay, Transfer,
                    OneDayAfter, queueSide
<1>5. ASSUME NEW k \in Keys, RequestCheck(k) \/ RequestCancel(k) \/ Drop(k) \/ LeaseRunsOut(k)
      PROVE  JobsOK'
  BY <1>3, <1>5 DEF RequestCheck, RequestCancel, Drop, Exhaust, LeaseRunsOut, Lapse
<1>6. ASSUME NEW e \in Hooks,
             ReadHook(e) \/ Hear(e) \/ FinalizeHeard(e) \/ HearAgain(e) \/ Reopen(e)
      PROVE  JobsOK'
  BY <1>3, <1>6 DEF ReadHook, Hear, FinalizeHeard, HearAgain, Reopen, queueSide
<1>7. CASE UNCHANGED vars
  BY <1>3, <1>7 DEF vars
<1> QED
  BY <1>2, <1>4, <1>5, <1>6, <1>7 DEF Next

-----------------------------------------------------------------------------
(* Theorems *)

LEMMA FlowInit == Init => FlowInv
<1> SUFFICES ASSUME Init PROVE FlowInv
  OBVIOUS
<1>2. RowsOK
  BY NewTask, BasicPayloads, TaskAssumption DEF Init, RowsOK, FlowsSettle
<1>3. WorldOK
  BY DEF Init, WorldOK, Ordered, Attempt, LinkStatus, Money, HookStep
<1>4. JobsOK
  BY DEF Init, JobsOK, Job, Backed, Idle
<1> QED
  BY <1>2, <1>3, <1>4 DEF FlowInv

LEMMA FlowStep == FlowInv /\ [Next]_vars => FlowInv'
BY WorldStep, RowsStep, JobsStep DEF WorldGoes, FlowInv

LEMMA FlowInvariant == Spec => []FlowInv
BY FlowInit, FlowStep, PTL DEF Spec

\* The rows of tasks, the jobs of workers, the attempt and its link keep their types,
\* whatever fails.
THEOREM FlowTypes == Spec => []TypeOK
<1>1. FlowInv => TypeOK
  BY DEF FlowInv, WorldOK, RowsOK, JobsOK, TypeOK
<1> QED
  BY <1>1, FlowInvariant, PTL

\* A flow of tasks ends without review only when there is an order.
THEOREM FlowsAlwaysSettle == Spec => []FlowsSettle
<1>1. FlowInv => FlowsSettle
  BY DEF FlowInv, RowsOK
<1> QED
  BY <1>1, FlowInvariant, PTL

\* Only a worker about to free the reservation does, and it saw the link closed or
\* the ten minutes over.
THEOREM AlwaysFreedKnowingly == Spec => FreedKnowingly
<1>1. ASSUME FlowInv, [Next]_vars, hold = "PENDING", hold' = "RELEASED"
      PROVE  waited \/ link.status = "CANCELLED"
  <2>1. hold' # hold
    BY <1>1
  <2>2. ASSUME NEW exact, Finalize(exact)
        PROVE  hold' # "RELEASED"
    BY <1>1, <2>2 DEF Finalize, CreateOrder, ReturnOrder, Withhold
  <2>3. ASSUME NEW w \in Workers, FreeTask(w)
        PROVE  waited \/ link.status = "CANCELLED"
    BY <1>1, <2>3 DEF FreeTask, Step, FlowInv, JobsOK, Backed
  <2>4. ASSUME NEW w \in Workers, Advance(w), ~FreeTask(w)
        PROVE  FALSE
    BY <2>1, <2>2, <2>4, <1>1 DEF Advance, Begin, LookUp, CancelCall, Observe, FinalizeTask, Finalize,
                          ReviewTask, Conclude, attemptSide
  <2>5. ASSUME NEW w \in Workers, WorkerDies(w) \/ \E k \in Keys : Take(w, k)
        PROVE  FALSE
    BY <2>1, <2>5 DEF WorkerDies, Take, attemptSide
  <2>6. ASSUME NEW k \in Keys, RequestCheck(k) \/ RequestCancel(k) \/ Drop(k) \/ LeaseRunsOut(k)
        PROVE  FALSE
    BY <2>1, <2>6 DEF RequestCheck, RequestCancel, Drop, LeaseRunsOut, attemptSide
  <2>7. ASSUME NEW e \in Hooks,
               \/ ReadHook(e) \/ Hear(e) \/ FinalizeHeard(e) \/ HearAgain(e) \/ Reopen(e)
               \/ OneDayAfter(e)
        PROVE  FALSE
    BY <1>1, <2>1, <2>2, <2>7 DEF ReadHook, Hear, FinalizeHeard, HearAgain, Reopen, OneDayAfter
  <2>8. ~Outside
    BY <2>1 DEF Outside, CreateLink, LinkExpires, Expire, TenMinutes, OneDay, Transfer
  <2>9. ~UNCHANGED vars
    BY <2>1 DEF vars
  <2> QED
    BY <1>1, <2>3, <2>4, <2>5, <2>6, <2>7, <2>8, <2>9 DEF Next
<1>2. FlowInv /\ [Next]_vars
        => [hold = "PENDING" /\ hold' = "RELEASED" => waited \/ link.status = "CANCELLED"]_vars
  BY <1>1
<1> QED
  BY <1>2, FlowInvariant, PTL DEF Spec, FreedKnowingly

-----------------------------------------------------------------------------
(* Jobs and types *)

\* A worker's step names the kind of its job.
LEMMA MailJobKinds ==
  ASSUME NEW j \in MailJob
  PROVE  /\ j # Idle <=> j.step # "idle"
         /\ j.step \in {"start", "call"} => j \in SendJob
         /\ j.step = "reply" => j \in ReplyJob
         /\ j.step = "finish" => j \in FinishJob
         /\ j # Idle => j.k \in Keys /\ j.attempt \in 1..MaxAttempts
BY DEF MailJob, Idle, SendJob, ReplyJob, FinishJob

\* Every message starts without a task, and every worker idle.
LEMMA MailTypeInit == MailInit => MailTypeOK
BY TaskAssumption
DEF MailInit, QueueInit, MailTypeOK, NoTask, Task, TaskState, Over, NoMail, Mail,
    MailState, Reported, Age, MailJob

\* Concluding a job leaves one to finish.
LEMMA ConcludeType ==
  ASSUME MailTypeOK, NEW w \in Workers, NEW result \in Result,
         work[w] # Idle, ConcludeMail(w, result)
  PROVE  work' \in [Workers -> MailJob]
<1>1. /\ work[w] \in MailJob
      /\ work[w].k \in Keys /\ work[w].attempt \in 1..MaxAttempts
  BY MailJobKinds DEF MailTypeOK
<1>2. [step |-> "finish", k |-> work[w].k, attempt |-> work[w].attempt,
       result |-> result] \in FinishJob
  BY <1>1 DEF FinishJob
<1> QED
  BY <1>2 DEF ConcludeMail, Go, MailTypeOK, MailJob

\* A mark keeps the row a row.
LEMMA MarkType ==
  ASSUME MailTypeOK, NEW w \in Workers, NEW state \in MailState, NEW id \in Nat,
         work[w] # Idle, Mark(w, state, id)
  PROVE  mail' \in [Keys -> Mail]
BY DEF Mark, MailTypeOK, Mail

\* Every step keeps the types; no task is given an attempt too many.
LEMMA MailTypeStep == MailTypeOK /\ [MailNext]_mailVars => MailTypeOK'
<1> SUFFICES ASSUME MailTypeOK, [MailNext]_mailVars PROVE MailTypeOK'
  OBVIOUS
<1> USE TaskAssumption
<1>1. ASSUME NEW k \in Keys, Enqueue(k)
      PROVE  MailTypeOK'
  BY <1>1 DEF Enqueue, Written, Enqueued, MailTypeOK, Task, TaskState, Mail, MailState
<1>2. ASSUME NEW k \in Keys, NEW new \in Keys, Resend(k, new)
      PROVE  MailTypeOK'
  BY <1>2 DEF Resend, Written, Enqueued, MailTypeOK, Task, TaskState, Mail, MailState
<1>3. ASSUME NEW k \in Keys, NEW w \in Workers, Claim(w, k), UNCHANGED others
      PROVE  MailTypeOK'
  <2>1. task[k] \in Task /\ task[k].attempt + 1 \in 1..MaxAttempts
    BY <1>3 DEF Claim, MailTypeOK, Task
  <2>2. [state |-> "RUNNING", attempt |-> task[k].attempt + 1, token |-> w,
         live |-> TRUE] \in Task
    BY <2>1 DEF Task, TaskState
  <2>3. task' \in [Keys -> Task]
    BY <1>3, <2>2 DEF Claim, MailTypeOK
  <2>4. [step |-> "start", k |-> k, attempt |-> task[k].attempt + 1] \in SendJob
    BY <2>1 DEF SendJob
  <2>5. work' \in [Workers -> MailJob]
    BY <1>3, <2>4 DEF Claim, Go, MailTypeOK, MailJob
  <2> QED
    BY <1>3, <2>3, <2>5 DEF Claim, others, MailTypeOK
<1>4. ASSUME NEW k \in Keys, Exhaust(k), UNCHANGED others
      PROVE  MailTypeOK'
  <2>1. task[k] \in Task
    BY DEF MailTypeOK
  <2>2. Ended(task[k], "REVIEW_REQUIRED") \in Task
    BY <2>1 DEF Ended, Task, TaskState, Over
  <2>3. task' \in [Keys -> Task]
    BY <1>4, <2>2 DEF Exhaust, MailTypeOK
  <2> QED
    BY <1>4, <2>3 DEF Exhaust, others, MailTypeOK
<1>5. ASSUME NEW k \in Keys, Lapse(k), UNCHANGED others
      PROVE  MailTypeOK'
  <2>1. task' \in [Keys -> Task] /\ work' = work
    BY <1>5 DEF Lapse, MailTypeOK, Task
  <2>2. trouble' \in 0..MaxTrouble
    BY <1>5 DEF Lapse, Trouble, MailTypeOK
  <2> QED
    BY <1>5, <2>1, <2>2 DEF others, MailTypeOK
<1>6. ASSUME NEW w \in Workers, Die(w), UNCHANGED others
      PROVE  MailTypeOK'
  <2>1. trouble' \in 0..MaxTrouble /\ work' \in [Workers -> MailJob]
    BY <1>6 DEF Die, Go, Trouble, MailTypeOK, MailJob
  <2> QED
    BY <1>6, <2>1 DEF Die, others, MailTypeOK
<1>7. ASSUME NEW w \in Workers, Read(w)
      PROVE  MailTypeOK'
  <2>1. work[w] \in SendJob /\ work[w] # Idle
    BY <1>7, MailJobKinds DEF Read, AtMail, MailTypeOK, Idle
  <2>2. [work[w] EXCEPT !.step = "call"] \in MailJob
    BY <2>1 DEF SendJob, MailJob
  <2>3. work' \in [Workers -> MailJob]
    <3>1. CASE \E result \in {"success", "permanent", "ambiguous"} : ConcludeMail(w, result)
      BY <2>1, <3>1, ConcludeType DEF Result
    <3>2. CASE Go(w, [work[w] EXCEPT !.step = "call"])
      BY <2>2, <3>2 DEF Go, MailTypeOK
    <3> QED
      BY <1>7, <3>1, <3>2 DEF Read
  <2> QED
    BY <1>7, <2>3 DEF Read, MailTypeOK
<1>8. ASSUME NEW w \in Workers, GiveUp(w)
      PROVE  MailTypeOK'
  <2>1. work[w] # Idle /\ work[w].k \in Keys
    BY <1>8, MailJobKinds DEF GiveUp, AtMail, MailTypeOK, Idle
  <2>2. KeepId(w) \in Nat /\ "REVIEW_REQUIRED" \in MailState
    BY <2>1 DEF KeepId, MailTypeOK, Mail, MailState
  <2>3. mail' \in [Keys -> Mail]
    BY <1>8, <2>1, <2>2, MarkType DEF GiveUp
  <2>4. work' \in [Workers -> MailJob]
    BY <1>8, <2>1, ConcludeType DEF GiveUp, Result
  <2> QED
    BY <1>8, <2>3, <2>4 DEF GiveUp, MailTypeOK
<1>9. ASSUME NEW w \in Workers, NEW answer \in Answer, Call(w, answer)
      PROVE  MailTypeOK'
  <2>1. /\ work[w].k \in Keys /\ work[w].attempt \in 1..MaxAttempts
        /\ resend[work[w].k] \in Nat
    BY <1>9, MailJobKinds DEF Call, AtMail, MailTypeOK, Idle
  <2>2. \A id \in Nat :
          [step |-> "reply", k |-> work[w].k, attempt |-> work[w].attempt,
           answer |-> answer, id |-> id] \in MailJob
    BY <2>1 DEF MailJob, ReplyJob
  <2>3. resend' \in [Keys -> Nat]
    BY <1>9, <2>1 DEF Call, MailTypeOK
  <2>4. work' \in [Workers -> MailJob]
    BY <1>9, <2>1, <2>2 DEF Call, Go, MailTypeOK
  <2> QED
    BY <1>9, <2>3, <2>4 DEF Call, MailTypeOK
<1>10. ASSUME NEW w \in Workers, Accept(w)
       PROVE  MailTypeOK'
  <2>1. work[w] # Idle /\ work[w].k \in Keys /\ work[w].id \in Nat
    BY <1>10, MailJobKinds DEF Accept, AtMail, MailTypeOK, Idle, ReplyJob
  <2>2. mail' \in [Keys -> Mail]
    BY <1>10, <2>1, MarkType DEF Accept, MailState
  <2>3. work' \in [Workers -> MailJob]
    BY <1>10, <2>1, ConcludeType DEF Accept, Result
  <2> QED
    BY <1>10, <2>2, <2>3 DEF Accept, MailTypeOK
<1>11. ASSUME NEW w \in Workers, Fail(w)
       PROVE  MailTypeOK'
  <2>1. work[w] # Idle /\ work[w].k \in Keys
    BY <1>11, MailJobKinds DEF Fail, AtMail, MailTypeOK, Idle
  <2>2. KeepId(w) \in Nat /\ {"REVIEW_REQUIRED", "FAILED"} \subseteq MailState
    BY <2>1 DEF KeepId, MailTypeOK, Mail, MailState, Reported
  <2>3. mail' \in [Keys -> Mail]
    BY <1>11, <2>1, <2>2, MarkType DEF Fail, MailTypeOK
  <2>4. work' \in [Workers -> MailJob]
    BY <1>11, <2>1, ConcludeType DEF Fail, Result
  <2> QED
    BY <1>11, <2>3, <2>4 DEF Fail, MailTypeOK
<1>12. ASSUME NEW w \in Workers, Break(w)
       PROVE  MailTypeOK'
  <2>1. work[w] # Idle
    BY <1>12 DEF Break, AtMail, Idle
  <2>2. work' \in [Workers -> MailJob]
    <3>1. CASE /\ AtMail(w, "reply")
               /\ Go(w, [work[w] EXCEPT !.answer = "lost", !.id = 0])
      <4>1. work[w] \in ReplyJob
        BY <3>1, MailJobKinds DEF AtMail, MailTypeOK
      <4>2. [work[w] EXCEPT !.answer = "lost", !.id = 0] \in MailJob
        BY <4>1 DEF ReplyJob, MailJob, Answer
      <4> QED
        BY <3>1, <4>2 DEF Go, MailTypeOK
    <3>2. CASE ConcludeMail(w, "ambiguous")
      BY <2>1, <3>2, ConcludeType DEF Result
    <3> QED
      BY <1>12, <3>1, <3>2 DEF Break
  <2>3. trouble' \in 0..MaxTrouble
    BY <1>12 DEF Break, Trouble, MailTypeOK
  <2> QED
    BY <1>12, <2>2, <2>3 DEF Break, MailTypeOK
<1>13. ASSUME NEW w \in Workers, Finish(w), UNCHANGED others
       PROVE  MailTypeOK'
  <2>1. work[w] \in FinishJob
    BY <1>13, MailJobKinds DEF Finish, MailTypeOK
  <2>2. StateAfter(work[w].result, work[w].attempt) \in TaskState
    BY <2>1 DEF FinishJob, Result, StateAfter, TaskState, Over
  <2>3. task' \in [Keys -> Task]
    BY <1>13, <2>1, <2>2 DEF Finish, Ended, MailTypeOK, Task, FinishJob
  <2>4. work' \in [Workers -> MailJob]
    BY <1>13 DEF Finish, Go, MailTypeOK, MailJob
  <2> QED
    BY <1>13, <2>3, <2>4 DEF Finish, others, MailTypeOK
<1>14. ASSUME NEW k \in Keys, Pass(k)
       PROVE  MailTypeOK'
  BY <1>14 DEF Pass, MailTypeOK, Age
<1>15. ASSUME NEW k \in Keys, NEW fate \in Reported, RecordReport(k, fate)
       PROVE  MailTypeOK'
  BY <1>15 DEF RecordReport, MailTypeOK, Mail, MailState
<1>16. CASE UNCHANGED mailVars
  BY <1>16 DEF mailVars, MailTypeOK
<1> QED
  BY <1>1, <1>2, <1>3, <1>4, <1>5, <1>6, <1>7, <1>8, <1>9, <1>10, <1>11,
     <1>12, <1>13, <1>14, <1>15, <1>16 DEF MailNext, TakeMail, AdvanceMail

\* Every state is well typed; in particular no task is attempted more often
\* than it is given attempts, however many workers die.
THEOREM EmailTypes == MailSpec => []MailTypeOK
BY MailTypeInit, MailTypeStep, PTL DEF MailSpec

-----------------------------------------------------------------------------
(* What one step can do to a worker, a task and a message *)

\* What w's job may become when it goes on with its task.
Onward(w) ==
  /\ work[w] # Idle /\ work'[w] # Idle
  /\ work'[w].k = work[w].k /\ work'[w].attempt = work[w].attempt
  /\ \/ /\ work'[w].step \in {"call", "reply"}
        /\ work[w].step \in {"call", "reply"} \/ Read(w)
        /\ (work'[w].step = "reply" /\ work'[w].answer = "accepted")
             => work'[w].id > 0
     \/ /\ work'[w].step = "finish"
        /\ \/ work'[w].result # "success"
           \/ Read(w) /\ mail[work[w].k].state = "ACCEPTED"
           \/ Accept(w) /\ Holds(w)

\* A worker goes on with its task, puts it down, or claims one.
LEMMA WorkerStep ==
  ASSUME MailTypeOK, [MailNext]_mailVars, NEW w \in Workers
  PROVE  \/ work'[w] = work[w]
         \/ work'[w] = Idle
         \/ \E k \in Keys :
              /\ Claim(w, k)
              /\ work'[w] = [step |-> "start", k |-> k, attempt |-> task[k].attempt + 1]
         \/ Onward(w)
<1> DEFINE G == \/ work'[w] = work[w]
                \/ work'[w] = Idle
                \/ \E k \in Keys :
                     /\ Claim(w, k)
                     /\ work'[w] = [step |-> "start", k |-> k,
                                    attempt |-> task[k].attempt + 1]
                \/ Onward(w)
<1>1. CASE work' = work
  BY <1>1
<1>2. ASSUME NEW v \in Workers, NEW job, Go(v, job)
      PROVE  v # w => G
  BY <1>2 DEF Go, MailTypeOK
<1>3. ASSUME NEW job, Go(w, job), work[w] # Idle,
             job.k = work[w].k, job.attempt = work[w].attempt,
             \/ /\ job.step \in {"call", "reply"}
                /\ work[w].step \in {"call", "reply"} \/ Read(w)
                /\ (job.step = "reply" /\ job.answer = "accepted") => job.id > 0
             \/ /\ job.step = "finish"
                /\ \/ job.result # "success"
                   \/ Read(w) /\ mail[work[w].k].state = "ACCEPTED"
                   \/ Accept(w) /\ Holds(w)
      PROVE  G
  <2>1. work'[w] = job
    BY <1>3 DEF Go, MailTypeOK
  <2>2. job # Idle
    BY <1>3 DEF Idle
  <2>3. Onward(w)
    BY <1>3, <2>1, <2>2 DEF Onward
  <2> QED
    BY <2>3
<1>4. ASSUME NEW v \in Workers, NEW result \in Result, ConcludeMail(v, result),
             work[v] # Idle,
             \/ result # "success"
             \/ Read(v) /\ mail[work[v].k].state = "ACCEPTED"
             \/ Accept(v) /\ Holds(v)
      PROVE  G
  BY <1>2, <1>3, <1>4 DEF ConcludeMail
<1>5. ASSUME NEW k \in Keys, NEW v \in Workers, Claim(v, k)
      PROVE  G
  BY <1>2, <1>5 DEF Claim, Go, MailTypeOK
<1>6. ASSUME NEW v \in Workers, Die(v) \/ Finish(v)
      PROVE  G
  BY <1>2, <1>6 DEF Die, Finish, Go, MailTypeOK
<1>7. ASSUME NEW v \in Workers, Read(v)
      PROVE  G
  <2>1. work[v] \in SendJob /\ work[v] # Idle
    BY <1>7, MailJobKinds DEF Read, AtMail, MailTypeOK, Idle
  <2>2. CASE Go(v, [work[v] EXCEPT !.step = "call"])
    <3> DEFINE job == [work[v] EXCEPT !.step = "call"]
    <3>1. job.step = "call" /\ job.k = work[v].k /\ job.attempt = work[v].attempt
      BY <2>1 DEF SendJob
    <3> HIDE DEF job
    <3> QED
      BY <1>2, <1>3, <1>7, <2>1, <2>2, <3>1 DEF job
  <2>3. CASE \/ mail[work[v].k].state = "ACCEPTED" /\ ConcludeMail(v, "success")
             \/ ConcludeMail(v, "permanent") \/ ConcludeMail(v, "ambiguous")
    BY <1>4, <1>7, <2>1, <2>3 DEF Result
  <2> QED
    BY <1>7, <2>2, <2>3 DEF Read
<1>8. ASSUME NEW v \in Workers, GiveUp(v) \/ Accept(v) \/ Fail(v)
      PROVE  G
  <2>1. work[v] # Idle
    BY <1>8 DEF GiveUp, Accept, Fail, AtMail, Idle
  <2>2. \E result \in Result :
          ConcludeMail(v, result) /\ (result # "success" \/ (Accept(v) /\ Holds(v)))
    BY <1>8 DEF GiveUp, Accept, Fail, Result
  <2> QED
    BY <1>4, <2>1, <2>2
<1>9. ASSUME NEW v \in Workers, NEW answer \in Answer, Call(v, answer)
      PROVE  G
  <2>1. work[v] # Idle /\ work[v].step = "call" /\ work[v].k \in Keys
    BY <1>9, MailJobKinds DEF Call, AtMail, MailTypeOK, Idle
  <2>2. resend[work[v].k] \in Nat
    BY <2>1 DEF MailTypeOK
  <2>3. PICK id \in Nat :
          /\ Go(v, [step |-> "reply", k |-> work[v].k,
                    attempt |-> work[v].attempt, answer |-> answer, id |-> id])
          /\ answer = "accepted" => id > 0
    BY <1>9, <2>2 DEF Call
  <2> QED
    BY <1>2, <1>3, <2>1, <2>3
<1>10. ASSUME NEW v \in Workers, Break(v)
       PROVE  G
  <2>1. work[v] # Idle
    BY <1>10 DEF Break, AtMail, Idle
  <2>2. CASE /\ AtMail(v, "reply")
             /\ Go(v, [work[v] EXCEPT !.answer = "lost", !.id = 0])
    <3> DEFINE job == [work[v] EXCEPT !.answer = "lost", !.id = 0]
    <3>1. work[v] \in ReplyJob
      BY <2>2, MailJobKinds DEF AtMail, MailTypeOK
    <3>2. /\ job.step = "reply" /\ job.answer = "lost"
          /\ job.k = work[v].k /\ job.attempt = work[v].attempt
      BY <3>1 DEF ReplyJob
    <3> HIDE DEF job
    <3> QED
      BY <1>2, <1>3, <2>1, <2>2, <3>2 DEF job, AtMail
  <2>3. CASE ConcludeMail(v, "ambiguous")
    BY <1>4, <2>1, <2>3 DEF Result
  <2> QED
    BY <1>10, <2>2, <2>3 DEF Break
<1>11. CASE \/ \E k \in Keys :
                 \/ Enqueue(k) \/ Exhaust(k) \/ Lapse(k) \/ Pass(k)
                 \/ \E new \in Keys : Resend(k, new)
                 \/ \E fate \in Reported : RecordReport(k, fate)
            \/ UNCHANGED mailVars
  BY <1>1, <1>11 DEF Enqueue, Exhaust, Lapse, Pass, Resend, RecordReport, mailVars
<1> QED
  BY <1>5, <1>6, <1>7, <1>8, <1>9, <1>10, <1>11 DEF MailNext, TakeMail, AdvanceMail

\* A task changes where it is enqueued, claimed, exhausted, left by its lease, or
\* finished by the worker that holds it.
LEMMA TaskStep ==
  ASSUME MailTypeOK, [MailNext]_mailVars, NEW k \in Keys
  PROVE  \/ task'[k] = task[k]
         \/ /\ mail[k].state = "NONE" /\ task'[k] = [task[k] EXCEPT !.state = "READY"]
            /\ work' = work /\ mail'[k] = [mail[k] EXCEPT !.state = "PENDING"]
         \/ \E w \in Workers : Claim(w, k) /\ mail' = mail
         \/ Exhaust(k) /\ mail' = mail
         \/ Lapse(k) /\ mail' = mail
         \/ \E w \in Workers :
              Finish(w) /\ Holds(w) /\ work[w].k = k /\ mail' = mail
<1> DEFINE G == \/ task'[k] = task[k]
                \/ /\ mail[k].state = "NONE"
                   /\ task'[k] = [task[k] EXCEPT !.state = "READY"]
                   /\ work' = work
                   /\ mail'[k] = [mail[k] EXCEPT !.state = "PENDING"]
                \/ \E w \in Workers : Claim(w, k) /\ mail' = mail
                \/ Exhaust(k) /\ mail' = mail
                \/ Lapse(k) /\ mail' = mail
                \/ \E w \in Workers :
                     Finish(w) /\ Holds(w) /\ work[w].k = k /\ mail' = mail
<1>1. CASE task' = task
  BY <1>1
<1>2. ASSUME NEW j \in Keys, mail[j].state = "NONE", Written(j),
             task' = Enqueued(j), work' = work
      PROVE  G
  BY <1>2 DEF Written, Enqueued, MailTypeOK
<1>3. ASSUME NEW j \in Keys, Enqueue(j)
      PROVE  G
  BY <1>2, <1>3 DEF Enqueue
<1>4. ASSUME NEW j \in Keys, NEW new \in Keys, Resend(j, new)
      PROVE  G
  BY <1>2, <1>4 DEF Resend
<1>5. ASSUME NEW j \in Keys, NEW w \in Workers, Claim(w, j), UNCHANGED others
      PROVE  G
  BY <1>5 DEF Claim, others, MailTypeOK
<1>6. ASSUME NEW j \in Keys, Exhaust(j), UNCHANGED others
      PROVE  G
  BY <1>6 DEF Exhaust, others, MailTypeOK
<1>7. ASSUME NEW j \in Keys, Lapse(j), UNCHANGED others
      PROVE  G
  BY <1>7 DEF Lapse, others, MailTypeOK
<1>8. ASSUME NEW w \in Workers, Finish(w), UNCHANGED others
      PROVE  G
  BY <1>8 DEF Finish, others, MailTypeOK
<1>9. CASE \/ \E w \in Workers :
                \/ Die(w) \/ Read(w) \/ GiveUp(w) \/ Accept(w) \/ Fail(w) \/ Break(w)
                \/ \E answer \in Answer : Call(w, answer)
           \/ \E j \in Keys : Pass(j) \/ \E fate \in Reported : RecordReport(j, fate)
           \/ UNCHANGED mailVars
  BY <1>1, <1>9 DEF Die, Read, GiveUp, Accept, Fail, Break, Call, Pass, RecordReport, mailVars
<1> QED
  BY <1>3, <1>4, <1>5, <1>6, <1>7, <1>8, <1>9 DEF MailNext, TakeMail, AdvanceMail

\* The worker that holds the task of k marks the row and goes to finish.
Marked(w, k) ==
  /\ work[w].step \in {"call", "reply"} /\ Holds(w) /\ work[w].k = k
  /\ task' = task /\ work'[w].step = "finish"
  /\ \/ /\ mail'[k].state \in {"FAILED", "REVIEW_REQUIRED"}
        /\ work'[w].result # "success"
     \/ Accept(w) /\ mail'[k] = [state |-> "ACCEPTED", id |-> work[w].id]

\* A delivery report moves the row.
ToldFate(k, fate) ==
  /\ mail[k].state = "ACCEPTED" /\ mail'[k] = [mail[k] EXCEPT !.state = fate]
  /\ report' = [report EXCEPT ![k] = fate] /\ task' = task /\ work' = work

\* A row changes where it is written, reported, or marked by the worker that
\* holds its task.
LEMMA MailStep ==
  ASSUME MailTypeOK, [MailNext]_mailVars, NEW k \in Keys
  PROVE  \/ mail'[k] = mail[k]
         \/ mail[k].state = "NONE" /\ mail'[k] = [mail[k] EXCEPT !.state = "PENDING"]
         \/ \E w \in Workers : Marked(w, k)
         \/ \E fate \in Reported : ToldFate(k, fate)
<1> DEFINE G == \/ mail'[k] = mail[k]
                \/ /\ mail[k].state = "NONE"
                   /\ mail'[k] = [mail[k] EXCEPT !.state = "PENDING"]
                \/ \E w \in Workers : Marked(w, k)
                \/ \E fate \in Reported : ToldFate(k, fate)
<1>1. CASE mail' = mail
  BY <1>1
<1>2. ASSUME NEW j \in Keys, mail[j].state = "NONE", Written(j)
      PROVE  G
  BY <1>2 DEF Written, MailTypeOK
<1>3. ASSUME NEW w \in Workers, AtMail(w, "call") \/ AtMail(w, "reply"), NEW id,
             Mark(w, "FAILED", id) \/ Mark(w, "REVIEW_REQUIRED", id),
             ConcludeMail(w, "permanent") \/ ConcludeMail(w, "ambiguous"), task' = task
      PROVE  G
  <2>1. CASE mail' = mail
    BY <1>1, <2>1
  <2>2. CASE ~(Holds(w) /\ work[w].k = k)
    BY <1>1, <1>3, <2>2 DEF Mark, MailTypeOK
  <2>3. CASE Holds(w) /\ work[w].k = k
    <3>1. mail'[k].state \in {"FAILED", "REVIEW_REQUIRED"}
      BY <1>3, <2>3 DEF Mark, MailTypeOK
    <3>2. work'[w].step = "finish" /\ work'[w].result # "success"
      BY <1>3 DEF ConcludeMail, Go, MailTypeOK
    <3>3. Marked(w, k)
      BY <1>3, <2>3, <3>1, <3>2 DEF AtMail, Marked
    <3> QED
      BY <3>3
  <2> QED
    BY <2>1, <2>2, <2>3
<1>4. ASSUME NEW w \in Workers, GiveUp(w)
      PROVE  G
  BY <1>3, <1>4 DEF GiveUp
<1>5. ASSUME NEW w \in Workers, Fail(w)
      PROVE  G
  BY <1>1, <1>3, <1>5 DEF Fail
<1>6. ASSUME NEW w \in Workers, Accept(w)
      PROVE  G
  <2>1. CASE ~(Holds(w) /\ work[w].k = k)
    BY <1>1, <1>6, <2>1 DEF Accept, Mark, MailTypeOK
  <2>2. CASE Holds(w) /\ work[w].k = k
    <3>1. mail'[k] = [state |-> "ACCEPTED", id |-> work[w].id]
      BY <1>6, <2>2 DEF Accept, Mark, MailTypeOK
    <3>2. work'[w].step = "finish"
      BY <1>6 DEF Accept, ConcludeMail, Go, MailTypeOK
    <3>3. Marked(w, k)
      BY <1>6, <2>2, <3>1, <3>2 DEF Accept, AtMail, Marked
    <3> QED
      BY <3>3
  <2> QED
    BY <2>1, <2>2
<1>7. ASSUME NEW j \in Keys, NEW fate \in Reported, RecordReport(j, fate)
      PROVE  G
  <2>1. CASE j # k
    BY <1>1, <1>7, <2>1 DEF RecordReport, MailTypeOK
  <2>2. CASE j = k /\ mail[k].state # "ACCEPTED"
    <3>1. mail[k] \in Mail
      BY DEF MailTypeOK
    <3>2. mail'[k] = [mail[k] EXCEPT !.state = mail[k].state]
      BY <1>7, <2>2 DEF RecordReport, MailTypeOK
    <3> QED
      BY <3>1, <3>2 DEF Mail
  <2>3. CASE j = k /\ mail[k].state = "ACCEPTED"
    <3>1. ToldFate(k, fate)
      BY <1>7, <2>3 DEF RecordReport, ToldFate, MailTypeOK
    <3> QED
      BY <3>1
  <2> QED
    BY <2>1, <2>2, <2>3
<1>8. CASE \E j \in Keys : Enqueue(j) \/ \E new \in Keys : Resend(j, new)
  BY <1>2, <1>8 DEF Enqueue, Resend
<1>9. CASE \/ UNCHANGED others
           \/ \E w \in Workers :
                \/ Read(w) \/ Break(w)
                \/ \E answer \in Answer : Call(w, answer)
           \/ \E j \in Keys : Pass(j)
           \/ UNCHANGED mailVars
  BY <1>1, <1>9 DEF others, Read, Break, Call, Pass, mailVars
<1> QED
  BY <1>4, <1>5, <1>6, <1>7, <1>8, <1>9 DEF MailNext, TakeMail, AdvanceMail

-----------------------------------------------------------------------------
(* The queue *)

\* A message and its task come to exist together; the worker that holds a task
\* counts its attempts as the row does; and a task is put off only while it has
\* attempts left.
LeaseInv ==
  /\ \A k \in Keys : mail[k].state = "NONE" =>
       task[k].state = "NONE" /\ task[k].attempt = 0
  /\ \A w \in Workers :
       (work[w] # Idle /\ task[work[w].k].state = "RUNNING"
          /\ task[work[w].k].token = w)
         => work[w].attempt = task[work[w].k].attempt
  /\ \A k \in Keys : task[k].state \in {"NONE", "READY"} =>
       task[k].attempt < MaxAttempts

\* How a worker's job concludes is never to go on running.
LEMMA OutcomeOver ==
  ASSUME NEW result \in Result, NEW n
  PROVE  /\ StateAfter(result, n) \in Over \cup {"READY"}
         /\ StateAfter(result, n) = "READY" => ~(n >= MaxAttempts)
         /\ StateAfter(result, n) = "SUCCEEDED" => result = "success"
BY DEF Result, StateAfter, Over

\* At the start nothing is enqueued or held.
LEMMA LeaseInit == MailInit => LeaseInv
BY TaskAssumption, WorkerAssumption DEF MailInit, QueueInit, LeaseInv, NoTask, Idle

\* Every step keeps LeaseInv.
LEMMA LeaseStep == MailTypeOK /\ LeaseInv /\ [MailNext]_mailVars => LeaseInv'
<1> SUFFICES ASSUME MailTypeOK, LeaseInv, [MailNext]_mailVars PROVE LeaseInv'
  OBVIOUS
<1> USE TaskAssumption
<1>t. MailTypeOK'
  BY MailTypeStep
<1>1. ASSUME NEW k \in Keys, mail'[k].state = "NONE"
      PROVE  task'[k].state = "NONE" /\ task'[k].attempt = 0
  <2>1. mail'[k] = mail[k]
    BY <1>1, <1>t, MailStep DEF Marked, ToldFate, Reported, MailTypeOK, Mail
  <2>2. task[k].state = "NONE" /\ task[k].attempt = 0
    BY <1>1, <2>1 DEF LeaseInv
  <2>3. task'[k] = task[k]
    <3>1. ~ \E w \in Workers : Claim(w, k)
      BY <2>2 DEF Claim, Claimable
    <3>2. ~Exhaust(k) /\ ~Lapse(k)
      BY <2>2 DEF Exhaust, Lapse, Claimable
    <3>3. ~ \E w \in Workers : Holds(w) /\ work[w].k = k
      BY <2>2 DEF Holds
    <3>4. mail'[k] # [mail[k] EXCEPT !.state = "PENDING"]
      BY <1>1 DEF MailTypeOK, Mail
    <3> QED
      BY <3>1, <3>2, <3>3, <3>4, TaskStep
  <2> QED
    BY <2>2, <2>3
<1>2. ASSUME NEW w \in Workers, work'[w] # Idle,
             task'[work'[w].k].state = "RUNNING", task'[work'[w].k].token = w
      PROVE  work'[w].attempt = task'[work'[w].k].attempt
  <2> DEFINE k == work'[w].k
  <2>1. k \in Keys
    BY <1>2, <1>t, MailJobKinds DEF MailTypeOK
  <2>2. CASE \E j \in Keys : Claim(w, j)
                /\ work'[w] = [step |-> "start", k |-> j, attempt |-> task[j].attempt + 1]
    BY <2>2 DEF Claim, MailTypeOK
  <2>3. CASE work[w] # Idle /\ work'[w].k = work[w].k /\ work'[w].attempt = work[w].attempt
    <3>1. task'[k] = task[k] \/ (Lapse(k) /\ task'[k].attempt = task[k].attempt
             /\ task[k].state = "RUNNING" /\ task'[k].token = task[k].token)
      <4>1. ASSUME NEW v \in Workers, Claim(v, k)
            PROVE  FALSE
        <5>1. task'[k].token = v /\ work[v] = Idle
          BY <2>1, <4>1 DEF Claim, MailTypeOK
        <5> QED
          BY <1>2, <2>3, <5>1
      <4>2. ~Exhaust(k)
        BY <1>2, <2>1 DEF Exhaust, Ended, MailTypeOK
      <4>3. ASSUME NEW v \in Workers, Finish(v), Holds(v), work[v].k = k
            PROVE  FALSE
        <5>1. work[v].result \in Result
          BY <4>3, MailJobKinds DEF Finish, MailTypeOK, FinishJob
        <5>2. task'[k].state = StateAfter(work[v].result, work[v].attempt)
          BY <2>1, <4>3 DEF Finish, Ended, MailTypeOK
        <5> QED
          BY <1>2, <5>1, <5>2, OutcomeOver DEF Over
      <4>4. task'[k] # [task[k] EXCEPT !.state = "READY"]
        BY <1>2, <2>1 DEF MailTypeOK, Task
      <4>5. Lapse(k) => /\ task'[k].attempt = task[k].attempt
                        /\ task[k].state = "RUNNING" /\ task'[k].token = task[k].token
        BY <2>1 DEF Lapse, MailTypeOK, Task
      <4> QED
        BY <2>1, <4>1, <4>2, <4>3, <4>4, <4>5, TaskStep
    <3> QED
      BY <1>2, <2>3, <3>1 DEF LeaseInv
  <2> QED
    BY <1>2, <2>2, <2>3, WorkerStep DEF Onward
<1>3. ASSUME NEW k \in Keys, task'[k].state \in {"NONE", "READY"}
      PROVE  task'[k].attempt < MaxAttempts
  <2>1. CASE task'[k] = task[k]
    BY <1>3, <2>1 DEF LeaseInv
  <2>2. CASE mail[k].state = "NONE" /\ task'[k] = [task[k] EXCEPT !.state = "READY"]
    BY <2>2 DEF LeaseInv, MailTypeOK, Task
  <2>3. ~ \E w \in Workers : Claim(w, k)
    BY <1>3 DEF Claim, MailTypeOK
  <2>4. ~Exhaust(k) /\ ~Lapse(k)
    BY <1>3 DEF Exhaust, Lapse, Ended, MailTypeOK, Task
  <2>5. ASSUME NEW w \in Workers, Finish(w), Holds(w), work[w].k = k
        PROVE  task'[k].attempt < MaxAttempts
    <3>1. work[w] \in FinishJob /\ work[w] # Idle
      BY <2>5, MailJobKinds DEF Finish, MailTypeOK, Idle
    <3>2. /\ task'[k].state = StateAfter(work[w].result, work[w].attempt)
          /\ task'[k].attempt = task[k].attempt
      BY <2>5 DEF Finish, Ended, MailTypeOK
    <3>3. work[w].attempt = task[k].attempt
      BY <2>5, <3>1 DEF LeaseInv, Holds
    <3>4. ~(work[w].attempt >= MaxAttempts)
      BY <1>3, <3>1, <3>2, OutcomeOver DEF FinishJob, Over
    <3> QED
      BY <3>2, <3>3, <3>4 DEF MailTypeOK, Task
  <2> QED
    BY <2>1, <2>2, <2>3, <2>4, <2>5, TaskStep
<1> QED
  BY <1>1, <1>2, <1>3 DEF LeaseInv

\* Two functions that differ at one point.
LEMMA OneChange ==
  ASSUME NEW S, NEW k \in S, NEW f, NEW g,
         f = [j \in S |-> f[j]], g = [j \in S |-> g[j]],
         \A j \in S : j # k => g[j] = f[j]
  PROVE  g = [f EXCEPT ![k] = g[k]] /\ (g[k] = f[k] => g = f)
OBVIOUS

\* A change of one task changes one phase and one count.
LEMMA PhaseAt ==
  ASSUME MailTypeOK, NEW k \in Keys, \E t : task' = [task EXCEPT ![k] = t]
  PROVE  /\ phase' = [phase EXCEPT ![k] = phase'[k]]
         /\ tries' = [tries EXCEPT ![k] = tries'[k]]
         /\ phase'[k] = phase[k] => phase' = phase
         /\ tries'[k] = tries[k] => tries' = tries
<1>1. \A j \in Keys : j # k => task'[j] = task[j]
  BY DEF MailTypeOK
<1>2. phase' = [j \in Keys |-> PhaseOf(task'[j])]
  BY DEF phase, PhaseOf, Over
<1>3. /\ phase = [j \in Keys |-> phase[j]] /\ phase' = [j \in Keys |-> phase'[j]]
      /\ \A j \in Keys : j # k => phase'[j] = phase[j]
  BY <1>1, <1>2 DEF phase
<1>4. /\ tries = [j \in Keys |-> tries[j]] /\ tries' = [j \in Keys |-> tries'[j]]
      /\ \A j \in Keys : j # k => tries'[j] = tries[j]
  BY <1>1 DEF tries
<1> QED
  BY <1>3, <1>4, OneChange

\* The phase and the count of a task are its row's.
LEMMA PhaseIs ==
  ASSUME NEW k \in Keys
  PROVE  /\ phase[k] = PhaseOf(task[k]) /\ phase'[k] = PhaseOf(task'[k])
         /\ tries[k] = task[k].attempt /\ tries'[k] = task'[k].attempt
BY DEF phase, tries, PhaseOf, Over

\* Every step is a step of the abstract queue or changes none of its variables.
LEMMA QueueStep ==
  MailTypeOK /\ LeaseInv /\ [MailNext]_mailVars
    => Queue!Next \/ UNCHANGED <<phase, tries>>
<1> SUFFICES ASSUME MailTypeOK, LeaseInv, [MailNext]_mailVars
             PROVE  Queue!Next \/ UNCHANGED <<phase, tries>>
  OBVIOUS
<1> USE TaskAssumption
<1> DEFINE G == Queue!Next \/ UNCHANGED <<phase, tries>>
<1>1. CASE task' = task
  BY <1>1 DEF phase, tries, PhaseOf, Over
<1>2. ASSUME NEW k \in Keys, mail[k].state = "NONE", task' = Enqueued(k)
      PROVE  G
  <2>1. /\ task[k].state = "NONE" /\ task'[k].state = "READY"
        /\ task'[k].attempt = task[k].attempt
    BY <1>2 DEF MailTypeOK, LeaseInv, Enqueued, Task
  <2>2. \E t : task' = [task EXCEPT ![k] = t]
    BY <1>2 DEF Enqueued
  <2>3. phase[k] = "none" /\ phase'[k] = "waiting" /\ tries'[k] = tries[k]
    BY <2>1, PhaseIs DEF PhaseOf, Over
  <2>4. Queue!Add(k)
    BY <2>2, <2>3, PhaseAt DEF Queue!Add
  <2> QED
    BY <2>4 DEF Queue!Next
<1>3. ASSUME NEW k \in Keys, NEW w \in Workers, Claim(w, k)
      PROVE  G
  <2>1. /\ task[k].state \in {"READY", "RUNNING"} /\ task'[k].state = "RUNNING"
        /\ task[k].attempt < MaxAttempts /\ task'[k].attempt = task[k].attempt + 1
    BY <1>3 DEF Claim, Claimable, MailTypeOK
  <2>2. \E t : task' = [task EXCEPT ![k] = t]
    BY <1>3 DEF Claim
  <2>3. phase[k] \in {"waiting", "tried"} /\ phase'[k] = "tried"
    BY <2>1, PhaseIs DEF PhaseOf, Over
  <2>4. tries[k] < MaxAttempts /\ tries'[k] = tries[k] + 1
    BY <2>1, PhaseIs
  <2>5. Queue!Try(k)
    BY <2>2, <2>3, <2>4, PhaseAt DEF Queue!Try
  <2> QED
    BY <2>5 DEF Queue!Next
<1>4. ASSUME NEW k \in Keys, NEW state \in Over \cup {"READY"},
             task[k].state = "RUNNING",
             state = "READY" => task[k].attempt < MaxAttempts,
             task' = [task EXCEPT ![k] = Ended(task[k], state)]
      PROVE  G
  <2>1. task'[k].state = state /\ task'[k].attempt = task[k].attempt
    BY <1>4 DEF Ended, MailTypeOK
  <2>2. \E t : task' = [task EXCEPT ![k] = t]
    BY <1>4
  <2>3. /\ phase[k] = "tried" /\ tries'[k] = tries[k]
        /\ phase'[k] = IF state = "READY" THEN "waiting" ELSE "over"
    BY <1>4, <2>1, PhaseIs DEF PhaseOf, Over
  <2>4. state = "READY" => tries[k] < MaxAttempts
    BY <1>4, PhaseIs
  <2>5. CASE state = "READY"
    <3>1. Queue!PutOff(k)
      BY <2>2, <2>3, <2>4, <2>5, PhaseAt DEF Queue!PutOff
    <3> QED
      BY <3>1 DEF Queue!Next
  <2>6. CASE state # "READY"
    <3>1. Queue!End(k)
      BY <2>2, <2>3, <2>6, PhaseAt DEF Queue!End
    <3> QED
      BY <3>1 DEF Queue!Next
  <2> QED
    BY <2>5, <2>6
<1>5. ASSUME NEW k \in Keys, Exhaust(k)
      PROVE  G
  <2>1. task[k].state = "RUNNING"
    BY <1>5 DEF Exhaust, Claimable, LeaseInv, MailTypeOK, Task
  <2> QED
    BY <1>4, <1>5, <2>1 DEF Exhaust, Over
<1>6. ASSUME NEW k \in Keys, Lapse(k)
      PROVE  G
  <2>1. task'[k].state = task[k].state /\ task'[k].attempt = task[k].attempt
    BY <1>6 DEF Lapse, MailTypeOK, Task
  <2>2. \E t : task' = [task EXCEPT ![k] = t]
    BY <1>6 DEF Lapse
  <2>3. phase'[k] = phase[k] /\ tries'[k] = tries[k]
    BY <2>1, PhaseIs DEF PhaseOf, Over
  <2> QED
    BY <2>2, <2>3, PhaseAt
<1>7. ASSUME NEW w \in Workers, Finish(w)
      PROVE  G
  <2> DEFINE k == work[w].k
             state == StateAfter(work[w].result, work[w].attempt)
  <2>1. work[w] \in FinishJob /\ work[w] # Idle /\ k \in Keys
    BY <1>7, MailJobKinds DEF Finish, MailTypeOK, Idle
  <2>2. CASE ~Holds(w)
    BY <1>1, <1>7, <2>2 DEF Finish
  <2>3. CASE Holds(w)
    <3>1. /\ task' = [task EXCEPT ![k] = Ended(task[k], state)]
          /\ task[k].state = "RUNNING"
      BY <1>7, <2>3 DEF Finish, Holds
    <3>2. work[w].attempt = task[k].attempt
      BY <2>1, <2>3 DEF LeaseInv, Holds
    <3>3. state \in Over \cup {"READY"} /\ (state = "READY" => task[k].attempt < MaxAttempts)
      BY <2>1, <3>2, OutcomeOver DEF FinishJob
    <3> HIDE DEF state
    <3> QED
      BY <1>4, <2>1, <3>1, <3>3
  <2> QED
    BY <2>2, <2>3
<1>8. ASSUME NEW k \in Keys, Enqueue(k)
      PROVE  G
  BY <1>2, <1>8 DEF Enqueue
<1>9. ASSUME NEW k \in Keys, NEW new \in Keys, Resend(k, new)
      PROVE  G
  BY <1>2, <1>9 DEF Resend
<1>10. CASE \/ \E w \in Workers :
                 \/ Die(w) \/ Read(w) \/ GiveUp(w) \/ Accept(w) \/ Fail(w) \/ Break(w)
                 \/ \E answer \in Answer : Call(w, answer)
            \/ \E j \in Keys : Pass(j) \/ \E fate \in Reported : RecordReport(j, fate)
            \/ UNCHANGED mailVars
  BY <1>1, <1>10 DEF Die, Read, GiveUp, Accept, Fail, Break, Call, Pass, RecordReport, mailVars
<1> QED
  BY <1>3, <1>5, <1>6, <1>7, <1>8, <1>9, <1>10 DEF MailNext, TakeMail, AdvanceMail

LEMMA LeaseAlways == MailSpec => []LeaseInv
BY LeaseInit, LeaseStep, EmailTypes, PTL DEF MailSpec

\* Leases, tokens and exhaustion implement the abstract queue: a task is begun at
\* most MaxAttempts times, an attempt is concluded at most once and never by a
\* worker whose task was taken over, and a concluded task stays concluded.
THEOREM ImplementsQueue == MailSpec => QueueKept
<1>1. MailInit => Queue!Init
  <2> SUFFICES ASSUME MailInit PROVE Queue!Init
    OBVIOUS
  <2>1. \A k \in Keys : PhaseOf(task[k]) = "none" /\ task[k].attempt = 0
    BY DEF MailInit, QueueInit, NoTask, Over, PhaseOf
  <2> QED
    BY <2>1 DEF Queue!Init, phase, tries
<1> QED
  BY <1>1, QueueStep, LeaseAlways, EmailTypes, PTL DEF MailSpec, QueueKept, Queue!Spec

-----------------------------------------------------------------------------
(* One acceptance per key *)

\* A message that is no longer fresh has been attempted, and whoever works on it
\* makes a later attempt than the first.
AgeInv == \A k \in Keys : age[k] # "FRESH" =>
  /\ task[k].attempt > 0
  /\ \A w \in Workers : Working(w, k) => work[w].attempt > 1

LEMMA AgeInit == MailInit => AgeInv /\ SentOnce
BY DEF MailInit, AgeInv, SentOnce

\* The count of attempts never goes back.
LEMMA AttemptGrows ==
  ASSUME MailTypeOK, [MailNext]_mailVars, NEW k \in Keys
  PROVE  task'[k].attempt >= task[k].attempt
<1>1. task[k] \in Task /\ task[k].attempt \in Nat
  BY TaskAssumption DEF MailTypeOK, Task
<1>2. (\E w \in Workers : Claim(w, k)) => task'[k].attempt = task[k].attempt + 1
  BY DEF Claim, MailTypeOK
<1>3. Exhaust(k) \/ Lapse(k) => task'[k].attempt = task[k].attempt
  BY <1>1 DEF Exhaust, Lapse, Ended, MailTypeOK, Task
<1>4. (\E w \in Workers : Finish(w) /\ Holds(w) /\ work[w].k = k)
        => task'[k].attempt = task[k].attempt
  BY DEF Finish, Ended, MailTypeOK
<1>5. task'[k] = [task[k] EXCEPT !.state = "READY"]
        => task'[k].attempt = task[k].attempt
  BY <1>1 DEF Task
<1>6. task'[k] = task[k] => task'[k].attempt = task[k].attempt
  OBVIOUS
<1>7. \/ task'[k].attempt = task[k].attempt
      \/ task'[k].attempt = task[k].attempt + 1
  <2> HIDE DEF MailNext
  <2> QED
    BY <1>2, <1>3, <1>4, <1>5, <1>6, TaskStep, Zenon
<1> QED
  BY <1>1, <1>7

\* Every step keeps AgeInv.
LEMMA AgeStep == MailTypeOK /\ AgeInv /\ [MailNext]_mailVars => AgeInv'
<1> SUFFICES ASSUME MailTypeOK, AgeInv, [MailNext]_mailVars, NEW k \in Keys, age'[k] # "FRESH"
             PROVE  /\ task'[k].attempt > 0
                    /\ \A w \in Workers : Working(w, k)' => work'[w].attempt > 1
  BY DEF AgeInv
<1>1. task[k].attempt \in Nat /\ task'[k].attempt \in Nat
  BY MailTypeStep, TaskAssumption DEF MailTypeOK, Task
<1>2. CASE \E j \in Keys : Pass(j) /\ j = k
  <2>1. task' = task /\ work' = work /\ task[k].attempt > 0
    BY <1>2 DEF Pass
  <2>2. ASSUME NEW w \in Workers, Working(w, k)
        PROVE  work[w].attempt > 1
    BY <1>2, <2>2 DEF Pass, AgeInv
  <2> QED
    BY <2>1, <2>2 DEF Working
<1>3. CASE age'[k] = age[k]
  <2>1. task[k].attempt > 0
    BY <1>3 DEF AgeInv
  <2>2. ASSUME NEW w \in Workers, Working(w, k)'
        PROVE  work'[w].attempt > 1
    <3>1. CASE work'[w] = work[w]
      BY <1>3, <2>2, <3>1 DEF AgeInv, Working
    <3>2. CASE Onward(w)
      BY <1>3, <2>2, <3>2 DEF AgeInv, Working, Onward
    <3>3. CASE \E j \in Keys : work'[w] = [step |-> "start", k |-> j,
                                          attempt |-> task[j].attempt + 1]
      BY <1>1, <2>1, <2>2, <3>3 DEF Working
    <3> QED
      BY <2>2, <3>1, <3>2, <3>3, WorkerStep DEF Working
  <2>3. task'[k].attempt >= task[k].attempt
    BY AttemptGrows
  <2> QED
    BY <1>1, <2>1, <2>2, <2>3
<1>4. age'[k] = age[k] \/ \E j \in Keys : Pass(j) /\ j = k
  <2>1. ASSUME NEW j \in Keys, Pass(j), j # k
        PROVE  age'[k] = age[k]
    BY <2>1 DEF Pass, MailTypeOK
  <2>2. CASE UNCHANGED age
    BY <2>2
  <2> QED
    BY <2>1, <2>2
    DEF MailNext, TakeMail, AdvanceMail, Enqueue, Resend, RecordReport, Read, GiveUp, Call, Accept,
        Fail, Break, others, mailVars
<1> QED
  BY <1>2, <1>3, <1>4

\* Only a first call makes Resend accept a message: a later one is inside the
\* window, or past the cutoff.
LEMMA SentStep == MailTypeOK /\ AgeInv /\ SentOnce /\ [MailNext]_mailVars => SentOnce'
<1> SUFFICES ASSUME MailTypeOK, AgeInv, SentOnce, [MailNext]_mailVars, NEW k \in Keys
             PROVE  resend'[k] <= 1
  BY DEF SentOnce
<1>1. CASE UNCHANGED resend
  BY <1>1 DEF SentOnce
<1>2. ASSUME NEW w \in Workers, NEW answer \in Answer, Call(w, answer)
      PROVE  resend'[k] <= 1
  <2> DEFINE j == work[w].k
  <2>1. work[w] # Idle /\ j \in Keys /\ work[w].attempt \in Nat
    BY <1>2, MailJobKinds, TaskAssumption DEF Call, AtMail, MailTypeOK, Idle
  <2>2. age[j] = "FRESH"
    BY <1>2, <2>1 DEF Call, TooLate, AgeInv, Working
  <2>3. resend[j] \in Nat /\ resend[j] <= 1
    BY <2>1 DEF SentOnce, MailTypeOK
  <2>4. resend' = resend \/ resend' = [resend EXCEPT ![j] = IF resend[j] > 0
                                          THEN resend[j] ELSE resend[j] + 1]
    BY <1>2, <2>2 DEF Call
  <2> QED
    BY <2>1, <2>3, <2>4 DEF SentOnce, MailTypeOK
<1> QED
  BY <1>1, <1>2
  DEF MailNext, TakeMail, AdvanceMail, Enqueue, Resend, RecordReport, Read, GiveUp, Accept,
      Fail, Break, Pass, others, mailVars

\* However many workers die, are slow or get no answer, and however many retries
\* follow, Resend accepts one message under a key at most once.
THEOREM SentAtMostOnce == MailSpec => []SentOnce
BY AgeInit, AgeStep, SentStep, EmailTypes, PTL DEF MailSpec

-----------------------------------------------------------------------------
(* Conclusions *)

\* A worker that holds its task after a step held it before, with the task as it
\* was, or has just claimed it.
LEMMA HeldBefore ==
  ASSUME MailTypeOK, [MailNext]_mailVars, NEW w \in Workers, Holds(w)', work'[w] # Idle,
         work'[w].step # "start"
  PROVE  /\ work[w] # Idle /\ work'[w].k = work[w].k /\ work[w].k \in Keys
         /\ Holds(w) /\ task'[work[w].k] = task[work[w].k]
<1> DEFINE k == work[w].k
<1>1. work[w] # Idle /\ work'[w].k = k
  <2>1. ASSUME NEW j \in Keys,
               work'[w] = [step |-> "start", k |-> j, attempt |-> task[j].attempt + 1]
        PROVE  FALSE
    <3>1. work'[w].step = "start"
      BY <2>1
    <3> QED
      BY <3>1
  <2>2. work'[w] = work[w] \/ Onward(w)
    BY <2>1, WorkerStep
  <2> QED
    BY <2>2 DEF Onward
<1>2. k \in Keys
  BY <1>1, MailJobKinds DEF MailTypeOK
<1>3. task'[k].state = "RUNNING" /\ task'[k].token = w /\ task'[k].live
  BY <1>1 DEF Holds
<1>4. ASSUME NEW v \in Workers, Claim(v, k)
      PROVE  FALSE
  <2>1. task'[k].token = v /\ work[v] = Idle
    BY <1>2, <1>4 DEF Claim, MailTypeOK
  <2> QED
    BY <1>1, <1>3, <2>1
<1>5. ASSUME NEW v \in Workers, Finish(v), Holds(v), work[v].k = k
      PROVE  FALSE
  <2>1. work[v].result \in Result
    BY <1>5, MailJobKinds DEF Finish, MailTypeOK, FinishJob
  <2>2. task'[k].state = StateAfter(work[v].result, work[v].attempt)
    BY <1>2, <1>5 DEF Finish, Ended, MailTypeOK
  <2> QED
    BY <1>3, <2>1, <2>2, OutcomeOver DEF Over
<1>6. ~Exhaust(k) /\ ~Lapse(k)
  BY <1>2, <1>3 DEF Exhaust, Lapse, Ended, MailTypeOK, Task
<1>7. task'[k] # [task[k] EXCEPT !.state = "READY"]
  BY <1>2, <1>3 DEF MailTypeOK, Task
<1>8. task'[k] = task[k]
  BY <1>2, <1>4, <1>5, <1>6, <1>7, TaskStep
<1> QED
  BY <1>1, <1>2, <1>3, <1>8 DEF Holds

\* The worker that holds a task and has not concluded it works on a message nobody
\* has concluded: it read the row, and only the holder may mark it.
RowInv == \A w \in Workers :
  (work[w].step \in {"call", "reply"} /\ Holds(w)) =>
    mail[work[w].k].state \notin {"ACCEPTED", "FAILED", "REVIEW_REQUIRED"}

LEMMA RowInit == MailInit => RowInv
BY DEF MailInit, QueueInit, RowInv, Idle

\* Every step keeps RowInv.
LEMMA RowStep == MailTypeOK /\ RowInv /\ [MailNext]_mailVars => RowInv'
<1> SUFFICES ASSUME MailTypeOK, RowInv, [MailNext]_mailVars, NEW w \in Workers,
                    work'[w].step \in {"call", "reply"}, Holds(w)'
             PROVE  mail'[work'[w].k].state
                      \notin {"ACCEPTED", "FAILED", "REVIEW_REQUIRED"}
  BY DEF RowInv
<1> DEFINE k == work[w].k
<1>1. /\ work[w] # Idle /\ work'[w].k = k /\ k \in Keys
      /\ Holds(w) /\ task'[k] = task[k]
  BY HeldBefore DEF Idle
<1>2. mail[k].state \notin {"ACCEPTED", "FAILED", "REVIEW_REQUIRED"}
  <2>1. CASE work[w].step \in {"call", "reply"}
    BY <1>1, <2>1 DEF RowInv
  <2>2. CASE Read(w)
    <3>1. ~ \E result \in Result : ConcludeMail(w, result)
      BY DEF ConcludeMail, Go, MailTypeOK
    <3> QED
      BY <2>2, <3>1 DEF Read, Result
  <2>3. ASSUME NEW j \in Keys,
               work'[w] = [step |-> "start", k |-> j, attempt |-> task[j].attempt + 1]
        PROVE  FALSE
    BY <2>3
  <2>4. work'[w] # Idle
    BY DEF Idle
  <2>5. work'[w] = work[w] \/ Onward(w)
    BY <2>3, <2>4, WorkerStep
  <2>6. work[w].step \in {"call", "reply"} \/ Read(w)
    BY <2>5 DEF Onward
  <2> QED
    BY <2>1, <2>2, <2>6
<1>3. ASSUME NEW v \in Workers, Holds(v), work[v].k = k, work'[v].step = "finish"
      PROVE  FALSE
  <2>1. v = w
    BY <1>1, <1>3 DEF Holds
  <2> QED
    BY <1>3, <2>1
<1>4. mail'[k] = [mail[k] EXCEPT !.state = "PENDING"] => mail'[k].state = "PENDING"
  BY <1>1 DEF MailTypeOK, Mail
<1>5. mail[k].state # "ACCEPTED"
  BY <1>2
<1>6. \/ mail'[k] = mail[k]
      \/ mail'[k] = [mail[k] EXCEPT !.state = "PENDING"]
  <2>1. ~ \E v \in Workers : Marked(v, k)
    BY <1>3 DEF Marked
  <2>2. ~ \E fate \in Reported : ToldFate(k, fate)
    BY <1>5 DEF ToldFate
  <2> QED
    BY <1>1, <2>1, <2>2, MailStep
<1> QED
  BY <1>1, <1>2, <1>4, <1>6

\* What a worker concluded of a message is changed by no other: an accepted
\* message moves by a delivery report only, a failed one and one left for review
\* do not move, however late an overtaken worker comes with its own answer.
THEOREM ConclusionsStay == MailSpec => ConclusionStays
<1>1. MailTypeOK /\ RowInv /\ [MailNext]_mailVars =>
        \A k \in Keys :
          /\ mail[k].state \in {"FAILED", "REVIEW_REQUIRED"} =>
               mail'[k].state = mail[k].state
          /\ mail[k].state = "ACCEPTED" =>
               mail'[k].state \in {"ACCEPTED", report'[k]}
  <2> SUFFICES ASSUME MailTypeOK, RowInv, [MailNext]_mailVars, NEW k \in Keys,
                      mail[k].state \in {"ACCEPTED", "FAILED", "REVIEW_REQUIRED"}
               PROVE  \/ mail'[k].state = mail[k].state
                      \/ mail[k].state = "ACCEPTED" /\ mail'[k].state = report'[k]
    OBVIOUS
  <2>1. ~ \E w \in Workers :
            work[w].step \in {"call", "reply"} /\ Holds(w) /\ work[w].k = k
    BY DEF RowInv
  <2>2. ASSUME NEW fate \in Reported, mail'[k] = [mail[k] EXCEPT !.state = fate],
               report' = [report EXCEPT ![k] = fate]
        PROVE  mail'[k].state = report'[k]
    BY <2>2 DEF MailTypeOK, Mail
  <2> QED
    BY <2>1, <2>2, MailStep DEF Marked, ToldFate
<1>2. MailSpec => []RowInv
  BY RowInit, RowStep, EmailTypes, PTL DEF MailSpec
<1> QED
  BY <1>1, <1>2, EmailTypes, PTL DEF MailSpec, ConclusionStays

-----------------------------------------------------------------------------
(* Success *)

\* The messages that were accepted and that their rows know by an id.
Known == {k \in Keys : mail[k].id > 0 /\ mail[k].state \in {"ACCEPTED"} \cup Reported}

\* Where a worker may report success, the message is known.
DoneInv ==
  /\ \A k \in Keys : mail[k].state = "ACCEPTED" => mail[k].id > 0
  /\ \A w \in Workers :
       (work[w].step = "reply" /\ work[w].answer = "accepted") => work[w].id > 0
  /\ \A w \in Workers :
       (work[w].step = "finish" /\ work[w].result = "success" /\ Holds(w))
         => work[w].k \in Known

LEMMA DoneInit == MailInit => DoneInv /\ SucceededAccepted
BY DEF MailInit, QueueInit, NoTask, NoMail, Idle, DoneInv, SucceededAccepted

\* A known message stays known unless the holder of its task marks it.
LEMMA KnownStays ==
  ASSUME MailTypeOK, [MailNext]_mailVars, NEW k \in Keys, k \in Known,
         ~ \E w \in Workers :
             work[w].step \in {"call", "reply"} /\ Holds(w) /\ work[w].k = k
  PROVE  k \in Known'
<1>1. mail[k] \in Mail /\ mail[k].state # "NONE"
  BY DEF Known, Reported, MailTypeOK
<1>2. \A fate \in Reported :
        mail'[k] = [mail[k] EXCEPT !.state = fate] => k \in Known'
  BY <1>1 DEF Known, Mail
<1>3. mail'[k] = mail[k] => k \in Known'
  BY DEF Known
<1>4. ~ \E w \in Workers : Marked(w, k)
  BY DEF Marked
<1> QED
  BY <1>1, <1>2, <1>3, <1>4, MailStep DEF ToldFate

\* Every step keeps DoneInv.
LEMMA DoneStep == MailTypeOK /\ DoneInv /\ [MailNext]_mailVars => DoneInv'
<1> SUFFICES ASSUME MailTypeOK, DoneInv, [MailNext]_mailVars PROVE DoneInv'
  OBVIOUS
<1>1. ASSUME NEW k \in Keys, mail'[k].state = "ACCEPTED"
      PROVE  mail'[k].id > 0
  <2>1. mail[k] \in Mail
    BY DEF MailTypeOK
  <2>2. ASSUME NEW w \in Workers, Accept(w),
               mail'[k] = [state |-> "ACCEPTED", id |-> work[w].id]
        PROVE  mail'[k].id > 0
    BY <2>2 DEF Accept, AtMail, DoneInv
  <2>3. \A state : mail'[k] = [mail[k] EXCEPT !.state = state] => state = "ACCEPTED"
    BY <1>1, <2>1 DEF Mail
  <2>4. mail'[k].state \notin {"FAILED", "REVIEW_REQUIRED"}
    BY <1>1
  <2>5. mail'[k] # [mail[k] EXCEPT !.state = "PENDING"]
    BY <2>3
  <2>6. \A fate \in Reported : mail'[k] # [mail[k] EXCEPT !.state = fate]
    BY <2>3 DEF Reported
  <2>7. mail'[k] = mail[k] \/ \E w \in Workers :
          Accept(w) /\ mail'[k] = [state |-> "ACCEPTED", id |-> work[w].id]
    <3>1. ~ \E fate \in Reported : ToldFate(k, fate)
      BY <2>6 DEF ToldFate
    <3>2. \A w \in Workers : Marked(w, k) =>
            Accept(w) /\ mail'[k] = [state |-> "ACCEPTED", id |-> work[w].id]
      BY <2>4 DEF Marked
    <3> QED
      BY <2>5, <3>1, <3>2, MailStep
  <2> QED
    BY <1>1, <2>2, <2>7 DEF DoneInv
<1>2. ASSUME NEW w \in Workers, work'[w].step = "reply", work'[w].answer = "accepted"
      PROVE  work'[w].id > 0
  <2>1. work'[w] # Idle
    BY <1>2 DEF Idle
  <2>2. ASSUME NEW k \in Keys,
               work'[w] = [step |-> "start", k |-> k, attempt |-> task[k].attempt + 1]
        PROVE  FALSE
    <3>1. work'[w].step = "start"
      BY <2>2
    <3> QED
      BY <1>2, <3>1
  <2>3. work'[w] = work[w] \/ Onward(w)
    BY <2>1, <2>2, WorkerStep
  <2> QED
    BY <1>2, <2>3 DEF DoneInv, Onward
<1>3. ASSUME NEW w \in Workers, work'[w].step = "finish",
             work'[w].result = "success", Holds(w)'
      PROVE  work'[w].k \in Known'
  <2> DEFINE k == work[w].k
  <2>1. /\ work[w] # Idle /\ work'[w].k = k /\ k \in Keys
        /\ Holds(w) /\ task'[k] = task[k]
    BY <1>3, HeldBefore DEF Idle
  <2>2. \A v \in Workers : Holds(v) /\ work[v].k = k => v = w
    BY <2>1 DEF Holds
  <2>3. CASE work'[w] = work[w]
    <3>1. k \in Known
      BY <1>3, <2>1, <2>3 DEF DoneInv
    <3>2. k \in Known'
      BY <1>3, <2>1, <2>2, <2>3, <3>1, KnownStays
    <3> QED
      BY <2>1, <3>2 DEF Known
  <2>4. CASE Read(w) /\ mail[k].state = "ACCEPTED"
    <3>1. mail' = mail /\ mail[k].id > 0
      BY <2>1, <2>4 DEF Read, DoneInv
    <3> QED
      BY <2>1, <2>4, <3>1 DEF Known
  <2>5. CASE Accept(w) /\ Holds(w)
    <3>1. mail'[k] = [state |-> "ACCEPTED", id |-> work[w].id]
      BY <2>1, <2>5 DEF Accept, Mark, MailTypeOK
    <3>2. work[w].id > 0
      BY <2>5 DEF Accept, AtMail, DoneInv
    <3> QED
      BY <2>1, <3>1, <3>2 DEF Known
  <2>6. work'[w] # Idle
    BY <1>3 DEF Idle
  <2>7. ASSUME NEW j \in Keys,
               work'[w] = [step |-> "start", k |-> j, attempt |-> task[j].attempt + 1]
        PROVE  FALSE
    <3>1. work'[w].step = "start"
      BY <2>7
    <3> QED
      BY <1>3, <3>1
  <2>8. work'[w] = work[w] \/ Onward(w)
    BY <2>6, <2>7, WorkerStep
  <2> QED
    BY <1>3, <2>3, <2>4, <2>5, <2>8 DEF Onward
<1>4. \A w \in Workers :
        (work'[w].step = "finish" /\ work'[w].result = "success" /\ Holds(w)')
          => work'[w].k \in Known'
  BY <1>3
<1>5. \A w \in Workers : (work'[w].step = "reply" /\ work'[w].answer = "accepted")
        => work'[w].id > 0
  BY <1>2
<1> QED
  BY <1>1, <1>4, <1>5 DEF DoneInv

\* A task becomes SUCCEEDED when its holder finishes it with success, and its
\* message stays known from then on, since nobody holds the task.
LEMMA SuccessStep ==
  MailTypeOK /\ DoneInv /\ SucceededAccepted /\ [MailNext]_mailVars => SucceededAccepted'
<1> SUFFICES ASSUME MailTypeOK, DoneInv, SucceededAccepted, [MailNext]_mailVars,
                    NEW k \in Keys, task'[k].state = "SUCCEEDED"
             PROVE  k \in Known'
  BY DEF SucceededAccepted, Known
<1>1. CASE task'[k] = task[k]
  <2>1. k \in Known /\ task[k].state # "RUNNING"
    BY <1>1 DEF SucceededAccepted, Known
  <2> QED
    BY <2>1, KnownStays DEF Holds
<1>2. ASSUME NEW w \in Workers, Finish(w), Holds(w), work[w].k = k, mail' = mail
      PROVE  k \in Known'
  <2>1. work[w] \in FinishJob
    BY <1>2, MailJobKinds DEF Finish, MailTypeOK
  <2>2. task'[k].state = StateAfter(work[w].result, work[w].attempt)
    BY <1>2 DEF Finish, Ended, MailTypeOK
  <2>3. work[w].result = "success"
    BY <2>1, <2>2, OutcomeOver DEF FinishJob
  <2>4. k \in Known
    BY <1>2, <2>3 DEF DoneInv, Finish
  <2> QED
    BY <1>2, <2>4 DEF Known
<1>3. ~ \E w \in Workers : Claim(w, k)
  BY DEF Claim, MailTypeOK
<1>4. ~Exhaust(k) /\ ~Lapse(k)
  BY DEF Exhaust, Lapse, Ended, MailTypeOK, Task
<1>5. task'[k] # [task[k] EXCEPT !.state = "READY"]
  BY DEF MailTypeOK, Task
<1> QED
  BY <1>1, <1>2, <1>3, <1>4, <1>5, TaskStep

\* A task that succeeded means a message Resend accepted and the row knows.
THEOREM SuccessMeansAccepted == MailSpec => []SucceededAccepted
BY DoneInit, DoneStep, SuccessStep, EmailTypes, PTL DEF MailSpec
=============================================================================
