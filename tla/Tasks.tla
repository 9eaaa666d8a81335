------------------------------- MODULE Tasks --------------------------------
(***************************************************************************)
(* The durable task queue, operations_tasks: a worker claims a due task    *)
(* under a lease of 60 seconds, works on it outside any transaction, and   *)
(* finishes it only while its lease lasts.  A lease that runs out frees    *)
(* the task whether its worker died or is merely slow.  Backoff only       *)
(* delays a claim, so a READY task may be claimed at any time.             *)
(*                                                                         *)
(* A lease token is random.  A worker holds one lease at a time, so the    *)
(* worker that made the last claim stands for its token.                   *)
(***************************************************************************)
EXTENDS Naturals

CONSTANTS
  Keys,         \* business keys
  Workers,      \* bound: processes running the task runner
  MaxAttempts,  \* attempts a task is given; 8 in the code
  MaxTrouble    \* bound: workers that die and live ones that outlast a lease

ASSUME TaskAssumption ==
  /\ MaxAttempts \in Nat \ {0}
  /\ MaxTrouble \in Nat

VARIABLES
  task,    \* operations_tasks, by business key
  work,    \* what each worker is at; "k" is the task it was given
  trouble  \* crashes and slow workers so far

queue == <<task, work, trouble>>

Idle == [step |-> "idle"]
NoWorker == "nobody"
ASSUME WorkerAssumption == NoWorker \notin Workers

Over == {"SUCCEEDED", "FAILED", "REVIEW_REQUIRED"}
TaskState == {"NONE", "READY", "RUNNING"} \cup Over
Task == [state : TaskState, attempt : 0..MaxAttempts,
         token : Workers \cup {NoWorker}, live : BOOLEAN]
NoTask == [state |-> "NONE", attempt |-> 0, token |-> NoWorker, live |-> FALSE]
Result == {"success", "retryable", "permanent", "ambiguous"}

QueueInit ==
  /\ task = [k \in Keys |-> NoTask]
  /\ work = [w \in Workers |-> Idle]
  /\ trouble = 0

Working(w, k) == work[w] # Idle /\ work[w].k = k
Go(w, job) == work' = [work EXCEPT ![w] = job]
Trouble == trouble < MaxTrouble /\ trouble' = trouble + 1

\* enqueue, in the transaction of the business change
Enqueued(k) == [task EXCEPT ![k].state = "READY"]

\* Mutant of Claimable: a task whose worker died is never taken over.
ClaimableReady(k) == task[k].state = "READY"

Claimable(k) ==
  \/ task[k].state = "READY"
  \/ task[k].state = "RUNNING" /\ ~task[k].live

\* Mutant of Claim: the attempts are not counted against the bound.
ClaimForever(w, k) ==
  /\ work[w] = Idle /\ Claimable(k)
  /\ task' = [task EXCEPT ![k] =
       [state |-> "RUNNING", attempt |-> @.attempt + 1, token |-> w, live |-> TRUE]]
  /\ Go(w, [step |-> "start", k |-> k, attempt |-> task[k].attempt + 1])
  /\ UNCHANGED trouble

\* claimDue
Claim(w, k) ==
  /\ work[w] = Idle /\ Claimable(k)
  /\ task[k].attempt < MaxAttempts
  /\ task' = [task EXCEPT ![k] =
       [state |-> "RUNNING", attempt |-> @.attempt + 1, token |-> w, live |-> TRUE]]
  /\ Go(w, [step |-> "start", k |-> k, attempt |-> task[k].attempt + 1])
  /\ UNCHANGED trouble

\* lease_token = NULL, lease_expires_at = NULL
Ended(t, state) ==
  [state |-> state, attempt |-> t.attempt, token |-> NoWorker, live |-> FALSE]

\* claimDue finds the attempts used up by workers that never finished.
Exhaust(k) ==
  /\ \E w \in Workers : work[w] = Idle
  /\ Claimable(k)
  /\ task[k].attempt >= MaxAttempts
  /\ task' = [task EXCEPT ![k] = Ended(@, "REVIEW_REQUIRED")]
  /\ UNCHANGED <<work, trouble>>

\* Sixty seconds pass; the worker may be dead, or slow.
Lapse(k) ==
  /\ task[k].state = "RUNNING" /\ task[k].live
  /\ IF Working(task[k].token, k) THEN Trouble ELSE UNCHANGED trouble
  /\ task' = [task EXCEPT ![k].live = FALSE]
  /\ UNCHANGED work

Die(w) ==
  /\ work[w] # Idle
  /\ Trouble
  /\ Go(w, Idle)
  /\ UNCHANGED task

\* Mutant of Holds: the token is compared, the state and the lease are not.
HoldsToken(w) == task[work[w].k].token \in {w, NoWorker}

\* state = 'RUNNING' AND lease_token = ? AND lease_expires_at > UTC_TIMESTAMP(3)
Holds(w) ==
  LET t == task[work[w].k] IN t.state = "RUNNING" /\ t.token = w /\ t.live

\* nextTaskOutcome for an e-mail
StateAfter(result, attempt) ==
  CASE result = "success"   -> "SUCCEEDED"
    [] result = "ambiguous" -> "REVIEW_REQUIRED"
    [] result = "permanent" -> "FAILED"
    [] result = "retryable" -> IF attempt >= MaxAttempts THEN "FAILED" ELSE "READY"

\* finish: a worker that lost its lease changes nothing.
Finish(w) ==
  /\ work[w].step = "finish"
  /\ task' = IF Holds(w)
             THEN [task EXCEPT ![work[w].k] =
                    Ended(@, StateAfter(work[w].result, work[w].attempt))]
             ELSE task
  /\ Go(w, Idle)
  /\ UNCHANGED trouble
=============================================================================
