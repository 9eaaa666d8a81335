----------------------------- MODULE TaskQueue ------------------------------
(***************************************************************************)
(* What the durable tasks promise: a task is attempted a bounded number of *)
(* times, one attempt is concluded once, and a concluded task stays so.    *)
(* Module Tasks has the leases and tokens that make the server keep it.    *)
(***************************************************************************)
EXTENDS Naturals

CONSTANTS
  Keys,        \* business keys of tasks
  MaxAttempts  \* attempts a task is given

VARIABLES
  phase,  \* "none", "waiting", "tried" or "over"
  tries   \* attempts begun

Init == phase = [k \in Keys |-> "none"] /\ tries = [k \in Keys |-> 0]

Add(k) ==
  /\ phase[k] = "none"
  /\ phase' = [phase EXCEPT ![k] = "waiting"]
  /\ UNCHANGED tries

\* An attempt begins; the one before it may have been abandoned.
Try(k) ==
  /\ phase[k] \in {"waiting", "tried"}
  /\ tries[k] < MaxAttempts
  /\ phase' = [phase EXCEPT ![k] = "tried"]
  /\ tries' = [tries EXCEPT ![k] = @ + 1]

\* It is put off while attempts are left, or the task is over.
PutOff(k) ==
  /\ phase[k] = "tried" /\ tries[k] < MaxAttempts
  /\ phase' = [phase EXCEPT ![k] = "waiting"]
  /\ UNCHANGED tries
End(k) ==
  /\ phase[k] = "tried"
  /\ phase' = [phase EXCEPT ![k] = "over"]
  /\ UNCHANGED tries

Next == \E k \in Keys : Add(k) \/ Try(k) \/ PutOff(k) \/ End(k)

Spec == Init /\ [][Next]_<<phase, tries>>
=============================================================================
