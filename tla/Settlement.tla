----------------------------- MODULE Settlement -----------------------------
(***************************************************************************)
(* What the payment side of a checkout promises, without saying how.  Each *)
(* account asks one price.  Money the customer sent is either matched by   *)
(* one fulfilment of exactly that price, or available to be sent back, and *)
(* never both; a customer who withdrew is not fulfilled any more.          *)
(***************************************************************************)
EXTENDS Integers

CONSTANTS Accounts, Price

VARIABLES
  received,   \* money verified as received, per account
  refunded,   \* money recorded as sent back
  fulfilled,  \* the goods were sold for it
  withdrawn   \* the customer does not want them any more

vars == <<received, refunded, fulfilled, withdrawn>>

Init ==
  /\ received = [c \in Accounts |-> 0]
  /\ refunded = [c \in Accounts |-> 0]
  /\ fulfilled = [c \in Accounts |-> FALSE]
  /\ withdrawn = [c \in Accounts |-> FALSE]

\* More money is found to have arrived, at any time and in any amount.
Receive(c) ==
  /\ received'[c] > received[c]
  /\ received' = [received EXCEPT ![c] = received'[c]]
  /\ UNCHANGED <<refunded, fulfilled, withdrawn>>

\* A withdrawal may be asked for at any time; after fulfilment it changes
\* nothing.
Withdraw(c) ==
  /\ withdrawn' = [withdrawn EXCEPT ![c] = TRUE]
  /\ UNCHANGED <<received, refunded, fulfilled>>

Fulfil(c) ==
  /\ ~fulfilled[c] /\ ~withdrawn[c]
  /\ received[c] = Price /\ refunded[c] = 0
  /\ fulfilled' = [fulfilled EXCEPT ![c] = TRUE]
  /\ UNCHANGED <<received, refunded, withdrawn>>

Refund(c) ==
  /\ ~fulfilled[c]
  /\ refunded'[c] > refunded[c] /\ refunded'[c] <= received[c]
  /\ refunded' = [refunded EXCEPT ![c] = refunded'[c]]
  /\ UNCHANGED <<received, fulfilled, withdrawn>>

Next == \E c \in Accounts : Receive(c) \/ Withdraw(c) \/ Fulfil(c) \/ Refund(c)

Spec == Init /\ [][Next]_vars
=============================================================================
