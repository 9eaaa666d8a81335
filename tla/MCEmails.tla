----------------------------- MODULE MCEmails ------------------------------
(* Values of the constants of Emails for TLC. *)
EXTENDS Emails

CONSTANTS m1, m2, w1, w2

OneMessage == {m1}
TwoMessages == {m1, m2}
TwoWorkers == {w1, w2}
=============================================================================
