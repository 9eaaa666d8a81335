------------------------------ MODULE Delivery ------------------------------
(***************************************************************************)
(* What the delivery of an order looks like from outside: one courier at a *)
(* time takes it out, and it ends delivered or cancelled, never both.  An  *)
(* order can be cancelled only while no courier has it.                    *)
(***************************************************************************)
CONSTANTS Orders

VARIABLE phase

Phases == {"UNASSIGNED", "ASSIGNED", "OUT_FOR_DELIVERY", "DELIVERED",
           "DELIVERY_FAILED", "CANCELED"}
Idle == {"UNASSIGNED", "DELIVERY_FAILED"}

Init == phase = [o \in Orders |-> "UNASSIGNED"]

Move(o, from, to) ==
  /\ phase[o] \in from
  /\ phase' = [phase EXCEPT ![o] = to]

\* Assigning an assigned order is a reassignment.
Assign(o) == Move(o, Idle \cup {"ASSIGNED"}, "ASSIGNED")
SetOut(o) == Move(o, {"ASSIGNED"}, "OUT_FOR_DELIVERY")
HandOver(o) == Move(o, {"OUT_FOR_DELIVERY"}, "DELIVERED")
Fail(o) == Move(o, {"OUT_FOR_DELIVERY"}, "DELIVERY_FAILED")
Cancel(o) == Move(o, Idle, "CANCELED")

Next == \E o \in Orders :
  Assign(o) \/ SetOut(o) \/ HandOver(o) \/ Fail(o) \/ Cancel(o)

Spec == Init /\ [][Next]_phase
=============================================================================
