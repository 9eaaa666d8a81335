----------------------------- MODULE MCRewards ------------------------------
(* One reward that costs a point and one ordinary promotion, both for one use. *)
EXTENDS Rewards, TLC
CONSTANTS u1, u2, f1, f2, f3, v1, v2, reward, sale

TwoCustomers == {u1, u2}
TwoFlows == {f1, f2}
ThreeFlows == {f1, f2, f3}
OneVoucher == {v1}
TwoVouchers == {v1, v2}
OneReward == {reward}
OneSale == {sale}
Both == {reward, sale}
MCCost == [p \in Promos |-> IF p = reward THEN 1 ELSE 0]
MCLimit == [p \in Promos |-> 1]
Symmetry == Permutations(TwoCustomers) \cup Permutations(Flows) \cup Permutations(Vouchers)
=============================================================================
