---------------------------- MODULE RewardProofs -----------------------------
(***************************************************************************)
(* Theorems about Rewards, for any customers, promotions, prices, limits   *)
(* and points, and any finite number of purchases and vouchers.            *)
(***************************************************************************)
EXTENDS Rewards, SumTheorems, FiniteSetTheorems, TLAPS

-----------------------------------------------------------------------------
(* Types *)

AccountsOK ==
  /\ balance \in [Customers -> 0..MaxPoints]
  /\ ledger \subseteq EventKey

LEMMA CreditType ==
  ASSUME AccountsOK, NEW u \in Customers, NEW points \in Nat, NEW key \in EventKey,
         Credit(u, points, key)
  PROVE  AccountsOK'
<1>1. CASE key \in ledger
  BY <1>1 DEF Credit, AccountsOK, accounts
<1>2. CASE key \notin ledger
  <2>1. balance[u] + points \in 0..MaxPoints
    BY <1>2, RewardAssumption DEF Credit, AccountsOK
  <2> QED
    BY <1>2, <2>1 DEF Credit, AccountsOK
<1> QED
  BY <1>1, <1>2

LEMMA DebitType ==
  ASSUME AccountsOK, NEW u \in Customers, NEW points \in Nat, NEW key \in EventKey,
         Debit(u, points, key)
  PROVE  AccountsOK'
<1>1. CASE key \in ledger
  BY <1>1 DEF Debit, AccountsOK, accounts
<1>2. CASE key \notin ledger
  <2>1. balance[u] - points \in 0..MaxPoints
    BY <1>2, RewardAssumption DEF Debit, AccountsOK
  <2> QED
    BY <1>2, <2>1 DEF Debit, AccountsOK
<1> QED
  BY <1>1, <1>2

LEMMA FlowKey ==
  ASSUME NEW f \in Flows,
         NEW kind \in {"redeem", "release", "order redeem", "cancel release", "earn"}
  PROVE  <<kind, f>> \in EventKey
BY DEF EventKey

LEMMA DealType ==
  ASSUME TypeOK, NEW f \in Flows
  PROVE  /\ AccountsOK
         /\ deal[f].user \in Buyers /\ (deal[f].user # Guest => deal[f].user \in Customers)
         /\ deal[f].points \in Nat /\ order[f].points \in Nat
         /\ deal[f].promo \in Promos \cup {NoPromo}
BY RewardAssumption DEF TypeOK, AccountsOK, Deal, Buyers, Order

\* Whatever a step of a purchase takes, earns or returns, the accounts keep their types.
LEMMA AccountTypes ==
  ASSUME TypeOK, NEW f \in Flows,
         \/ TakePoints(f, "redeem") \/ TakePoints(f, "order redeem")
         \/ Award(f) \/ ReturnPoints(f) \/ RestorePoints(f) \/ UNCHANGED accounts
  PROVE  AccountsOK'
<1> USE DealType, FlowKey
<1>1. CASE UNCHANGED accounts
  BY <1>1 DEF accounts, AccountsOK
<1>2. ASSUME NEW key \in {"redeem", "order redeem"}, TakePoints(f, key), ~UNCHANGED accounts
      PROVE  AccountsOK'
  BY <1>2, DebitType DEF TakePoints
<1>3. CASE Award(f) /\ ~UNCHANGED accounts
  BY <1>3, CreditType, RewardAssumption DEF Award
<1>4. CASE ReturnPoints(f) /\ ~UNCHANGED accounts
  BY <1>4, CreditType DEF ReturnPoints
<1>5. CASE RestorePoints(f) /\ ~UNCHANGED accounts
  BY <1>5, CreditType DEF RestorePoints
<1> QED
  BY <1>1, <1>2, <1>3, <1>4, <1>5

\* A voucher that a step moves keeps its owner and promotion.
Moved(r, status, flow) == [r EXCEPT !.status = status, !.flow = flow]

LEMMA MovedType ==
  ASSUME NEW r \in Voucher, NEW status \in {"AVAILABLE", "RESERVED", "REDEEMED"},
         NEW flow \in SUBSET Flows
  PROVE  /\ Moved(r, status, flow) \in Voucher
         /\ Moved(r, status, flow).owner = r.owner /\ Moved(r, status, flow).promo = r.promo
         /\ Moved(r, status, flow).status = status /\ Moved(r, status, flow).flow = flow
BY DEF Moved, Voucher

LEMMA MoveTypes ==
  ASSUME TypeOK, NEW vs, NEW status \in {"AVAILABLE", "RESERVED", "REDEEMED"},
         NEW flow \in SUBSET Flows,
         voucher' = [v \in Vouchers |->
           IF v \in vs THEN Moved(voucher[v], status, flow) ELSE voucher[v]]
  PROVE  voucher' \in [Vouchers -> Voucher]
BY MovedType DEF TypeOK

LEMMA UseTypes ==
  ASSUME TypeOK, NEW f \in Flows, NEW redeemed \in {"RESERVED", "CONSUMED"},
         NEW held \in {"RESERVED", "REDEEMED"}, UsePromo(f, redeemed, held)
  PROVE  /\ voucher' \in [Vouchers -> Voucher]
         /\ redemption' \in [Flows -> {"NONE", "RESERVED", "RELEASED", "CONSUMED"}]
<1>1. CASE UNCHANGED <<redemption, voucher>>
  BY <1>1 DEF TypeOK
<1>2. ASSUME NEW own, redemption' = [redemption EXCEPT ![f] = redeemed], MoveVouchers(own, held, {f})
      PROVE  /\ voucher' \in [Vouchers -> Voucher]
             /\ redemption' \in [Flows -> {"NONE", "RESERVED", "RELEASED", "CONSUMED"}]
  <2>1. {f} \in SUBSET Flows /\ held \in {"AVAILABLE", "RESERVED", "REDEEMED"}
    OBVIOUS
  <2>2. voucher' \in [Vouchers -> Voucher]
    BY <1>2, <2>1, MoveTypes DEF MoveVouchers, Moved
  <2> QED
    BY <1>2, <2>2 DEF TypeOK
<1> QED
  BY <1>1, <1>2 DEF UsePromo

LEMMA TypeInit == Init => TypeOK
<1> SUFFICES ASSUME Init PROVE TypeOK
  OBVIOUS
<1>1. NoVoucher \in Voucher /\ NoDeal \in Deal /\ NoView \in View /\ NoOrder \in Order
  BY DEF NoVoucher, Voucher, NoDeal, Deal, NoView, View, NoOrder, Order, Buyers
<1> QED
  BY <1>1, RewardAssumption DEF Init, TypeOK

LEMMA TypeStep == TypeOK /\ [Next]_vars => TypeOK'
<1> SUFFICES ASSUME TypeOK, [Next]_vars PROVE TypeOK'
  OBVIOUS
<1>1. ASSUME NEW u \in Customers, NEW p \in Promos, NEW v \in Vouchers, Claim(u, p, v)
      PROVE  TypeOK'
  <2>1. <<"claim", v>> \in EventKey /\ Cost[p] \in Nat
    BY RewardAssumption DEF EventKey
  <2>2. AccountsOK
    BY DEF TypeOK, AccountsOK
  <2>3. AccountsOK'
    BY <1>1, <2>1, <2>2, DebitType DEF Claim
  <2>4. [status |-> "AVAILABLE", owner |-> u, promo |-> p, flow |-> {}] \in Voucher
    BY DEF Voucher, Buyers
  <2>5. voucher' \in [Vouchers -> Voucher]
    BY <1>1, <2>4 DEF Claim, TypeOK
  <2> QED
    BY <1>1, <2>3, <2>5 DEF Claim, TypeOK, AccountsOK, purchase
<1>2. ASSUME NEW p \in Promos, Switch(p)
      PROVE  TypeOK'
  BY <1>2 DEF Switch, TypeOK, accounts, purchase
<1>3. ASSUME NEW f \in Flows, NEW by \in {"checkout", "cash"}, NEW u \in Buyers,
             NEW p \in Promos \cup {NoPromo}, NEW n \in {0, Points}, Begin(f, by, u, p, n)
      PROVE  TypeOK'
  <2>1. Snapshot(by, p) \in View
    BY DEF Snapshot, View, With, Free
  <2>2. [user |-> u, promo |-> p, points |-> n] \in Deal
    BY DEF Deal
  <2> QED
    BY <1>3, <2>1, <2>2 DEF Begin, TypeOK, accounts
<1>4. ASSUME NEW f \in Flows, Rollback(f)
      PROVE  TypeOK'
  <2>1. NoDeal \in Deal /\ NoView \in View
    BY DEF NoDeal, Deal, NoView, View, Buyers
  <2> QED
    BY <1>4, <2>1 DEF Rollback, TypeOK, accounts
<1>5. ASSUME NEW f \in Flows, Reserve(f) \/ PlaceCash(f)
      PROVE  TypeOK'
  <2>1. NoView \in View
    BY DEF NoView, View
  <2>2. AccountsOK'
    BY <1>5, AccountTypes DEF Reserve, PlaceCash
  <2>3. /\ voucher' \in [Vouchers -> Voucher]
        /\ redemption' \in [Flows -> {"NONE", "RESERVED", "RELEASED", "CONSUMED"}]
    BY <1>5, UseTypes DEF Reserve, PlaceCash
  <2>4. [state |-> "PENDING", paid |-> "pending", provider |-> "cash",
         points |-> deal[f].points] \in Order
    BY DEF TypeOK, Deal, Order
  <2>5. order' \in [Flows -> Order]
    BY <1>5, <2>4 DEF Reserve, PlaceCash, TypeOK
  <2>6. checkout' \in [Flows -> {"NONE", "PENDING", "RELEASED", "CONSUMED"}]
    <3>1. checkout' = [checkout EXCEPT ![f] = "PENDING"] \/ UNCHANGED checkout
      BY <1>5 DEF Reserve, PlaceCash
    <3> QED
      BY <3>1 DEF TypeOK
  <2> QED
    <3>1. view' = [view EXCEPT ![f] = NoView] /\ UNCHANGED <<active, deal, lapsed, attempt, courier>>
      BY <1>5 DEF Reserve, PlaceCash
    <3>2. view' \in [Flows -> View]
      BY <2>1, <3>1 DEF TypeOK
    <3> QED
      BY <2>2, <2>3, <2>5, <2>6, <3>1, <3>2 DEF TypeOK, AccountsOK
<1>6. ASSUME NEW f \in Flows, Lapse(f) \/ Pay(f) \/ RequestCancel(f)
      PROVE  TypeOK'
  <2>1. lapsed' \subseteq Flows
    BY <1>6 DEF Lapse, Pay, RequestCancel, TypeOK
  <2>2. attempt' \in [Flows -> [paid : BOOLEAN, cancelled : BOOLEAN]]
    <3>1. CASE Lapse(f)
      BY <3>1 DEF Lapse, TypeOK
    <3>2. CASE Pay(f)
      BY <3>2 DEF Pay, TypeOK
    <3>3. CASE RequestCancel(f)
      BY <3>3 DEF RequestCancel, TypeOK
    <3> QED
      BY <1>6, <3>1, <3>2, <3>3
  <2>3. UNCHANGED <<accounts, voucher, active, purchase, courier>>
    BY <1>6 DEF Lapse, Pay, RequestCancel
  <2> QED
    BY <2>1, <2>2, <2>3 DEF TypeOK, accounts, purchase
<1>7. ASSUME NEW f \in Flows, FinishCancel(f)
      PROVE  TypeOK'
  <2>1. AccountsOK'
    BY <1>7, AccountTypes DEF FinishCancel
  <2>2. voucher' \in [Vouchers -> Voucher]
    <3>1. voucher' = [v \in Vouchers |->
            IF v \in ReservedBy(f) THEN Moved(voucher[v], "AVAILABLE", {}) ELSE voucher[v]]
      BY <1>7 DEF FinishCancel, MoveVouchers, Moved
    <3> QED
      BY <3>1, MovedType DEF TypeOK
  <2> QED
    BY <1>7, <2>1, <2>2 DEF FinishCancel, TypeOK, AccountsOK
<1>8. ASSUME NEW f \in Flows, Finalize(f)
      PROVE  TypeOK'
  <2>1. AccountsOK'
    BY <1>8, AccountTypes DEF Finalize
  <2>2. voucher' \in [Vouchers -> Voucher]
    <3>1. voucher' = [v \in Vouchers |->
            IF v \in ReservedBy(f) THEN Moved(voucher[v], "REDEEMED", {f}) ELSE voucher[v]]
      BY <1>8 DEF Finalize, MoveVouchers, Moved
    <3> QED
      BY <3>1, MovedType DEF TypeOK
  <2>3. [state |-> "PENDING", paid |-> "paid", provider |-> "payos",
         points |-> deal[f].points] \in Order
    BY DEF TypeOK, Deal, Order
  <2>4. order' \in [Flows -> Order]
    BY <1>8, <2>3 DEF Finalize, TypeOK
  <2> QED
    BY <1>8, <2>1, <2>2, <2>4 DEF Finalize, TypeOK, AccountsOK
<1>9. ASSUME NEW f \in Flows, ConfirmCod(f) \/ Deliver(f) \/ CancelOrder(f) \/ Refund(f)
      PROVE  TypeOK'
  <2>1. AccountsOK'
    BY <1>9, AccountTypes DEF ConfirmCod, Deliver, CancelOrder, Refund
  <2>2. order' \in [Flows -> Order]
    <3>1. order[f] \in Order /\ order \in [Flows -> Order]
      BY DEF TypeOK
    <3>2. /\ [order[f] EXCEPT !.paid = "paid"] \in Order
          /\ [order[f] EXCEPT !.state = "DONE", !.paid = "paid"] \in Order
          /\ [order[f] EXCEPT !.paid = "refunded"] \in Order
          /\ [order[f] EXCEPT !.state = "CANCELED"] \in Order
      BY <3>1 DEF Order
    <3>3. \/ order' = [order EXCEPT ![f] = [order[f] EXCEPT !.paid = "paid"]]
          \/ order' = [order EXCEPT ![f] = [order[f] EXCEPT !.state = "DONE", !.paid = "paid"]]
          \/ order' = [order EXCEPT ![f] = [order[f] EXCEPT !.paid = "refunded"]]
          \/ order' = [order EXCEPT ![f] = [order[f] EXCEPT !.state = "CANCELED"]]
      BY <1>9 DEF ConfirmCod, Deliver, CancelOrder, Refund
    <3> QED
      BY <3>1, <3>2, <3>3
  <2>3. courier' \in [Flows -> {"away", "unearned", "earned"}]
    BY <1>9 DEF ConfirmCod, Deliver, CancelOrder, Refund, TypeOK
  <2> QED
    BY <1>9, <2>1, <2>2, <2>3 DEF ConfirmCod, Deliver, CancelOrder, Refund, TypeOK, AccountsOK
<1>10. ASSUME NEW f \in Flows, BeginDelivery(f) \/ AbandonDelivery(f)
       PROVE  TypeOK'
  BY <1>10 DEF BeginDelivery, AbandonDelivery, TypeOK, accounts, purchase
<1>11. CASE UNCHANGED vars
  BY <1>11 DEF vars, TypeOK
<1> QED
  BY <1>1, <1>2, <1>3, <1>4, <1>5, <1>6, <1>7, <1>8, <1>9, <1>10, <1>11 DEF Next, Offer

-----------------------------------------------------------------------------
(* The inductive invariant *)

\* A purchase: what its redemption says of the checkout and the order.
FlowOK(f) ==
  /\ view[f] # NoView => checkout[f] = "NONE" /\ order[f].state = "NONE"
  /\ checkout[f] = "NONE" /\ order[f].state = "NONE" => redemption[f] = "NONE"
  /\ Open(f) => order[f].state = "NONE"
  /\ redemption[f] # "NONE" => deal[f].promo # NoPromo
  /\ redemption[f] = "RESERVED" <=> Open(f) /\ deal[f].promo # NoPromo
  /\ redemption[f] = "CONSUMED" <=> order[f].state # "NONE" /\ deal[f].promo # NoPromo
  /\ f \in lapsed => checkout[f] # "NONE"

\* A voucher that is held or used is by the purchase of its owner that redeems its
\* promotion.
HeldBy(v, f) ==
  /\ voucher[v].flow = {f}
  /\ voucher[v].promo = deal[f].promo /\ voucher[v].owner = deal[f].user
VoucherOK(v) ==
  /\ voucher[v].status \in {"NONE", "AVAILABLE"} => voucher[v].flow = {}
  /\ voucher[v].status = "RESERVED" =>
       \E f \in Flows : HeldBy(v, f) /\ redemption[f] = "RESERVED"
  /\ voucher[v].status = "REDEEMED" =>
       \E f \in Flows : HeldBy(v, f) /\ redemption[f] = "CONSUMED"

\* A purchase that uses a reward has a voucher, and two vouchers are never in one.
NeedsVoucher(f) == deal[f].promo # NoPromo /\ Cost[deal[f].promo] > 0
VoucherFor(f, status) ==
  \E v \in Vouchers : voucher[v].status = status /\ voucher[v].flow = {f}
BackedFlow(f) ==
  NeedsVoucher(f) =>
    /\ redemption[f] = "RESERVED" => VoucherFor(f, "RESERVED")
    /\ redemption[f] = "CONSUMED" => VoucherFor(f, "REDEEMED")
Apart ==
  \A v, w \in Vouchers :
    voucher[v].flow = voucher[w].flow /\ voucher[v].flow # {} => v = w

VouchersOK ==
  /\ \A v \in Vouchers : VoucherOK(v)
  /\ \A f \in Flows : BackedFlow(f)
  /\ Apart

RewardInv == TypeOK /\ (\A f \in Flows : FlowOK(f)) /\ VouchersOK

LEMMA RewardInit == Init => RewardInv
<1> SUFFICES ASSUME Init PROVE RewardInv
  OBVIOUS
<1>1. \A f \in Flows : FlowOK(f)
  BY DEF Init, FlowOK, Open, NoOrder, NoDeal
<1>2. VouchersOK
  BY DEF Init, VouchersOK, VoucherOK, BackedFlow, Apart, NoVoucher
<1> QED
  BY <1>1, <1>2, TypeInit DEF RewardInv

\* A step that leaves vouchers, deals and redemptions alone keeps what is said of them.
LEMMA SameVouchers ==
  ASSUME VouchersOK, UNCHANGED <<voucher, deal, redemption>>
  PROVE  VouchersOK'
BY DEF VouchersOK, VoucherOK, HeldBy, BackedFlow, NeedsVoucher, VoucherFor, Apart

\* So does one that changes the deal of a purchase that redeems nothing.
LEMMA NewDeal ==
  ASSUME RewardInv, NEW f \in Flows, redemption[f] = "NONE", UNCHANGED <<voucher, redemption>>,
         \A g \in Flows : g # f => deal'[g] = deal[g]
  PROVE  VouchersOK'
<1>1. \A v \in Vouchers : VoucherOK(v)'
  <2>1. \A v \in Vouchers, g \in Flows : HeldBy(v, g) /\ redemption[g] # "NONE" => HeldBy(v, g)'
    BY DEF HeldBy
  <2> QED
    BY <2>1 DEF RewardInv, VouchersOK, VoucherOK
<1>2. \A g \in Flows : BackedFlow(g)'
  BY DEF RewardInv, VouchersOK, BackedFlow, NeedsVoucher, VoucherFor
<1>3. Apart'
  BY DEF RewardInv, VouchersOK, Apart
<1> QED
  BY <1>1, <1>2, <1>3 DEF VouchersOK

\* The vouchers a step moves pass from purchase f to where its redemption goes.
LEMMA MovedVouchers ==
  ASSUME RewardInv, NEW f \in Flows, NEW vs \in SUBSET Vouchers,
         NEW status \in {"AVAILABLE", "RESERVED", "REDEEMED"}, NEW flow \in {{}, {f}},
         \A v \in Vouchers :
           voucher'[v] = IF v \in vs THEN Moved(voucher[v], status, flow) ELSE voucher[v],
         UNCHANGED deal,
         \A g \in Flows : g # f => redemption'[g] = redemption[g],
         status = "AVAILABLE" => flow = {},
         status # "AVAILABLE" =>
           /\ flow = {f}
           /\ \A v \in vs : voucher[v].promo = deal[f].promo /\ voucher[v].owner = deal[f].user
           /\ vs # {} => redemption'[f] = IF status = "RESERVED" THEN "RESERVED" ELSE "CONSUMED",
         \A v \in vs : voucher[v].flow \in {{}, {f}},
         \A v \in Vouchers \ vs : voucher[v].flow # {f},
         \A v, w \in vs : v = w,
         deal[f].promo # NoPromo /\ Cost[deal[f].promo] > 0 =>
           /\ redemption'[f] = "RESERVED" => vs # {} /\ status = "RESERVED"
           /\ redemption'[f] = "CONSUMED" => vs # {} /\ status = "REDEEMED"
  PROVE  VouchersOK'
<1>1. /\ \A v \in Vouchers :
           voucher'[v].owner = voucher[v].owner /\ voucher'[v].promo = voucher[v].promo
      /\ \A v \in vs : voucher'[v].status = status /\ voucher'[v].flow = flow
      /\ \A v \in Vouchers \ vs : voucher'[v] = voucher[v]
  <2>1. flow \in SUBSET Flows /\ \A v \in Vouchers : voucher[v] \in Voucher
    BY DEF RewardInv, TypeOK
  <2> QED
    BY <2>1, MovedType
<1>2. ASSUME NEW v \in Vouchers
      PROVE  VoucherOK(v)'
  <2>1. CASE v \in vs
    BY <1>1, <2>1 DEF VoucherOK, HeldBy
  <2>2. CASE v \notin vs
    <3>1. VoucherOK(v) /\ voucher[v].flow # {f} /\ voucher'[v] = voucher[v]
      BY <1>1, <2>2 DEF RewardInv, VouchersOK
    <3>2. \A g \in Flows : HeldBy(v, g) => HeldBy(v, g)' /\ redemption'[g] = redemption[g]
      BY <3>1 DEF HeldBy
    <3> QED
      BY <3>1, <3>2 DEF VoucherOK
  <2> QED
    BY <2>1, <2>2
<1>3. ASSUME NEW g \in Flows
      PROVE  BackedFlow(g)'
  <2>1. CASE g = f
    <3> USE DEF NeedsVoucher
    <3>1. ASSUME vs # {}, flow = {f}
          PROVE  \E v \in Vouchers : voucher'[v].status = status /\ voucher'[v].flow = {f}
      <4>1. PICK v \in vs : TRUE
        BY <3>1
      <4> QED
        BY <1>1, <3>1, <4>1
    <3>2. ASSUME NeedsVoucher(f), redemption'[f] = "RESERVED"
          PROVE  VoucherFor(f, "RESERVED")'
      BY <3>1, <3>2 DEF VoucherFor
    <3>3. ASSUME NeedsVoucher(f), redemption'[f] = "CONSUMED"
          PROVE  VoucherFor(f, "REDEEMED")'
      BY <3>1, <3>3 DEF VoucherFor
    <3>4. NeedsVoucher(f)' => NeedsVoucher(f)
      OBVIOUS
    <3> QED
      BY <2>1, <3>2, <3>3, <3>4 DEF BackedFlow
  <2>2. CASE g # f
    <3>1. \A to \in {"RESERVED", "REDEEMED"} : VoucherFor(g, to) => VoucherFor(g, to)'
      <4>1. {g} # {f} /\ {g} # {}
        BY <2>2
      <4>2. \A v \in Vouchers : voucher[v].flow = {g} => voucher'[v] = voucher[v]
        BY <1>1, <4>1
      <4> QED
        BY <4>2 DEF VoucherFor
    <3>2. BackedFlow(g) /\ redemption'[g] = redemption[g]
      BY <2>2 DEF RewardInv, VouchersOK
    <3> QED
      BY <3>1, <3>2 DEF BackedFlow, NeedsVoucher
  <2> QED
    BY <2>1, <2>2
<1>4. Apart'
  <2> SUFFICES ASSUME NEW v \in Vouchers, NEW w \in Vouchers,
                      voucher'[v].flow = voucher'[w].flow, voucher'[v].flow # {}
               PROVE  v = w
    BY DEF Apart
  <2>1. CASE v \in vs /\ w \in vs
    BY <2>1
  <2>2. CASE v \notin vs /\ w \notin vs
    BY <1>1, <2>2 DEF RewardInv, VouchersOK, Apart
  <2>3. CASE v \in vs /\ w \notin vs
    BY <1>1, <2>3
  <2>4. CASE v \notin vs /\ w \in vs
    BY <1>1, <2>4
  <2> QED
    BY <2>1, <2>2, <2>3, <2>4
<1> QED
  BY <1>2, <1>3, <1>4 DEF VouchersOK

\* Vouchers that purchase f holds: one at most, reserved for what it redeems.
LEMMA ReservedOf ==
  ASSUME RewardInv, NEW f \in Flows
  PROVE  /\ \A v \in ReservedBy(f) :
              HeldBy(v, f) /\ redemption[f] = "RESERVED" /\ v \in Vouchers
         /\ \A v, w \in ReservedBy(f) : v = w
         /\ \A v \in Vouchers \ ReservedBy(f) :
              voucher[v].flow = {f} => redemption[f] = "CONSUMED"
         /\ NeedsVoucher(f) /\ redemption[f] = "RESERVED" => ReservedBy(f) # {}
<1>1. ASSUME NEW v \in ReservedBy(f)
      PROVE  HeldBy(v, f) /\ redemption[f] = "RESERVED" /\ v \in Vouchers
  <2>1. v \in Vouchers /\ voucher[v].status = "RESERVED" /\ f \in voucher[v].flow
    BY DEF ReservedBy
  <2>2. PICK g \in Flows : HeldBy(v, g) /\ redemption[g] = "RESERVED"
    BY <2>1 DEF RewardInv, VouchersOK, VoucherOK
  <2>3. g = f
    BY <2>1, <2>2 DEF HeldBy
  <2> QED
    BY <2>1, <2>2, <2>3
<1>2. \A v, w \in ReservedBy(f) : v = w
  <2>1. \A v \in ReservedBy(f) : voucher[v].flow = {f} /\ v \in Vouchers
    BY <1>1 DEF HeldBy
  <2> QED
    BY <2>1 DEF RewardInv, VouchersOK, Apart
<1>3. ASSUME NEW v \in Vouchers \ ReservedBy(f), voucher[v].flow = {f}
      PROVE  redemption[f] = "CONSUMED"
  <2>1. voucher[v].status \in {"NONE", "AVAILABLE", "RESERVED", "REDEEMED"}
    BY DEF RewardInv, TypeOK, Voucher
  <2>2. voucher[v].status = "REDEEMED"
    BY <1>3, <2>1 DEF ReservedBy, RewardInv, VouchersOK, VoucherOK
  <2>3. PICK g \in Flows : HeldBy(v, g) /\ redemption[g] = "CONSUMED"
    BY <2>2 DEF RewardInv, VouchersOK, VoucherOK
  <2>4. g = f
    BY <1>3, <2>3 DEF HeldBy
  <2> QED
    BY <2>3, <2>4
<1>4. ASSUME NeedsVoucher(f), redemption[f] = "RESERVED"
      PROVE  ReservedBy(f) # {}
  <2>1. VoucherFor(f, "RESERVED")
    BY <1>4 DEF RewardInv, VouchersOK, BackedFlow
  <2> QED
    BY <2>1 DEF VoucherFor, ReservedBy
<1> QED
  BY <1>1, <1>2, <1>3, <1>4

\* A purchase that redeems nothing yet, and comes to use what its code offers.
LEMMA UsedVouchers ==
  ASSUME RewardInv, NEW f \in Flows, redemption[f] = "NONE", UNCHANGED deal,
         NEW redeemed, NEW held,
         \/ redeemed = "RESERVED" /\ held = "RESERVED"
         \/ redeemed = "CONSUMED" /\ held = "REDEEMED",
         UsePromo(f, redeemed, held)
  PROVE  VouchersOK'
<1>1. CASE deal[f].promo = NoPromo
  <2>1. UNCHANGED <<redemption, voucher>>
    BY <1>1 DEF UsePromo
  <2> QED
    BY <2>1, SameVouchers DEF RewardInv
<1>2. CASE deal[f].promo # NoPromo
  <2>1. PICK own \in Offers(f) : /\ redemption' = [redemption EXCEPT ![f] = redeemed]
                                /\ MoveVouchers(own, held, {f})
    BY <1>2 DEF UsePromo
  <2>2. Cost[deal[f].promo] \in Nat
    BY <1>2, RewardAssumption DEF RewardInv, TypeOK, Deal
  <2>3. /\ own \in SUBSET Vouchers
        /\ \A v, w \in own : v = w
        /\ NeedsVoucher(f) => own # {}
        /\ \A v \in own : /\ voucher[v].status = "AVAILABLE"
                          /\ voucher[v].promo = deal[f].promo
                          /\ voucher[v].owner = deal[f].user
    <3>1. CASE own = {}
      BY <2>1, <2>2, <3>1 DEF Offers, NeedsVoucher
    <3>2. CASE own # {}
      <4>1. PICK v \in Free(deal[f].promo) : own = {v} /\ voucher[v].owner = deal[f].user
        BY <2>1, <3>2 DEF Offers
      <4> QED
        BY <4>1 DEF Free
    <3> QED
      BY <3>1, <3>2
  <2>4. \A v \in own : voucher[v].flow = {}
    BY <2>3 DEF RewardInv, VouchersOK, VoucherOK
  <2>5. ASSUME NEW v \in Vouchers, voucher[v].flow = {f}
        PROVE  FALSE
    <3>1. \A g \in Flows : HeldBy(v, g) => g = f
      BY <2>5 DEF HeldBy
    <3>2. voucher[v].status \in {"NONE", "AVAILABLE", "RESERVED", "REDEEMED"}
      BY DEF RewardInv, TypeOK, Voucher
    <3> QED
      BY <2>5, <3>1, <3>2 DEF RewardInv, VouchersOK, VoucherOK
  <2>6. \A v \in Vouchers :
          voucher'[v] = IF v \in own THEN Moved(voucher[v], held, {f}) ELSE voucher[v]
    BY <2>1 DEF MoveVouchers, Moved
  <2>7. redemption'[f] = redeemed /\ \A g \in Flows : g # f => redemption'[g] = redemption[g]
    BY <2>1 DEF RewardInv, TypeOK
  <2>8. held \in {"AVAILABLE", "RESERVED", "REDEEMED"} /\ {f} \in {{}, {f}}
    OBVIOUS
  <2>9. deal[f].promo # NoPromo /\ Cost[deal[f].promo] > 0 => own # {}
    BY <2>3 DEF NeedsVoucher
  <2>10. CASE held = "RESERVED"
    <3>1. /\ redemption'[f] = "RESERVED"
          /\ \A v \in Vouchers :
               voucher'[v] = IF v \in own THEN Moved(voucher[v], "RESERVED", {f}) ELSE voucher[v]
      BY <2>6, <2>7, <2>10
    <3>2. \A g \in Flows : g # f => redemption'[g] = redemption[g]
      BY <2>7
    <3> QED
      BY <3>1, <3>2, <2>3, <2>4, <2>5, <2>9, MovedVouchers
  <2>11. CASE held = "REDEEMED"
    BY <2>11, <2>3, <2>4, <2>5, <2>6, <2>7, <2>8, <2>9, MovedVouchers
  <2> QED
    BY <2>10, <2>11
<1> QED
  BY <1>1, <1>2

\* A cancelled checkout gives its voucher back, a sold one has redeemed it.
LEMMA ReleasedVouchers ==
  ASSUME RewardInv, NEW f \in Flows, FinishCancel(f)
  PROVE  VouchersOK'
<1> DEFINE vs == ReservedBy(f)
<1>1. redemption[f] # "CONSUMED"
  BY DEF FinishCancel, Returnable, RewardInv, FlowOK
<1>2. /\ vs \in SUBSET Vouchers
      /\ \A v \in vs : voucher[v].flow = {f}
      /\ \A v \in Vouchers \ vs : voucher[v].flow # {f}
      /\ \A v, w \in vs : v = w
  <2>1. \A v \in vs : HeldBy(v, f) /\ v \in Vouchers
    BY ReservedOf
  <2>2. \A v \in vs : voucher[v].flow = {f} /\ v \in Vouchers
    BY <2>1 DEF HeldBy
  <2> QED
    BY <1>1, <2>2, ReservedOf
<1>3. \A v \in Vouchers :
        voucher'[v] = IF v \in vs THEN Moved(voucher[v], "AVAILABLE", {}) ELSE voucher[v]
  BY DEF FinishCancel, MoveVouchers, Moved
<1>4. /\ redemption'[f] \notin {"RESERVED", "CONSUMED"}
      /\ \A g \in Flows : g # f => redemption'[g] = redemption[g]
  BY <1>1 DEF FinishCancel, RewardInv, TypeOK
<1>5. UNCHANGED deal
  BY DEF FinishCancel
<1> QED
  <2> HIDE DEF vs
  <2> QED
    BY <1>2, <1>3, <1>4, <1>5, MovedVouchers

LEMMA RedeemedVouchers ==
  ASSUME RewardInv, NEW f \in Flows, Finalize(f)
  PROVE  VouchersOK'
<1> DEFINE vs == ReservedBy(f)
<1>1. Open(f) /\ FlowOK(f) /\ UNCHANGED deal
  BY DEF Finalize, Sellable, Open, RewardInv
<1>2. redemption[f] # "CONSUMED" /\ redemption[f] \in {"NONE", "RESERVED", "RELEASED", "CONSUMED"}
  BY <1>1 DEF FlowOK, RewardInv, TypeOK
<1>3. /\ vs \in SUBSET Vouchers
      /\ \A v \in vs : /\ voucher[v].flow = {f}
                       /\ voucher[v].promo = deal[f].promo /\ voucher[v].owner = deal[f].user
                       /\ redemption[f] = "RESERVED"
      /\ \A v \in Vouchers \ vs : voucher[v].flow # {f}
      /\ \A v, w \in vs : v = w
  <2>1. \A v \in vs : HeldBy(v, f) /\ v \in Vouchers /\ redemption[f] = "RESERVED"
    BY ReservedOf
  <2>2. \A v \in vs : /\ v \in Vouchers /\ voucher[v].flow = {f}
                      /\ voucher[v].promo = deal[f].promo /\ voucher[v].owner = deal[f].user
    BY <2>1 DEF HeldBy
  <2> QED
    BY <1>2, <2>1, <2>2, ReservedOf
<1>4. \A v \in Vouchers :
        voucher'[v] = IF v \in vs THEN Moved(voucher[v], "REDEEMED", {f}) ELSE voucher[v]
  BY DEF Finalize, MoveVouchers, Moved
<1>5. /\ redemption'[f] = IF redemption[f] = "NONE" THEN "NONE" ELSE "CONSUMED"
      /\ \A g \in Flows : g # f => redemption'[g] = redemption[g]
  BY DEF Finalize, RewardInv, TypeOK
<1>6. vs # {} => redemption'[f] = "CONSUMED"
  BY <1>3, <1>5
<1>7. deal[f].promo # NoPromo /\ Cost[deal[f].promo] > 0 => vs # {}
  BY <1>1, ReservedOf DEF FlowOK, NeedsVoucher
<1>8. redemption'[f] # "RESERVED"
  BY <1>5
<1> QED
  <2> HIDE DEF vs
  <2> QED
    BY <1>1, <1>3, <1>4, <1>5, <1>6, <1>7, <1>8, MovedVouchers

\* A claimed voucher is nobody's yet.
LEMMA ClaimedVoucher ==
  ASSUME RewardInv, NEW u \in Customers, NEW p \in Promos, NEW v \in Vouchers, Claim(u, p, v)
  PROVE  VouchersOK'
<1>1. /\ voucher'[v].status = "AVAILABLE" /\ voucher'[v].flow = {}
      /\ \A w \in Vouchers : w # v => voucher'[w] = voucher[w]
      /\ UNCHANGED <<deal, redemption>>
  BY DEF Claim, RewardInv, TypeOK, purchase
<1>2. voucher[v].status = "NONE" /\ voucher[v].flow = {}
  BY DEF Claim, RewardInv, VouchersOK, VoucherOK
<1>3. ASSUME NEW w \in Vouchers
      PROVE  VoucherOK(w)'
  <2>1. CASE w = v
    BY <1>1, <2>1 DEF VoucherOK
  <2>2. CASE w # v
    BY <1>1, <2>2 DEF RewardInv, VouchersOK, VoucherOK, HeldBy
  <2> QED
    BY <2>1, <2>2
<1>4. ASSUME NEW f \in Flows
      PROVE  BackedFlow(f)'
  BY <1>1, <1>2 DEF RewardInv, VouchersOK, BackedFlow, NeedsVoucher, VoucherFor
<1>5. Apart'
  BY <1>1, <1>2 DEF RewardInv, VouchersOK, Apart
<1> QED
  BY <1>3, <1>4, <1>5 DEF VouchersOK

-----------------------------------------------------------------------------
(* Every step keeps the invariant *)

\* What a step does to one purchase is nothing to another.
LEMMA OtherFlows ==
  ASSUME RewardInv, NEW f \in Flows,
         \A g \in Flows \ {f} :
           /\ view'[g] = view[g] /\ checkout'[g] = checkout[g] /\ deal'[g] = deal[g]
           /\ order'[g] = order[g] /\ redemption'[g] = redemption[g]
           /\ g \in lapsed' <=> g \in lapsed,
         FlowOK(f)'
  PROVE  \A g \in Flows : FlowOK(g)'
<1> SUFFICES ASSUME NEW g \in Flows, g # f PROVE FlowOK(g)'
  OBVIOUS
<1>1. FlowOK(g)
  BY DEF RewardInv
<1> QED
  BY <1>1 DEF FlowOK, Open

LEMMA SameFlows ==
  ASSUME RewardInv, UNCHANGED <<purchase, lapsed>>
  PROVE  \A f \in Flows : FlowOK(f)'
BY DEF RewardInv, FlowOK, Open, purchase

LEMMA RewardStep == RewardInv /\ [Next]_vars => RewardInv'
<1> SUFFICES ASSUME RewardInv, [Next]_vars PROVE RewardInv'
  OBVIOUS
<1>0. TypeOK /\ TypeOK' /\ VouchersOK
  BY TypeStep DEF RewardInv
<1>1. ASSUME NEW u \in Customers, NEW p \in Promos, NEW v \in Vouchers, Claim(u, p, v)
      PROVE  RewardInv'
  <2>1. \A f \in Flows : FlowOK(f)'
    BY <1>1, SameFlows DEF Claim
  <2> QED
    BY <1>0, <1>1, <2>1, ClaimedVoucher DEF RewardInv
<1>2. ASSUME NEW f \in Flows, NEW by \in {"checkout", "cash"}, NEW u \in Buyers,
             NEW p \in Promos \cup {NoPromo}, NEW n \in {0, Points}, Begin(f, by, u, p, n)
      PROVE  RewardInv'
  <2>1. checkout[f] = "NONE" /\ order[f].state = "NONE" /\ redemption[f] = "NONE" /\ f \notin lapsed
    BY <1>2 DEF Begin, RewardInv, FlowOK
  <2>2. /\ UNCHANGED <<checkout, order, redemption, lapsed, voucher>>
        /\ \A g \in Flows \ {f} : view'[g] = view[g] /\ deal'[g] = deal[g]
    BY <1>0, <1>2 DEF Begin, TypeOK
  <2>3. FlowOK(f)'
    BY <2>1, <2>2 DEF FlowOK, Open
  <2>4. \A g \in Flows : FlowOK(g)'
    BY <2>2, <2>3, OtherFlows
  <2> QED
    BY <1>0, <2>1, <2>2, <2>4, NewDeal DEF RewardInv
<1>3. ASSUME NEW f \in Flows, Rollback(f)
      PROVE  RewardInv'
  <2>1. checkout[f] = "NONE" /\ order[f].state = "NONE" /\ redemption[f] = "NONE" /\ f \notin lapsed
    BY <1>3 DEF Rollback, RewardInv, FlowOK
  <2>2. /\ UNCHANGED <<checkout, order, redemption, lapsed, voucher>>
        /\ \A g \in Flows \ {f} : view'[g] = view[g] /\ deal'[g] = deal[g]
    BY <1>0, <1>3 DEF Rollback, TypeOK
  <2>3. FlowOK(f)'
    BY <2>1, <2>2 DEF FlowOK, Open
  <2>4. \A g \in Flows : FlowOK(g)'
    BY <2>2, <2>3, OtherFlows
  <2> QED
    BY <1>0, <2>1, <2>2, <2>4, NewDeal DEF RewardInv
<1>4. ASSUME NEW f \in Flows, Reserve(f)
      PROVE  RewardInv'
  <2>1. checkout[f] = "NONE" /\ order[f].state = "NONE" /\ redemption[f] = "NONE"
    BY <1>4 DEF Reserve, RewardInv, FlowOK, NoView
  <2>2. /\ UNCHANGED <<deal, order, lapsed>>
        /\ checkout'[f] = "PENDING" /\ view'[f] = NoView
        /\ \A g \in Flows \ {f} : view'[g] = view[g] /\ checkout'[g] = checkout[g]
    BY <1>0, <1>4 DEF Reserve, TypeOK
  <2>3. /\ redemption'[f] = IF deal[f].promo = NoPromo THEN "NONE" ELSE "RESERVED"
        /\ \A g \in Flows \ {f} : redemption'[g] = redemption[g]
    BY <1>0, <1>4, <2>1 DEF Reserve, UsePromo, TypeOK
  <2>4. FlowOK(f)'
    BY <2>1, <2>2, <2>3 DEF FlowOK, Open
  <2>5. \A g \in Flows : FlowOK(g)'
    BY <2>2, <2>3, <2>4, OtherFlows
  <2>6. VouchersOK'
    BY <1>4, <2>1, <2>2, UsedVouchers DEF Reserve
  <2> QED
    BY <1>0, <2>5, <2>6 DEF RewardInv
<1>5. ASSUME NEW f \in Flows, PlaceCash(f)
      PROVE  RewardInv'
  <2>1. checkout[f] = "NONE" /\ order[f].state = "NONE" /\ redemption[f] = "NONE" /\ f \notin lapsed
    <3>1. view[f].by = "cash"
      BY <1>5 DEF PlaceCash
    <3>2. view[f] # NoView
      BY <3>1 DEF NoView
    <3>3. FlowOK(f)
      BY DEF RewardInv
    <3> QED
      BY <3>2, <3>3 DEF FlowOK
  <2>2. /\ UNCHANGED <<deal, checkout, lapsed>>
        /\ order'[f].state = "PENDING" /\ view'[f] = NoView
        /\ \A g \in Flows \ {f} : view'[g] = view[g] /\ order'[g] = order[g]
    BY <1>0, <1>5 DEF PlaceCash, TypeOK
  <2>3. /\ redemption'[f] = IF deal[f].promo = NoPromo THEN "NONE" ELSE "CONSUMED"
        /\ \A g \in Flows \ {f} : redemption'[g] = redemption[g]
    BY <1>0, <1>5, <2>1 DEF PlaceCash, UsePromo, TypeOK
  <2>4. FlowOK(f)'
    BY <2>1, <2>2, <2>3 DEF FlowOK, Open
  <2>5. \A g \in Flows : FlowOK(g)'
    BY <2>2, <2>3, <2>4, OtherFlows
  <2>6. VouchersOK'
    BY <1>5, <2>1, <2>2, UsedVouchers DEF PlaceCash
  <2> QED
    BY <1>0, <2>5, <2>6 DEF RewardInv
<1>6. ASSUME NEW f \in Flows, Lapse(f)
      PROVE  RewardInv'
  <2>1. checkout[f] # "NONE" /\ UNCHANGED <<voucher, purchase>>
        /\ \A g \in Flows \ {f} : g \in lapsed' <=> g \in lapsed
    BY <1>6 DEF Lapse
  <2>2. FlowOK(f)'
    BY <2>1 DEF FlowOK, Open, purchase, RewardInv
  <2>3. \A g \in Flows : FlowOK(g)'
    BY <2>1, <2>2, OtherFlows DEF purchase
  <2> QED
    BY <1>0, <2>1, <2>3, SameVouchers DEF RewardInv, purchase
<1>7. ASSUME NEW f \in Flows, FinishCancel(f)
      PROVE  RewardInv'
  <2>1. FlowOK(f) /\ order[f].state = "NONE" /\ checkout[f] # "NONE"
    BY <1>7 DEF FinishCancel, Returnable, RewardInv
  <2>2. /\ UNCHANGED <<deal, view, order, lapsed>>
        /\ checkout'[f] = IF checkout[f] = "PENDING" THEN "RELEASED" ELSE checkout[f]
        /\ redemption'[f] = IF redemption[f] = "RESERVED" THEN "RELEASED" ELSE redemption[f]
        /\ \A g \in Flows \ {f} : checkout'[g] = checkout[g] /\ redemption'[g] = redemption[g]
    BY <1>0, <1>7 DEF FinishCancel, TypeOK
  <2>3. FlowOK(f)'
    BY <2>1, <2>2 DEF FlowOK, Open
  <2>4. \A g \in Flows : FlowOK(g)'
    BY <2>2, <2>3, OtherFlows
  <2> QED
    BY <1>0, <1>7, <2>4, ReleasedVouchers DEF RewardInv
<1>8. ASSUME NEW f \in Flows, Finalize(f)
      PROVE  RewardInv'
  <2>1. FlowOK(f) /\ order[f].state = "NONE" /\ Open(f)
    BY <1>8 DEF Finalize, Sellable, RewardInv, Open
  <2>2. /\ UNCHANGED <<deal, view, lapsed>>
        /\ checkout'[f] = "CONSUMED" /\ order'[f].state = "PENDING"
        /\ redemption'[f] = IF redemption[f] = "NONE" THEN "NONE" ELSE "CONSUMED"
        /\ \A g \in Flows \ {f} : /\ checkout'[g] = checkout[g] /\ redemption'[g] = redemption[g]
                                   /\ order'[g] = order[g]
    BY <1>0, <1>8 DEF Finalize, TypeOK
  <2>3. FlowOK(f)'
    BY <2>1, <2>2 DEF FlowOK, Open
  <2>4. \A g \in Flows : FlowOK(g)'
    BY <2>2, <2>3, OtherFlows
  <2> QED
    BY <1>0, <1>8, <2>4, RedeemedVouchers DEF RewardInv
<1>9. ASSUME NEW f \in Flows, ConfirmCod(f) \/ Deliver(f) \/ Refund(f) \/ CancelOrder(f)
      PROVE  RewardInv'
  <2>1. /\ UNCHANGED <<voucher, deal, view, checkout, redemption, lapsed>>
        /\ order[f].state # "NONE"
    BY <1>9 DEF ConfirmCod, Deliver, Refund, CancelOrder
  <2>2. order'[f].state # "NONE" /\ \A g \in Flows \ {f} : order'[g] = order[g]
    <3>0. order \in [Flows -> Order] /\ order[f] \in Order
      BY <1>0 DEF TypeOK
    <3>1. CASE ConfirmCod(f) \/ Refund(f)
      BY <2>1, <3>0, <3>1 DEF ConfirmCod, Refund, Order
    <3>2. CASE Deliver(f)
      BY <3>0, <3>2 DEF Deliver, Order
    <3>3. CASE CancelOrder(f)
      BY <3>0, <3>3 DEF CancelOrder, Order
    <3> QED
      BY <1>9, <3>1, <3>2, <3>3
  <2>3. FlowOK(f)'
    BY <2>1, <2>2 DEF FlowOK, Open, RewardInv
  <2>4. \A g \in Flows : FlowOK(g)'
    BY <2>1, <2>2, <2>3, OtherFlows
  <2> QED
    BY <1>0, <2>1, <2>4, SameVouchers DEF RewardInv
<1>10. CASE UNCHANGED <<voucher, purchase, lapsed>>
  BY <1>0, <1>10, SameFlows, SameVouchers DEF RewardInv, purchase
<1>11. ASSUME NEW f \in Flows,
              Pay(f) \/ RequestCancel(f) \/ BeginDelivery(f) \/ AbandonDelivery(f)
       PROVE  RewardInv'
  BY <1>10, <1>11 DEF Pay, RequestCancel, BeginDelivery, AbandonDelivery
<1>12. ASSUME NEW p \in Promos, Switch(p)
       PROVE  RewardInv'
  BY <1>10, <1>12 DEF Switch
<1>13. CASE UNCHANGED vars
  BY <1>10, <1>13 DEF vars, purchase
<1> QED
  BY <1>1, <1>2, <1>3, <1>4, <1>5, <1>6, <1>7, <1>8, <1>9, <1>11, <1>12, <1>13 DEF Next, Offer

-----------------------------------------------------------------------------
(* The limit of a reward *)

\* What is given out of a promotion: the purchases that redeem it, lapsed or not, and
\* the vouchers nobody has used.  A purchase that lapses leaves the count of uses but
\* not this one, and is the only reason that this one may pass the limit.
Uses(p) == {f \in Flows : deal[f].promo = p /\ redemption[f] \in {"RESERVED", "CONSUMED"}}
Given(p) == Cardinality(Uses(p)) + Cardinality(Free(p))
LapsedOf(p) == {f \in lapsed : deal[f].promo = p}
LimitInv ==
  \A p \in Promos :
    Cost[p] > 0 => Given(p) <= Limit[p] + Cardinality(LapsedOf(p))

LEMMA Finite ==
  ASSUME NEW p, lapsed \subseteq Flows
  PROVE  /\ IsFiniteSet(Uses(p)) /\ IsFiniteSet(Free(p)) /\ IsFiniteSet(LapsedOf(p))
         /\ Cardinality(Uses(p)) \in Nat /\ Cardinality(Free(p)) \in Nat
         /\ Cardinality(LapsedOf(p)) \in Nat
<1>1. Uses(p) \in SUBSET Flows /\ Free(p) \in SUBSET Vouchers /\ LapsedOf(p) \in SUBSET Flows
  BY DEF Uses, Free, LapsedOf
<1>2. IsFiniteSet(Uses(p)) /\ IsFiniteSet(Free(p)) /\ IsFiniteSet(LapsedOf(p))
  BY <1>1, FS_Subset, RewardAssumption
<1> QED
  BY <1>2, FS_CardinalityType

\* The uses that are counted are those given out, but for the lapsed reservations.
LEMMA UsedGiven ==
  ASSUME RewardInv, NEW p \in Promos
  PROVE  /\ Used(p) \in Nat /\ Used(p) <= Given(p)
         /\ Given(p) <= Used(p) + Cardinality(LapsedOf(p))
<1> DEFINE C == With(p, "CONSUMED")
           R == With(p, "RESERVED")
<1>1. lapsed \subseteq Flows
  BY DEF RewardInv, TypeOK
<1>2. Used(p) = Cardinality(C) + Cardinality(R \ lapsed) + Cardinality(Free(p))
  <2>1. Free(p) \ {} = Free(p)
    OBVIOUS
  <2> QED
    BY <2>1 DEF Used, Usage, Snapshot
<1>3. /\ Uses(p) = C \cup R /\ C \cap R = {} /\ R \cap lapsed \in SUBSET LapsedOf(p)
      /\ C \in SUBSET Flows /\ R \in SUBSET Flows
  BY <1>1 DEF Uses, With, LapsedOf
<1> HIDE DEF C, R
<1>4. IsFiniteSet(C) /\ IsFiniteSet(R)
  BY <1>3, FS_Subset, RewardAssumption
<1>5. Cardinality(Uses(p)) = Cardinality(C) + Cardinality(R)
  <2>1. Cardinality(C \cup R) = Cardinality(C) + Cardinality(R) - Cardinality(C \cap R)
    BY <1>4, FS_Union
  <2>2. Cardinality(C) \in Nat /\ Cardinality(R) \in Nat /\ Cardinality(C \cap R) = 0
    BY <1>3, <1>4, FS_CardinalityType, FS_EmptySet
  <2> QED
    BY <1>3, <2>1, <2>2
<1>6. /\ Cardinality(R \ lapsed) = Cardinality(R) - Cardinality(R \cap lapsed)
      /\ IsFiniteSet(R \ lapsed) /\ IsFiniteSet(R \cap lapsed)
  BY <1>4, FS_Difference, FS_Intersection
<1>7. Cardinality(R \cap lapsed) <= Cardinality(LapsedOf(p))
  BY <1>1, <1>3, Finite, FS_Subset
<1>8. /\ Cardinality(C) \in Nat /\ Cardinality(R) \in Nat /\ Cardinality(R \ lapsed) \in Nat
      /\ Cardinality(R \cap lapsed) \in Nat /\ Cardinality(Free(p)) \in Nat
      /\ Cardinality(LapsedOf(p)) \in Nat
  BY <1>1, <1>4, <1>6, Finite, FS_CardinalityType
<1> QED
  BY <1>2, <1>5, <1>6, <1>7, <1>8 DEF Given

\* A purchase that starts to redeem a reward takes a voucher from those nobody used.
LEMMA UseCount ==
  ASSUME RewardInv, NEW f \in Flows, redemption[f] = "NONE", UNCHANGED deal,
         NEW redeemed \in {"RESERVED", "CONSUMED"}, NEW held \in {"RESERVED", "REDEEMED"},
         UsePromo(f, redeemed, held), NEW p \in Promos, Cost[p] > 0
  PROVE  Given(p)' = Given(p)
<1>1. CASE UNCHANGED <<redemption, voucher>>
  BY <1>1 DEF Given, Uses, Free
<1>2. CASE deal[f].promo # NoPromo
  <2>1. PICK own \in Offers(f) : /\ redemption' = [redemption EXCEPT ![f] = redeemed]
                                /\ MoveVouchers(own, held, {f})
    BY <1>2 DEF UsePromo
  <2>2. /\ \A v \in Vouchers :
             voucher'[v] = IF v \in own THEN Moved(voucher[v], held, {f}) ELSE voucher[v]
        /\ \A v \in Vouchers : voucher[v] \in Voucher
    BY <2>1 DEF MoveVouchers, Moved, RewardInv, TypeOK
  <2>3. redemption'[f] = redeemed /\ \A g \in Flows : g # f => redemption'[g] = redemption[g]
    BY <2>1 DEF RewardInv, TypeOK
  <2>4. \A v \in Vouchers : v \in own => voucher'[v].status = held
    BY <2>2, MovedType
  <2>5. CASE deal[f].promo # p
    <3>1. Uses(p)' = Uses(p)
      BY <2>3, <2>5 DEF Uses
    <3>2. \A v \in own : v \in Vouchers /\ voucher[v].promo = deal[f].promo
      BY <2>1 DEF Offers, Free
    <3>3. \A v \in Vouchers : v \in own => voucher'[v].promo # p /\ voucher[v].promo # p
      BY <2>2, <2>5, <3>2, MovedType
    <3>4. Free(p)' = Free(p)
      BY <2>2, <3>3 DEF Free
    <3> QED
      BY <3>1, <3>4 DEF Given
  <2>6. CASE deal[f].promo = p
    <3>1. f \notin Uses(p) /\ Uses(p)' = Uses(p) \cup {f}
      BY <2>3, <2>6 DEF Uses
    <3>2. PICK v \in Free(p) : own = {v}
      BY <2>1, <2>6 DEF Offers
    <3>3. Free(p)' = Free(p) \ {v}
      BY <2>2, <2>4, <3>2 DEF Free
    <3>4. lapsed \subseteq Flows
      BY DEF RewardInv, TypeOK
    <3>5. /\ Cardinality(Uses(p) \cup {f}) = Cardinality(Uses(p)) + 1
          /\ Cardinality(Free(p) \ {v}) = Cardinality(Free(p)) - 1
      BY <3>1, <3>4, Finite, FS_AddElement, FS_RemoveElement
    <3>6. Given(p)' = Cardinality(Uses(p) \cup {f}) + Cardinality(Free(p) \ {v})
      BY <3>1, <3>3 DEF Given
    <3> QED
      BY <3>4, <3>5, <3>6, Finite DEF Given
  <2> QED
    BY <2>5, <2>6
<1> QED
  BY <1>1, <1>2 DEF UsePromo

\* A checkout that gives its voucher back puts it among those nobody used.
LEMMA ReleaseCount ==
  ASSUME RewardInv, NEW f \in Flows, FinishCancel(f), NEW p \in Promos, Cost[p] > 0
  PROVE  Given(p)' = Given(p)
<1>1. /\ UNCHANGED deal
      /\ redemption'[f] = IF redemption[f] = "RESERVED" THEN "RELEASED" ELSE redemption[f]
      /\ \A g \in Flows : g # f => redemption'[g] = redemption[g]
  BY DEF FinishCancel, RewardInv, TypeOK
<1>2. /\ \A v \in Vouchers :
           voucher'[v] = IF v \in ReservedBy(f) THEN Moved(voucher[v], "AVAILABLE", {}) ELSE voucher[v]
      /\ \A v \in Vouchers : voucher[v] \in Voucher
  BY DEF FinishCancel, MoveVouchers, Moved, RewardInv, TypeOK
<1>3. \A v \in ReservedBy(f) : /\ v \in Vouchers /\ voucher[v].promo = deal[f].promo
                             /\ voucher[v].status = "RESERVED" /\ redemption[f] = "RESERVED"
  BY ReservedOf DEF HeldBy, ReservedBy
<1>4. \A v \in Vouchers : v \in ReservedBy(f) =>
        voucher'[v].status = "AVAILABLE" /\ voucher'[v].promo = voucher[v].promo
  BY <1>2, MovedType
<1>5. CASE deal[f].promo = p /\ redemption[f] = "RESERVED"
  <2>1. f \in Uses(p) /\ Uses(p)' = Uses(p) \ {f}
    BY <1>1, <1>5 DEF Uses
  <2>2. PICK v \in ReservedBy(f) : ReservedBy(f) = {v}
    <3>1. NeedsVoucher(f)
      BY <1>5, PromoAssumption DEF NeedsVoucher
    <3> QED
      BY <1>5, <3>1, ReservedOf
  <2>3. v \notin Free(p) /\ Free(p)' = Free(p) \cup {v}
    <3>1. v \in Vouchers /\ v \notin Free(p) /\ v \in Free(p)'
      BY <1>3, <1>4, <1>5, <2>2 DEF Free
    <3>2. \A w \in Vouchers : w # v => (w \in Free(p)' <=> w \in Free(p))
      BY <1>2, <2>2 DEF Free
    <3> QED
      BY <3>1, <3>2 DEF Free
  <2>4. lapsed \subseteq Flows
    BY DEF RewardInv, TypeOK
  <2>5. /\ Cardinality(Uses(p) \ {f}) = Cardinality(Uses(p)) - 1
        /\ Cardinality(Free(p) \cup {v}) = Cardinality(Free(p)) + 1
    BY <2>1, <2>3, <2>4, Finite, FS_AddElement, FS_RemoveElement
  <2>6. Given(p)' = Cardinality(Uses(p) \ {f}) + Cardinality(Free(p) \cup {v})
    BY <2>1, <2>3 DEF Given
  <2> QED
    BY <2>4, <2>5, <2>6, Finite DEF Given
<1>6. CASE ~(deal[f].promo = p /\ redemption[f] = "RESERVED")
  <2>1. Uses(p)' = Uses(p)
    BY <1>1, <1>6 DEF Uses
  <2>2. \A v \in Vouchers : v \in ReservedBy(f) => voucher'[v].promo # p /\ voucher[v].promo # p
    BY <1>3, <1>4, <1>6
  <2>3. Free(p)' = Free(p)
    BY <1>2, <2>2 DEF Free
  <2> QED
    BY <2>1, <2>3 DEF Given
<1> QED
  BY <1>5, <1>6

\* A sale makes a reservation a use.
LEMMA RedeemCount ==
  ASSUME RewardInv, NEW f \in Flows, Finalize(f), NEW p \in Promos
  PROVE  Given(p)' = Given(p)
<1>1. redemption[f] = "RESERVED" <=> deal[f].promo # NoPromo
  BY DEF Finalize, Sellable, RewardInv, FlowOK, Open
<1>2. /\ UNCHANGED deal
      /\ redemption'[f] = IF redemption[f] = "NONE" THEN "NONE" ELSE "CONSUMED"
      /\ \A g \in Flows : g # f => redemption'[g] = redemption[g]
  BY DEF Finalize, RewardInv, TypeOK
<1>3. p # NoPromo
  BY PromoAssumption
<1>4. Uses(p)' = Uses(p)
  BY <1>1, <1>2, <1>3 DEF Uses
<1>5. /\ \A v \in Vouchers :
           voucher'[v] = IF v \in ReservedBy(f) THEN Moved(voucher[v], "REDEEMED", {f}) ELSE voucher[v]
      /\ \A v \in Vouchers : voucher[v] \in Voucher
  BY DEF Finalize, MoveVouchers, Moved, RewardInv, TypeOK
<1>6. \A v \in Vouchers : v \in ReservedBy(f) =>
        voucher'[v].status = "REDEEMED" /\ voucher[v].status = "RESERVED"
  BY <1>5, MovedType DEF ReservedBy
<1>7. Free(p)' = Free(p)
  BY <1>5, <1>6 DEF Free
<1> QED
  BY <1>4, <1>7 DEF Given

\* A claim adds one voucher, and finds a use left.
LEMMA ClaimCount ==
  ASSUME RewardInv, LimitInv, NEW u \in Customers, NEW q \in Promos, NEW v \in Vouchers,
         Claim(u, q, v), NEW p \in Promos, Cost[p] > 0
  PROVE  Given(p)' <= Limit[p] + Cardinality(LapsedOf(p))
<1>1. /\ voucher[v].status = "NONE" /\ Used(q) < Limit[q]
      /\ voucher'[v].status = "AVAILABLE" /\ voucher'[v].promo = q
      /\ \A w \in Vouchers : w # v => voucher'[w] = voucher[w]
      /\ UNCHANGED <<deal, redemption>>
  BY DEF Claim, MayClaim, RewardInv, TypeOK, purchase
<1>2. lapsed \subseteq Flows
  BY DEF RewardInv, TypeOK
<1>3. Uses(p)' = Uses(p)
  BY <1>1 DEF Uses
<1>4. CASE p = q
  <2>1. v \notin Free(p) /\ Free(p)' = Free(p) \cup {v}
    BY <1>1, <1>4 DEF Free
  <2>2. Cardinality(Free(p) \cup {v}) = Cardinality(Free(p)) + 1
    BY <1>2, <2>1, Finite, FS_AddElement
  <2>3. Given(p)' = Given(p) + 1
    BY <1>2, <1>3, <2>1, <2>2, Finite DEF Given
  <2>4. Limit[p] \in Nat /\ Given(p) \in Nat /\ Cardinality(LapsedOf(p)) \in Nat
    BY <1>2, RewardAssumption, Finite DEF Given
  <2> QED
    BY <1>1, <1>4, <2>3, <2>4, UsedGiven
<1>5. CASE p # q
  <2>1. Free(p)' = Free(p)
    BY <1>1, <1>5 DEF Free
  <2> QED
    BY <1>3, <2>1 DEF Given, LimitInv
<1> QED
  BY <1>4, <1>5

LEMMA LimitInit == Init => LimitInv
<1> SUFFICES ASSUME Init, NEW p \in Promos PROVE Given(p) <= Limit[p] + Cardinality(LapsedOf(p))
  BY DEF LimitInv
<1>1. Uses(p) = {} /\ Free(p) = {} /\ LapsedOf(p) = {}
  BY DEF Init, Uses, Free, LapsedOf, NoVoucher
<1> QED
  BY <1>1, FS_EmptySet, RewardAssumption DEF Given

LEMMA LimitStep == RewardInv /\ LimitInv /\ [Next]_vars => LimitInv'
<1> SUFFICES ASSUME RewardInv, LimitInv, [Next]_vars, NEW p \in Promos, Cost[p] > 0
             PROVE  Given(p)' <= Limit[p] + Cardinality(LapsedOf(p)')
  BY DEF LimitInv
<1>1. TypeOK /\ lapsed \subseteq Flows /\ lapsed' \subseteq Flows
  BY TypeStep DEF RewardInv, TypeOK
<1>2. Limit[p] \in Nat /\ Given(p) <= Limit[p] + Cardinality(LapsedOf(p)) /\ Given(p) \in Nat
  BY <1>1, RewardAssumption, Finite DEF LimitInv, Given
<1>3. /\ Cardinality(LapsedOf(p)) \in Nat /\ Cardinality(LapsedOf(p)') \in Nat
      /\ IsFiniteSet(LapsedOf(p)')
  <2>1. LapsedOf(p)' \in SUBSET Flows
    BY <1>1 DEF LapsedOf
  <2> QED
    BY <1>1, <2>1, Finite, FS_Subset, FS_CardinalityType, RewardAssumption
<1>4. ASSUME lapsed \subseteq lapsed', \A f \in lapsed : deal'[f] = deal[f]
      PROVE  Cardinality(LapsedOf(p)) <= Cardinality(LapsedOf(p)')
  <2>1. LapsedOf(p) \in SUBSET (LapsedOf(p)')
    BY <1>4 DEF LapsedOf
  <2> QED
    BY <1>3, <2>1, FS_Subset
<1>5. ASSUME NEW u \in Customers, NEW q \in Promos, NEW v \in Vouchers, Claim(u, q, v)
      PROVE  Given(p)' <= Limit[p] + Cardinality(LapsedOf(p)')
  <2>1. LapsedOf(p)' = LapsedOf(p)
    BY <1>5 DEF Claim, LapsedOf, purchase
  <2> QED
    BY <1>5, <2>1, ClaimCount
<1>6. ASSUME NEW f \in Flows, redemption[f] = "NONE", f \notin lapsed,
             UNCHANGED <<voucher, redemption, lapsed>>,
             \A g \in Flows \ {f} : deal'[g] = deal[g]
      PROVE  Given(p)' <= Limit[p] + Cardinality(LapsedOf(p)')
  <2>1. Uses(p)' = Uses(p) /\ Free(p)' = Free(p)
    BY <1>6 DEF Uses, Free
  <2>2. Given(p)' = Given(p)
    BY <2>1 DEF Given
  <2>3. lapsed \subseteq lapsed' /\ \A g \in lapsed : deal'[g] = deal[g]
    BY <1>1, <1>6
  <2>4. Cardinality(LapsedOf(p)) <= Cardinality(LapsedOf(p)')
    BY <1>4, <2>3
  <2> QED
    BY <1>2, <1>3, <2>2, <2>4
<1>7. ASSUME NEW f \in Flows, NEW by \in {"checkout", "cash"}, NEW u \in Buyers,
             NEW q \in Promos \cup {NoPromo}, NEW n \in {0, Points}, Begin(f, by, u, q, n)
      PROVE  Given(p)' <= Limit[p] + Cardinality(LapsedOf(p)')
  <2>1. redemption[f] = "NONE" /\ f \notin lapsed
    BY <1>7 DEF Begin, RewardInv, FlowOK
  <2>2. UNCHANGED <<voucher, redemption, lapsed>> /\ \A g \in Flows \ {f} : deal'[g] = deal[g]
    BY <1>1, <1>7 DEF Begin, TypeOK
  <2> QED
    BY <1>6, <2>1, <2>2
<1>8. ASSUME NEW f \in Flows, Rollback(f)
      PROVE  Given(p)' <= Limit[p] + Cardinality(LapsedOf(p)')
  <2>1. redemption[f] = "NONE" /\ f \notin lapsed
    BY <1>8 DEF Rollback, RewardInv, FlowOK
  <2>2. UNCHANGED <<voucher, redemption, lapsed>> /\ \A g \in Flows \ {f} : deal'[g] = deal[g]
    BY <1>1, <1>8 DEF Rollback, TypeOK
  <2> QED
    BY <1>6, <2>1, <2>2
<1>9. ASSUME UNCHANGED deal, lapsed \subseteq lapsed', Given(p)' = Given(p)
      PROVE  Given(p)' <= Limit[p] + Cardinality(LapsedOf(p)')
  <2>1. Cardinality(LapsedOf(p)) <= Cardinality(LapsedOf(p)')
    BY <1>4, <1>9
  <2> QED
    BY <1>2, <1>3, <1>9, <2>1
<1>10. ASSUME NEW f \in Flows, Reserve(f) \/ PlaceCash(f)
       PROVE  Given(p)' <= Limit[p] + Cardinality(LapsedOf(p)')
  <2>1. view[f] # NoView /\ FlowOK(f)
    <3>1. view[f].by # "nobody"
      BY <1>10 DEF Reserve, PlaceCash
    <3>2. FlowOK(f)
      BY DEF RewardInv
    <3> QED
      BY <3>1, <3>2 DEF NoView
  <2>2. redemption[f] = "NONE"
    BY <2>1 DEF FlowOK
  <2>3. Given(p)' = Given(p) /\ UNCHANGED <<deal, lapsed>>
    BY <1>10, <2>2, UseCount DEF Reserve, PlaceCash
  <2> QED
    BY <1>9, <2>3
<1>11. ASSUME NEW f \in Flows, FinishCancel(f) \/ Finalize(f)
       PROVE  Given(p)' <= Limit[p] + Cardinality(LapsedOf(p)')
  <2>1. UNCHANGED <<deal, lapsed>>
    BY <1>11 DEF FinishCancel, Finalize
  <2>2. Given(p)' = Given(p)
    BY <1>11, ReleaseCount, RedeemCount
  <2> QED
    BY <1>9, <2>1, <2>2
<1>12. CASE UNCHANGED <<voucher, deal, redemption>> /\ lapsed \subseteq lapsed'
  <2>1. Given(p)' = Given(p)
    BY <1>12 DEF Given, Uses, Free
  <2> QED
    BY <1>9, <1>12, <2>1
<1>13. ASSUME NEW f \in Flows,
              \/ Lapse(f) \/ Pay(f) \/ RequestCancel(f)
              \/ ConfirmCod(f) \/ Deliver(f) \/ Refund(f) \/ CancelOrder(f)
              \/ BeginDelivery(f) \/ AbandonDelivery(f)
       PROVE  Given(p)' <= Limit[p] + Cardinality(LapsedOf(p)')
  <2>1. CASE Lapse(f) \/ Pay(f) \/ RequestCancel(f) \/ BeginDelivery(f) \/ AbandonDelivery(f)
    BY <1>12, <2>1 DEF Lapse, Pay, RequestCancel, BeginDelivery, AbandonDelivery, purchase
  <2>2. CASE ConfirmCod(f) \/ Deliver(f) \/ Refund(f) \/ CancelOrder(f)
    BY <1>12, <2>2 DEF ConfirmCod, Deliver, Refund, CancelOrder
  <2> QED
    BY <1>13, <2>1, <2>2
<1>14. ASSUME NEW q \in Promos, Switch(q)
       PROVE  Given(p)' <= Limit[p] + Cardinality(LapsedOf(p)')
  BY <1>12, <1>14 DEF Switch, purchase
<1>15. CASE UNCHANGED vars
  BY <1>12, <1>15 DEF vars
<1> QED
  BY <1>5, <1>7, <1>8, <1>10, <1>11, <1>13, <1>14, <1>15 DEF Next, Offer

-----------------------------------------------------------------------------
(* Points *)

\* What a purchase gave a customer and keeps from one, and what a voucher cost.
GainOf(u, d, c, r) ==
  IF d.user = u
  THEN (IF r.state # "NONE" /\ r.paid # "pending" THEN Earn ELSE 0)
         - (IF c = "PENDING" \/ r.state \in {"PENDING", "DONE"} THEN d.points ELSE 0)
  ELSE 0
Gains(u) == [f \in Flows |-> GainOf(u, deal[f], checkout[f], order[f])]
PriceOf(u, w) == IF w.status # "NONE" /\ w.owner = u THEN Cost[w.promo] ELSE 0
Prices(u) == [v \in Vouchers |-> PriceOf(u, voucher[v])]

\* The event keys in the ledger tell how far a purchase is: points it took may be
\* returned once, by the end of the checkout or by that of the order.
KeysOK(f) ==
  /\ <<"redeem", f>> \in ledger => checkout[f] # "NONE"
  /\ <<"order redeem", f>> \in ledger => order[f].state # "NONE"
  /\ <<"release", f>> \in ledger => checkout[f] \notin {"NONE", "PENDING"}
  /\ checkout[f] = "RELEASED" /\ deal[f].user # Guest /\ deal[f].points # 0
       => <<"release", f>> \in ledger
  /\ <<"cancel release", f>> \in ledger => order[f].state = "CANCELED"
  /\ <<"earn", f>> \in ledger => Collected(f)
  /\ Collected(f) /\ deal[f].user # Guest => <<"earn", f>> \in ledger
  /\ order[f].state # "NONE" => order[f].points = deal[f].points
ClaimOK(v) ==
  /\ <<"claim", v>> \in ledger => voucher[v].status # "NONE"
  /\ voucher[v].status # "NONE" => voucher[v].promo \in Promos

BalanceOK(u) ==
  balance[u] = Opening + SumOf(Gains(u), Flows) - SumOf(Prices(u), Vouchers)

PointsInv ==
  /\ \A f \in Flows : KeysOK(f)
  /\ \A v \in Vouchers : ClaimOK(v)
  /\ \A u \in Customers : BalanceOK(u)

\* At the start no key is in the ledger and nobody gained or paid.
LEMMA PointsInit == Init => PointsInv
<1> SUFFICES ASSUME Init PROVE PointsInv
  OBVIOUS
<1>1. \A f \in Flows : KeysOK(f)
  BY DEF Init, KeysOK, NoDeal, NoOrder, Collected
<1>2. \A v \in Vouchers : ClaimOK(v)
  BY DEF Init, ClaimOK, NoVoucher
<1>3. ASSUME NEW u \in Customers
      PROVE  BalanceOK(u)
  <2> DEFINE f == Gains(u)
             g == Prices(u)
  <2>1. \A x \in Flows : f[x] = 0
    BY <1>3, RewardAssumption DEF Init, Gains, GainOf, NoDeal
  <2>2. \A x \in Vouchers : g[x] = 0
    BY DEF Init, Prices, PriceOf, NoVoucher
  <2>3. balance[u] = Opening /\ Opening \in Int
    BY RewardAssumption DEF Init
  <2> HIDE DEF f, g
  <2>4. SumOf(f, Flows) = 0 * Cardinality(Flows) /\ SumOf(g, Vouchers) = 0 * Cardinality(Vouchers)
    BY <2>1, <2>2, SumConstant, RewardAssumption
  <2>5. SumOf(f, Flows) = 0 /\ SumOf(g, Vouchers) = 0
    BY <2>4, FS_CardinalityType, RewardAssumption
  <2>6. balance[u] = Opening + SumOf(f, Flows) - SumOf(g, Vouchers)
    BY <2>3, <2>5
  <2> QED
    BY <2>6 DEF BalanceOK, f, g
<1> QED
  BY <1>1, <1>2, <1>3 DEF PointsInv

\* What a purchase gains is a number.
LEMMA GainInt ==
  ASSUME NEW u, NEW d \in Deal, NEW c, NEW r
  PROVE  GainOf(u, d, c, r) \in Int
BY RewardAssumption DEF GainOf, Deal

\* A claimed voucher's price is a number.
LEMMA PriceInt ==
  ASSUME NEW u, NEW w, w.status # "NONE" => w.promo \in Promos
  PROVE  PriceOf(u, w) \in Int
BY RewardAssumption DEF PriceOf

\* No voucher appears, disappears or changes hands.
VouchersKeep ==
  \A v \in Vouchers :
    /\ voucher'[v].status = "NONE" <=> voucher[v].status = "NONE"
    /\ voucher'[v].owner = voucher[v].owner /\ voucher'[v].promo = voucher[v].promo

FlowKinds == {"redeem", "release", "order redeem", "cancel release", "earn"}

\* A step about one purchase whose entry in the accounts is what the purchase gains.
LEMMA Booked ==
  ASSUME TypeOK, TypeOK', PointsInv, NEW f \in Flows,
         \A g \in Flows \ {f} : /\ deal'[g] = deal[g] /\ checkout'[g] = checkout[g]
                                /\ order'[g] = order[g],
         VouchersKeep, ledger \subseteq ledger',
         NEW kind \in FlowKinds, ledger' \subseteq ledger \cup {<<kind, f>>},
         KeysOK(f)',
         \A u \in Customers :
           balance'[u] = balance[u] + GainOf(u, deal'[f], checkout'[f], order'[f])
                                    - GainOf(u, deal[f], checkout[f], order[f])
  PROVE  PointsInv'
<1>1. ASSUME NEW g \in Flows, g # f
      PROVE  KeysOK(g)'
  <2>1. /\ deal'[g] = deal[g] /\ checkout'[g] = checkout[g] /\ order'[g] = order[g]
        /\ KeysOK(g)
    BY <1>1 DEF PointsInv
  <2>2. ASSUME NEW k
        PROVE  <<k, g>> \in ledger' <=> <<k, g>> \in ledger
    <3>1. <<k, g>> # <<kind, f>>
      BY <1>1
    <3> QED
      BY <3>1
  <2> QED
    BY <2>1, <2>2 DEF KeysOK, Collected
<1>2. ASSUME NEW v \in Vouchers
      PROVE  ClaimOK(v)'
  <2>1. <<"claim", v>> # <<kind, f>>
    BY DEF FlowKinds
  <2> QED
    BY <2>1 DEF PointsInv, ClaimOK, VouchersKeep
<1>3. ASSUME NEW u \in Customers
      PROVE  BalanceOK(u)'
  <2> DEFINE s == Gains(u)
             t == Gains(u)'
             p == Prices(u)
             q == Prices(u)'
  <2>1. /\ \A g \in Flows : s[g] \in Int /\ (g # f => t[g] = s[g])
        /\ t[f] \in Int
    <3>1. \A g \in Flows : deal[g] \in Deal /\ deal'[g] \in Deal
      BY DEF TypeOK
    <3> QED
      BY <3>1, GainInt DEF Gains
  <2>0. s[f] \in Int
    BY <2>1
  <2>2. \A v \in Vouchers : p[v] \in Int /\ q[v] = p[v]
    <3>1. ASSUME NEW v \in Vouchers
          PROVE  p[v] \in Int /\ q[v] = p[v]
      <4>1. PriceOf(u, voucher[v]) \in Int
        BY PriceInt DEF PointsInv, ClaimOK
      <4>2. PriceOf(u, voucher'[v]) = PriceOf(u, voucher[v])
        BY DEF VouchersKeep, PriceOf
      <4> QED
        BY <4>1, <4>2 DEF Prices
    <3> QED
      BY <3>1
  <2>3. balance[u] = Opening + SumOf(s, Flows) - SumOf(p, Vouchers)
    BY DEF PointsInv, BalanceOK
  <2>4. balance'[u] = balance[u] + t[f] - s[f]
    BY DEF Gains
  <2>5. balance[u] \in Int /\ Opening \in Int
    <3>1. balance \in [Customers -> 0..MaxPoints]
      BY DEF TypeOK
    <3> QED
      BY <3>1, RewardAssumption
  <2> HIDE DEF s, t, p, q
  <2>6. SumOf(t, Flows) = SumOf(s, Flows) - s[f] + t[f]
    BY <2>1, SumChange, RewardAssumption
  <2>7. SumOf(q, Vouchers) = SumOf(p, Vouchers)
    BY <2>2, SumSame, RewardAssumption
  <2>8. SumOf(s, Flows) \in Int /\ SumOf(p, Vouchers) \in Int
    BY <2>1, <2>2, SumInt, RewardAssumption
  <2>9. balance'[u] = Opening + SumOf(t, Flows) - SumOf(q, Vouchers)
    BY <2>0, <2>1, <2>3, <2>4, <2>5, <2>6, <2>7, <2>8
  <2> QED
    BY <2>9 DEF BalanceOK, t, q
<1> QED
  BY <1>1, <1>2, <1>3 DEF PointsInv

\* A step that touches no account, purchase or voucher.
LEMMA NothingBooked ==
  ASSUME PointsInv, UNCHANGED <<balance, ledger, voucher, deal, checkout, order>>
  PROVE  PointsInv'
<1>1. \A u : Gains(u)' = Gains(u) /\ Prices(u)' = Prices(u)
  BY DEF Gains, Prices
<1>2. \A u \in Customers : BalanceOK(u)'
  BY <1>1 DEF PointsInv, BalanceOK
<1>3. (\A f \in Flows : KeysOK(f)') /\ \A v \in Vouchers : ClaimOK(v)'
  BY DEF PointsInv, KeysOK, Collected, ClaimOK
<1> QED
  BY <1>2, <1>3 DEF PointsInv

\* An entry under a new key changes one balance.
LEMMA Credited ==
  ASSUME TypeOK, NEW u \in Customers, NEW n, NEW key, key \notin ledger,
         Credit(u, n, key)
  PROVE  /\ ledger' = ledger \cup {key}
         /\ \A w \in Customers :
              balance'[w] = IF w = u THEN balance[w] + n ELSE balance[w]
BY DEF Credit, TypeOK

\* A payment under a new key changes one balance.
LEMMA Debited ==
  ASSUME TypeOK, NEW u \in Customers, NEW n, NEW key, key \notin ledger,
         Debit(u, n, key)
  PROVE  /\ ledger' = ledger \cup {key}
         /\ \A w \in Customers :
              balance'[w] = IF w = u THEN balance[w] - n ELSE balance[w]
BY DEF Debit, TypeOK

\* Vouchers that are moved keep their owner, and none of them is new.
LEMMA MovedKeep ==
  ASSUME TypeOK, NEW vs, \A v \in vs : voucher[v].status # "NONE",
         NEW status, status # "NONE", NEW flow, MoveVouchers(vs, status, flow)
  PROVE  VouchersKeep
<1> SUFFICES ASSUME NEW v \in Vouchers
             PROVE  /\ voucher'[v].status = "NONE" <=> voucher[v].status = "NONE"
                    /\ voucher'[v].owner = voucher[v].owner
                    /\ voucher'[v].promo = voucher[v].promo
  BY DEF VouchersKeep
<1>1. voucher[v] \in Voucher
  BY DEF TypeOK
<1>2. voucher'[v] = IF v \in vs THEN [voucher[v] EXCEPT !.status = status, !.flow = flow]
                    ELSE voucher[v]
  BY DEF MoveVouchers
<1> QED
  BY <1>1, <1>2 DEF Voucher

\* Using a promotion moves vouchers that exist.
LEMMA UsedKeep ==
  ASSUME TypeOK, NEW f \in Flows, NEW redeemed, NEW held, held # "NONE",
         UsePromo(f, redeemed, held)
  PROVE  VouchersKeep
<1>1. CASE deal[f].promo = NoPromo
  BY <1>1 DEF UsePromo, VouchersKeep
<1>2. CASE deal[f].promo # NoPromo
  <2>1. PICK own \in Offers(f) : MoveVouchers(own, held, {f})
    BY <1>2 DEF UsePromo
  <2>2. \A v \in own : voucher[v].status # "NONE"
    BY <2>1 DEF Offers, Free
  <2> QED
    BY <2>1, <2>2, MovedKeep
<1> QED
  BY <1>1, <1>2

\* Returning or redeeming what a purchase reserved moves vouchers that exist.
LEMMA ReservedKeep ==
  ASSUME TypeOK, NEW f \in Flows, NEW status, status # "NONE", NEW flow,
         MoveVouchers(ReservedBy(f), status, flow)
  PROVE  VouchersKeep
<1>1. \A v \in ReservedBy(f) : voucher[v].status # "NONE"
  BY DEF ReservedBy
<1> QED
  BY <1>1, MovedKeep

\* A customer's balance is a number.
LEMMA BalanceInt ==
  ASSUME TypeOK
  PROVE  \A u \in Customers : balance[u] \in Int /\ u # Guest
<1>1. balance \in [Customers -> 0..MaxPoints]
  BY DEF TypeOK
<1> QED
  BY <1>1, RewardAssumption

\* An entry under one key of a purchase leaves its other keys alone.
LEMMA OtherKey ==
  ASSUME NEW f, NEW kind, ledger \subseteq ledger', ledger' \subseteq ledger \cup {<<kind, f>>},
         NEW other, other # kind
  PROVE  <<other, f>> \in ledger' <=> <<other, f>> \in ledger
<1>1. <<other, f>> # <<kind, f>>
  OBVIOUS
<1> QED
  BY <1>1

\* A purchase that holds nothing and has no order gained and keeps nothing.
LEMMA NoGain ==
  ASSUME NEW u, NEW d, NEW c, c # "PENDING", NEW r, r.state = "NONE"
  PROVE  GainOf(u, d, c, r) = 0
BY DEF GainOf

\* Points taken under a new key.
LEMMA Taken ==
  ASSUME TypeOK, NEW f \in Flows, NEW kind, <<kind, f>> \notin ledger, TakePoints(f, kind)
  PROVE  /\ ledger \subseteq ledger' /\ ledger' \subseteq ledger \cup {<<kind, f>>}
         /\ \A u \in Customers :
              balance'[u] = balance[u] - (IF deal[f].user = u THEN deal[f].points ELSE 0)
<1> DEFINE n == deal[f].points
<1>1. n \in Nat /\ (deal[f].user # Guest => deal[f].user \in Customers)
  BY DealType
<1>2. \A u \in Customers : balance[u] \in Int
  BY BalanceInt
<1>3. CASE n = 0
  <2>1. UNCHANGED <<balance, ledger>>
    BY <1>3 DEF TakePoints, accounts
  <2> QED
    BY <1>2, <1>3, <2>1
<1>4. CASE n # 0
  <2>1. deal[f].user \in Customers /\ Debit(deal[f].user, n, <<kind, f>>)
    BY <1>1, <1>4 DEF TakePoints
  <2>2. /\ ledger' = ledger \cup {<<kind, f>>}
        /\ \A u \in Customers :
             balance'[u] = IF u = deal[f].user THEN balance[u] - n ELSE balance[u]
    BY <2>1, Debited
  <2> QED
    BY <1>2, <2>2
<1> QED
  BY <1>3, <1>4

\* Points returned under a key that is new when there are points to return.
LEMMA Returned ==
  ASSUME TypeOK, NEW f \in Flows, NEW kind, NEW n \in Nat,
         IF deal[f].user = Guest \/ n = 0 THEN UNCHANGED accounts
         ELSE <<kind, f>> \notin ledger /\ Credit(deal[f].user, n, <<kind, f>>)
  PROVE  /\ ledger \subseteq ledger' /\ ledger' \subseteq ledger \cup {<<kind, f>>}
         /\ deal[f].user # Guest /\ n # 0 => <<kind, f>> \in ledger'
         /\ \A u \in Customers :
              balance'[u] = balance[u] + (IF deal[f].user = u THEN n ELSE 0)
<1>1. deal[f].user # Guest => deal[f].user \in Customers
  BY DealType
<1>2. \A u \in Customers : balance[u] \in Int /\ u # Guest
  BY BalanceInt
<1>3. CASE deal[f].user = Guest \/ n = 0
  <2>1. UNCHANGED <<balance, ledger>>
    BY <1>3 DEF accounts
  <2> QED
    BY <1>2, <1>3, <2>1
<1>4. CASE ~(deal[f].user = Guest \/ n = 0)
  <2>1. /\ ledger' = ledger \cup {<<kind, f>>}
        /\ \A u \in Customers :
             balance'[u] = IF u = deal[f].user THEN balance[u] + n ELSE balance[u]
    BY <1>1, <1>4, Credited
  <2> QED
    BY <1>2, <1>4, <2>1
<1> QED
  BY <1>3, <1>4

\* An order is rewarded when it is first collected, and not again.
LEMMA Earned ==
  ASSUME TypeOK, NEW f \in Flows, KeysOK(f), Award(f)
  PROVE  /\ ledger \subseteq ledger' /\ ledger' \subseteq ledger \cup {<<"earn", f>>}
         /\ deal[f].user # Guest => <<"earn", f>> \in ledger'
         /\ \A u \in Customers :
              balance'[u] =
                balance[u] + (IF deal[f].user = u /\ ~Collected(f) THEN Earn ELSE 0)
<1>1. deal[f].user # Guest => deal[f].user \in Customers
  BY DealType
<1>2. \A u \in Customers : balance[u] \in Int /\ u # Guest
  BY BalanceInt
<1>3. CASE deal[f].user = Guest
  <2>1. UNCHANGED <<balance, ledger>>
    BY <1>3 DEF Award, accounts
  <2> QED
    BY <1>2, <1>3, <2>1
<1>4. CASE deal[f].user # Guest /\ Collected(f)
  <2>1. <<"earn", f>> \in ledger
    BY <1>4 DEF KeysOK
  <2>2. UNCHANGED <<balance, ledger>>
    BY <1>4, <2>1 DEF Award, Credit, accounts
  <2> QED
    BY <1>2, <1>4, <2>1, <2>2
<1>5. CASE deal[f].user # Guest /\ ~Collected(f)
  <2>1. <<"earn", f>> \notin ledger
    BY <1>5 DEF KeysOK
  <2>2. deal[f].user \in Customers /\ Credit(deal[f].user, Earn, <<"earn", f>>)
    BY <1>1, <1>5 DEF Award
  <2>3. /\ ledger' = ledger \cup {<<"earn", f>>}
        /\ \A u \in Customers :
             balance'[u] = IF u = deal[f].user THEN balance[u] + Earn ELSE balance[u]
    BY <2>1, <2>2, Credited
  <2> QED
    BY <1>2, <1>5, <2>3
<1> QED
  BY <1>3, <1>4, <1>5

\* A purchase begins or is rolled back before it has taken anything.
LEMMA BookOpen ==
  ASSUME RewardInv, TypeOK', PointsInv, NEW f \in Flows,
         checkout[f] = "NONE", order[f].state = "NONE",
         \A g \in Flows \ {f} : deal'[g] = deal[g],
         UNCHANGED <<accounts, voucher, checkout, order>>
  PROVE  PointsInv'
<1>1. TypeOK /\ KeysOK(f) /\ UNCHANGED <<balance, ledger>>
  BY DEF RewardInv, PointsInv, accounts
<1>2. KeysOK(f)'
  BY <1>1 DEF KeysOK, Collected
<1>3. VouchersKeep
  BY DEF VouchersKeep
<1>4. ASSUME NEW u \in Customers
      PROVE  balance'[u] = balance[u] + GainOf(u, deal'[f], checkout'[f], order'[f])
                                      - GainOf(u, deal[f], checkout[f], order[f])
  <2>1. /\ GainOf(u, deal'[f], checkout'[f], order'[f]) = 0
        /\ GainOf(u, deal[f], checkout[f], order[f]) = 0
    BY NoGain
  <2>2. balance'[u] = balance[u] /\ balance[u] \in Int
    BY <1>1, BalanceInt
  <2> QED
    BY <2>1, <2>2
<1>5. "earn" \in FlowKinds /\ ledger' \subseteq ledger \cup {<<"earn", f>>}
  BY <1>1 DEF FlowKinds
<1> QED
  BY <1>1, <1>2, <1>3, <1>4, <1>5, Booked

\* A checkout takes its points.
LEMMA BookReserve ==
  ASSUME RewardInv, TypeOK', PointsInv, NEW f \in Flows, Reserve(f)
  PROVE  PointsInv'
<1>1. TypeOK /\ KeysOK(f) /\ checkout[f] = "NONE" /\ order[f].state = "NONE"
  BY DEF RewardInv, FlowOK, PointsInv, Reserve, NoView
<1>2. /\ UNCHANGED <<deal, order>> /\ checkout'[f] = "PENDING"
      /\ \A g \in Flows \ {f} : checkout'[g] = checkout[g]
  BY <1>1 DEF Reserve, TypeOK
<1>3. VouchersKeep
  BY <1>1, UsedKeep DEF Reserve
<1>4. /\ ledger \subseteq ledger' /\ ledger' \subseteq ledger \cup {<<"redeem", f>>}
      /\ \A u \in Customers :
           balance'[u] = balance[u] - (IF deal[f].user = u THEN deal[f].points ELSE 0)
  BY <1>1, Taken DEF Reserve, KeysOK
<1>5. KeysOK(f)'
  BY <1>1, <1>2, <1>4 DEF KeysOK, Collected
<1>6. ASSUME NEW u \in Customers
      PROVE  balance'[u] = balance[u] + GainOf(u, deal'[f], checkout'[f], order'[f])
                                      - GainOf(u, deal[f], checkout[f], order[f])
  <2>1. GainOf(u, deal[f], checkout[f], order[f]) = 0
    BY <1>1, NoGain
  <2>2. GainOf(u, deal'[f], checkout'[f], order'[f]) =
          - (IF deal[f].user = u THEN deal[f].points ELSE 0)
    BY <1>1, <1>2, DealType DEF GainOf
  <2> QED
    BY <1>1, <1>4, <2>1, <2>2, DealType, BalanceInt
<1>7. "redeem" \in FlowKinds
  BY DEF FlowKinds
<1> QED
  BY <1>1, <1>2, <1>3, <1>4, <1>5, <1>6, <1>7, Booked

\* A cash order takes its points.
LEMMA BookCash ==
  ASSUME RewardInv, TypeOK', PointsInv, NEW f \in Flows, PlaceCash(f)
  PROVE  PointsInv'
<1>1. TypeOK /\ KeysOK(f) /\ checkout[f] = "NONE" /\ order[f].state = "NONE"
  <2>0. view[f].by = "cash"
    BY DEF PlaceCash
  <2>1. view[f] # NoView
    BY <2>0 DEF NoView
  <2> QED
    BY <2>1 DEF RewardInv, FlowOK, PointsInv
<1>2. /\ UNCHANGED <<deal, checkout>>
      /\ order'[f] = [state |-> "PENDING", paid |-> "pending", provider |-> "cash",
                      points |-> deal[f].points]
      /\ \A g \in Flows \ {f} : order'[g] = order[g]
  BY <1>1 DEF PlaceCash, TypeOK
<1>3. VouchersKeep
  BY <1>1, UsedKeep DEF PlaceCash
<1>4. /\ ledger \subseteq ledger' /\ ledger' \subseteq ledger \cup {<<"order redeem", f>>}
      /\ \A u \in Customers :
           balance'[u] = balance[u] - (IF deal[f].user = u THEN deal[f].points ELSE 0)
  BY <1>1, Taken DEF PlaceCash, KeysOK
<1>5. KeysOK(f)'
  <2>1. \A k : k # "order redeem" => (<<k, f>> \in ledger' <=> <<k, f>> \in ledger)
    BY <1>4, OtherKey
  <2>2. /\ order'[f].state = "PENDING" /\ order'[f].paid = "pending"
        /\ order'[f].points = deal[f].points
    BY <1>2
  <2> QED
    BY <1>1, <1>2, <2>1, <2>2 DEF KeysOK, Collected
<1>6. ASSUME NEW u \in Customers
      PROVE  balance'[u] = balance[u] + GainOf(u, deal'[f], checkout'[f], order'[f])
                                      - GainOf(u, deal[f], checkout[f], order[f])
  <2>1. GainOf(u, deal[f], checkout[f], order[f]) = 0
    BY <1>1, NoGain
  <2>2. GainOf(u, deal'[f], checkout'[f], order'[f]) =
          - (IF deal[f].user = u THEN deal[f].points ELSE 0)
    BY <1>1, <1>2, DealType DEF GainOf
  <2>3. deal[f].points \in Int /\ balance[u] \in Int
    BY <1>1, DealType, BalanceInt
  <2>4. balance'[u] = balance[u] - (IF deal[f].user = u THEN deal[f].points ELSE 0)
    BY <1>4
  <2> QED
    BY <2>1, <2>2, <2>3, <2>4
<1>7. "order redeem" \in FlowKinds
  BY DEF FlowKinds
<1> QED
  BY <1>1, <1>2, <1>3, <1>4, <1>5, <1>6, <1>7, Booked

\* A cancelled checkout gives its points back once, if it still held them.
LEMMA BookCancel ==
  ASSUME RewardInv, TypeOK', PointsInv, NEW f \in Flows, FinishCancel(f)
  PROVE  PointsInv'
<1>1. /\ TypeOK /\ KeysOK(f) /\ checkout[f] # "NONE" /\ order[f].state = "NONE"
      /\ checkout[f] \in {"NONE", "PENDING", "RELEASED", "CONSUMED"}
  BY DEF RewardInv, PointsInv, FinishCancel, Returnable, TypeOK
<1>2. /\ UNCHANGED <<deal, order>>
      /\ checkout'[f] = IF checkout[f] = "PENDING" THEN "RELEASED" ELSE checkout[f]
      /\ \A g \in Flows \ {f} : checkout'[g] = checkout[g]
  BY <1>1 DEF FinishCancel, TypeOK
<1>3. VouchersKeep
  BY <1>1, ReservedKeep DEF FinishCancel
<1> DEFINE n == IF checkout[f] = "PENDING" THEN deal[f].points ELSE 0
<1>4. /\ ledger \subseteq ledger' /\ ledger' \subseteq ledger \cup {<<"release", f>>}
      /\ deal[f].user # Guest /\ n # 0 => <<"release", f>> \in ledger'
      /\ \A u \in Customers : balance'[u] = balance[u] + (IF deal[f].user = u THEN n ELSE 0)
  <2>1. n \in Nat
    BY <1>1, DealType
  <2>2. IF deal[f].user = Guest \/ n = 0 THEN UNCHANGED accounts
        ELSE <<"release", f>> \notin ledger /\ Credit(deal[f].user, n, <<"release", f>>)
    <3>1. CASE checkout[f] = "PENDING"
      BY <1>1, <3>1 DEF FinishCancel, ReturnPoints, KeysOK
    <3>2. CASE checkout[f] = "RELEASED"
      BY <1>1, <3>2 DEF FinishCancel, ReturnPoints, KeysOK, Credit
    <3>3. CASE checkout[f] = "CONSUMED"
      BY <3>3 DEF FinishCancel, ReturnPoints
    <3> QED
      BY <1>1, <3>1, <3>2, <3>3
  <2> HIDE DEF n
  <2> QED
    BY <1>1, <2>1, <2>2, Returned
<1>5. KeysOK(f)'
  BY <1>1, <1>2, <1>4 DEF KeysOK, Collected
<1>6. ASSUME NEW u \in Customers
      PROVE  balance'[u] = balance[u] + GainOf(u, deal'[f], checkout'[f], order'[f])
                                      - GainOf(u, deal[f], checkout[f], order[f])
  <2>1. GainOf(u, deal'[f], checkout'[f], order'[f]) = 0
    BY <1>1, <1>2, NoGain
  <2>2. GainOf(u, deal[f], checkout[f], order[f]) = - (IF deal[f].user = u THEN n ELSE 0)
    BY <1>1, DealType DEF GainOf
  <2>3. n \in Nat
    BY <1>1, DealType
  <2> HIDE DEF n
  <2> QED
    BY <1>1, <1>4, <2>1, <2>2, <2>3, BalanceInt
<1>7. "release" \in FlowKinds
  BY DEF FlowKinds
<1> QED
  BY <1>1, <1>2, <1>3, <1>4, <1>5, <1>6, <1>7, Booked

\* A paid checkout is sold: its points stay taken, and the order is rewarded.
LEMMA BookFinalize ==
  ASSUME RewardInv, TypeOK', PointsInv, NEW f \in Flows, Finalize(f)
  PROVE  PointsInv'
<1>1. TypeOK /\ KeysOK(f) /\ checkout[f] = "PENDING" /\ order[f].state = "NONE"
  BY DEF RewardInv, PointsInv, Finalize, Sellable
<1>2. /\ UNCHANGED deal /\ checkout'[f] = "CONSUMED"
      /\ order'[f] = [state |-> "PENDING", paid |-> "paid", provider |-> "payos",
                      points |-> deal[f].points]
      /\ \A g \in Flows \ {f} : checkout'[g] = checkout[g] /\ order'[g] = order[g]
  BY <1>1 DEF Finalize, TypeOK
<1>3. VouchersKeep
  BY <1>1, ReservedKeep DEF Finalize
<1>4. /\ ledger \subseteq ledger' /\ ledger' \subseteq ledger \cup {<<"earn", f>>}
      /\ deal[f].user # Guest => <<"earn", f>> \in ledger'
      /\ \A u \in Customers :
           balance'[u] = balance[u] + (IF deal[f].user = u /\ ~Collected(f) THEN Earn ELSE 0)
  BY <1>1, Earned DEF Finalize
<1>5. KeysOK(f)'
  <2>1. \A k : k # "earn" => (<<k, f>> \in ledger' <=> <<k, f>> \in ledger)
    BY <1>4, OtherKey
  <2>2. /\ order'[f].state = "PENDING" /\ order'[f].paid = "paid"
        /\ order'[f].points = deal[f].points
    BY <1>2
  <2> QED
    BY <1>1, <1>2, <1>4, <2>1, <2>2 DEF KeysOK, Collected
<1>6. ASSUME NEW u \in Customers
      PROVE  balance'[u] = balance[u] + GainOf(u, deal'[f], checkout'[f], order'[f])
                                      - GainOf(u, deal[f], checkout[f], order[f])
  <2>1. GainOf(u, deal[f], checkout[f], order[f]) =
          IF deal[f].user = u THEN 0 - deal[f].points ELSE 0
    BY <1>1, DealType DEF GainOf
  <2>2. GainOf(u, deal'[f], checkout'[f], order'[f]) =
          IF deal[f].user = u THEN Earn - deal[f].points ELSE 0
    BY <1>1, <1>2, DealType DEF GainOf
  <2>3. balance'[u] = balance[u] + (IF deal[f].user = u THEN Earn ELSE 0)
    BY <1>1, <1>4 DEF Collected
  <2> QED
    BY <1>1, <2>1, <2>2, <2>3, DealType, BalanceInt, RewardAssumption
<1>7. "earn" \in FlowKinds
  BY DEF FlowKinds
<1> QED
  BY <1>1, <1>2, <1>3, <1>4, <1>5, <1>6, <1>7, Booked

\* An order that is collected, by cash in hand or by its delivery, is rewarded once.
LEMMA BookAward ==
  ASSUME RewardInv, TypeOK', PointsInv, NEW f \in Flows, Award(f),
         order[f].state # "NONE", order'[f].state # "NONE", order'[f].paid = "paid",
         order'[f].state = "PENDING" \/ order'[f].state = "DONE" <=>
           order[f].state = "PENDING" \/ order[f].state = "DONE",
         order'[f].state = "CANCELED" <=> order[f].state = "CANCELED",
         order'[f].points = order[f].points,
         \A g \in Flows \ {f} : order'[g] = order[g],
         UNCHANGED <<voucher, deal, checkout>>
  PROVE  PointsInv'
<1>1. TypeOK /\ KeysOK(f) /\ checkout[f] # "PENDING"
  BY DEF RewardInv, PointsInv, FlowOK, Open
<1>2. VouchersKeep
  BY DEF VouchersKeep
<1>3. /\ ledger \subseteq ledger' /\ ledger' \subseteq ledger \cup {<<"earn", f>>}
      /\ deal[f].user # Guest => <<"earn", f>> \in ledger'
      /\ \A u \in Customers :
           balance'[u] = balance[u] + (IF deal[f].user = u /\ ~Collected(f) THEN Earn ELSE 0)
  BY <1>1, Earned
<1>4. KeysOK(f)'
  BY <1>1, <1>3 DEF KeysOK, Collected
<1>5. ASSUME NEW u \in Customers
      PROVE  balance'[u] = balance[u] + GainOf(u, deal'[f], checkout'[f], order'[f])
                                      - GainOf(u, deal[f], checkout[f], order[f])
  <2> DEFINE n == IF order[f].state \in {"PENDING", "DONE"} THEN deal[f].points ELSE 0
  <2>1. GainOf(u, deal[f], checkout[f], order[f]) =
          IF deal[f].user = u THEN (IF Collected(f) THEN Earn ELSE 0) - n ELSE 0
    BY <1>1 DEF GainOf, Collected
  <2>2. GainOf(u, deal'[f], checkout'[f], order'[f]) =
          IF deal[f].user = u THEN Earn - n ELSE 0
    BY <1>1 DEF GainOf
  <2>3. n \in Nat /\ Earn \in Nat /\ balance[u] \in Int
    BY <1>1, DealType, BalanceInt, RewardAssumption
  <2> HIDE DEF n
  <2> QED
    BY <1>3, <2>1, <2>2, <2>3
<1>6. "earn" \in FlowKinds
  BY DEF FlowKinds
<1> QED
  BY <1>1, <1>2, <1>3, <1>4, <1>5, <1>6, Booked

\* A refund leaves the points where they are.
LEMMA BookRefund ==
  ASSUME RewardInv, TypeOK', PointsInv, NEW f \in Flows, Refund(f)
  PROVE  PointsInv'
<1>1. TypeOK /\ KeysOK(f) /\ order[f].state # "NONE" /\ order[f].paid = "paid"
  BY DEF RewardInv, PointsInv, Refund
<1>2. /\ UNCHANGED <<deal, checkout, voucher, balance, ledger>>
      /\ order'[f].state = order[f].state /\ order'[f].paid = "refunded"
      /\ order'[f].points = order[f].points
      /\ \A g \in Flows \ {f} : order'[g] = order[g]
  BY <1>1 DEF Refund, TypeOK, Order, accounts
<1>3. VouchersKeep
  BY <1>2 DEF VouchersKeep
<1>4. KeysOK(f)'
  BY <1>1, <1>2 DEF KeysOK, Collected
<1>5. ASSUME NEW u \in Customers
      PROVE  balance'[u] = balance[u] + GainOf(u, deal'[f], checkout'[f], order'[f])
                                      - GainOf(u, deal[f], checkout[f], order[f])
  <2>1. GainOf(u, deal'[f], checkout'[f], order'[f]) =
          GainOf(u, deal[f], checkout[f], order[f])
    BY <1>1, <1>2 DEF GainOf
  <2>2. GainOf(u, deal[f], checkout[f], order[f]) \in Int
    BY <1>1, GainInt DEF TypeOK
  <2> QED
    BY <1>1, <1>2, <2>1, <2>2, BalanceInt
<1>6. "earn" \in FlowKinds /\ ledger' \subseteq ledger \cup {<<"earn", f>>}
  BY <1>2 DEF FlowKinds
<1> QED
  BY <1>1, <1>2, <1>3, <1>4, <1>5, <1>6, Booked

\* A cancelled order gives its points back, and was not given them before.
LEMMA BookCancelOrder ==
  ASSUME RewardInv, TypeOK', PointsInv, NEW f \in Flows, CancelOrder(f)
  PROVE  PointsInv'
<1>1. /\ TypeOK /\ KeysOK(f) /\ order[f].state = "PENDING" /\ checkout[f] # "PENDING"
      /\ order[f].points = deal[f].points
  BY DEF RewardInv, PointsInv, FlowOK, Open, CancelOrder, KeysOK
<1>2. /\ UNCHANGED <<deal, checkout, voucher>>
      /\ order'[f].state = "CANCELED" /\ order'[f].paid = order[f].paid
      /\ order'[f].points = order[f].points
      /\ \A g \in Flows \ {f} : order'[g] = order[g]
  BY <1>1 DEF CancelOrder, TypeOK, Order
<1>3. VouchersKeep
  BY <1>2 DEF VouchersKeep
<1>4. /\ ledger \subseteq ledger' /\ ledger' \subseteq ledger \cup {<<"cancel release", f>>}
      /\ \A u \in Customers :
           balance'[u] = balance[u] + (IF deal[f].user = u THEN deal[f].points ELSE 0)
  <2>1. deal[f].points \in Nat
    BY <1>1, DealType
  <2>2. IF deal[f].user = Guest \/ deal[f].points = 0 THEN UNCHANGED accounts
        ELSE /\ <<"cancel release", f>> \notin ledger
             /\ Credit(deal[f].user, deal[f].points, <<"cancel release", f>>)
    BY <1>1 DEF CancelOrder, RestorePoints, KeysOK
  <2> QED
    BY <1>1, <2>1, <2>2, Returned
<1>5. KeysOK(f)'
  BY <1>1, <1>2, <1>4 DEF KeysOK, Collected
<1>6. ASSUME NEW u \in Customers
      PROVE  balance'[u] = balance[u] + GainOf(u, deal'[f], checkout'[f], order'[f])
                                      - GainOf(u, deal[f], checkout[f], order[f])
  <2> DEFINE e == IF order[f].paid # "pending" THEN Earn ELSE 0
  <2>1. GainOf(u, deal[f], checkout[f], order[f]) =
          IF deal[f].user = u THEN e - deal[f].points ELSE 0
    BY <1>1 DEF GainOf
  <2>2. GainOf(u, deal'[f], checkout'[f], order'[f]) = IF deal[f].user = u THEN e - 0 ELSE 0
    BY <1>1, <1>2 DEF GainOf
  <2>3. e \in Nat /\ deal[f].points \in Nat /\ balance[u] \in Int
    BY <1>1, DealType, BalanceInt, RewardAssumption
  <2>4. balance'[u] = balance[u] + (IF deal[f].user = u THEN deal[f].points ELSE 0)
    BY <1>4
  <2> HIDE DEF e
  <2> QED
    BY <2>1, <2>2, <2>3, <2>4
<1>7. "cancel release" \in FlowKinds
  BY DEF FlowKinds
<1> QED
  BY <1>1, <1>2, <1>3, <1>4, <1>5, <1>6, <1>7, Booked

\* A claim pays the voucher's price: the voucher is new, so it was not paid before.
LEMMA BookClaim ==
  ASSUME RewardInv, TypeOK', PointsInv, NEW u \in Customers, NEW p \in Promos,
         NEW v \in Vouchers, Claim(u, p, v)
  PROVE  PointsInv'
<1>1. /\ TypeOK /\ voucher[v].status = "NONE" /\ <<"claim", v>> \notin ledger
      /\ UNCHANGED <<deal, checkout, order>>
  BY DEF RewardInv, PointsInv, ClaimOK, Claim, purchase
<1>2. /\ voucher'[v] = [status |-> "AVAILABLE", owner |-> u, promo |-> p, flow |-> {}]
      /\ \A w \in Vouchers \ {v} : voucher'[w] = voucher[w]
  BY <1>1 DEF Claim, TypeOK
<1>3. Debit(u, Cost[p], <<"claim", v>>)
  BY DEF Claim
<1>4. /\ ledger' = ledger \cup {<<"claim", v>>}
      /\ \A w \in Customers :
           balance'[w] = IF w = u THEN balance[w] - Cost[p] ELSE balance[w]
  BY <1>1, <1>3, Debited
<1>5. ASSUME NEW f \in Flows
      PROVE  KeysOK(f)'
  <2>1. ASSUME NEW kind, kind # "claim"
        PROVE  <<kind, f>> \in ledger' <=> <<kind, f>> \in ledger
    <3>1. <<kind, f>> # <<"claim", v>>
      BY <2>1
    <3> QED
      BY <3>1, <1>4
  <2>2. KeysOK(f)
    BY DEF PointsInv
  <2> QED
    BY <1>1, <2>1, <2>2 DEF KeysOK, Collected
<1>6. ASSUME NEW w \in Vouchers
      PROVE  ClaimOK(w)'
  <2>1. CASE w = v
    BY <1>2, <2>1 DEF ClaimOK
  <2>2. CASE w # v
    <3>1. <<"claim", w>> # <<"claim", v>>
      BY <2>2
    <3>2. voucher'[w] = voucher[w] /\ ClaimOK(w)
      BY <1>2, <2>2 DEF PointsInv
    <3> QED
      BY <1>4, <3>1, <3>2 DEF ClaimOK
  <2> QED
    BY <2>1, <2>2
<1>7. ASSUME NEW c \in Customers
      PROVE  BalanceOK(c)'
  <2> DEFINE s == Gains(c)
             t == Gains(c)'
             x == Prices(c)
             y == Prices(c)'
  <2>1. t = s
    BY <1>1 DEF Gains
  <2>2. \A w \in Vouchers : x[w] \in Int /\ (w # v => y[w] = x[w])
    <3>1. \A w \in Vouchers : PriceOf(c, voucher[w]) \in Int
      BY PriceInt DEF PointsInv, ClaimOK
    <3> QED
      BY <1>2, <3>1 DEF Prices
  <2>3. x[v] = 0 /\ y[v] = IF c = u THEN Cost[p] ELSE 0
    BY <1>1, <1>2 DEF Prices, PriceOf
  <2>4. Cost[p] \in Int /\ balance[c] \in Int /\ Opening \in Int
    BY <1>1, BalanceInt, RewardAssumption
  <2>5. \A f \in Flows : s[f] \in Int
    <3>1. \A f \in Flows : deal[f] \in Deal
      BY <1>1 DEF TypeOK
    <3> QED
      BY <3>1, GainInt DEF Gains
  <2>6. balance[c] = Opening + SumOf(s, Flows) - SumOf(x, Vouchers)
    BY DEF PointsInv, BalanceOK
  <2> HIDE DEF s, t, x, y
  <2>7. y[v] \in Int
    BY <2>3, <2>4
  <2>8. SumOf(y, Vouchers) = SumOf(x, Vouchers) - x[v] + y[v]
    BY <2>2, <2>7, SumChange, RewardAssumption
  <2>9. SumOf(s, Flows) \in Int /\ SumOf(x, Vouchers) \in Int
    BY <2>2, <2>5, SumInt, RewardAssumption
  <2>10. balance'[c] = Opening + SumOf(t, Flows) - SumOf(y, Vouchers)
    BY <1>4, <2>1, <2>3, <2>4, <2>6, <2>8, <2>9
  <2> QED
    BY <2>10 DEF BalanceOK, t, y
<1> QED
  BY <1>5, <1>6, <1>7 DEF PointsInv

\* Every step of a claim, a purchase or an order keeps the accounts.
LEMMA PointsStep == RewardInv /\ PointsInv /\ [Next]_vars => PointsInv'
<1> SUFFICES ASSUME RewardInv, PointsInv, [Next]_vars PROVE PointsInv'
  OBVIOUS
<1>1. TypeOK'
  BY RewardStep DEF RewardInv
<1>2. ASSUME NEW f \in Flows
      PROVE  view[f] # NoView => checkout[f] = "NONE" /\ order[f].state = "NONE"
  BY DEF RewardInv, FlowOK
<1>3. ASSUME NEW u \in Customers, NEW p \in Promos, NEW v \in Vouchers, Claim(u, p, v)
      PROVE  PointsInv'
  BY <1>1, <1>3, BookClaim
<1>4. ASSUME NEW f \in Flows, NEW by \in {"checkout", "cash"}, NEW u \in Buyers,
             NEW q \in Promos \cup {NoPromo}, NEW n \in {0, Points}, Begin(f, by, u, q, n)
      PROVE  PointsInv'
  <2>1. /\ checkout[f] = "NONE" /\ order[f].state = "NONE"
        /\ \A g \in Flows \ {f} : deal'[g] = deal[g]
        /\ UNCHANGED <<accounts, voucher, checkout, order>>
    BY <1>4 DEF Begin, RewardInv, TypeOK
  <2> QED
    BY <1>1, <2>1, BookOpen
<1>5. ASSUME NEW f \in Flows, Rollback(f)
      PROVE  PointsInv'
  <2>1. /\ checkout[f] = "NONE" /\ order[f].state = "NONE"
        /\ \A g \in Flows \ {f} : deal'[g] = deal[g]
        /\ UNCHANGED <<accounts, voucher, checkout, order>>
    BY <1>2, <1>5 DEF Rollback, RewardInv, TypeOK
  <2> QED
    BY <1>1, <2>1, BookOpen
<1>6. ASSUME NEW f \in Flows, Reserve(f) \/ PlaceCash(f) \/ FinishCancel(f) \/ Finalize(f)
                                \/ Refund(f) \/ CancelOrder(f)
      PROVE  PointsInv'
  BY <1>1, <1>6, BookReserve, BookCash, BookCancel, BookFinalize, BookRefund, BookCancelOrder
<1>7. ASSUME NEW f \in Flows, ConfirmCod(f)
      PROVE  PointsInv'
  <2>1. order \in [Flows -> Order]
    BY DEF RewardInv, TypeOK
  <2>2. /\ order[f].state # "NONE" /\ Award(f) /\ UNCHANGED <<voucher, deal, checkout>>
        /\ order' = [order EXCEPT ![f].paid = "paid"]
    BY <1>7 DEF ConfirmCod
  <2>3. /\ order'[f].state = order[f].state /\ order'[f].paid = "paid"
        /\ order'[f].points = order[f].points
        /\ \A g \in Flows \ {f} : order'[g] = order[g]
    BY <2>1, <2>2 DEF Order
  <2> QED
    BY <1>1, <2>2, <2>3, BookAward
<1>8. ASSUME NEW f \in Flows, Deliver(f)
      PROVE  PointsInv'
  <2>1. order \in [Flows -> Order]
    BY DEF RewardInv, TypeOK
  <2>2. /\ order[f].state = "PENDING" /\ Award(f) /\ UNCHANGED <<voucher, deal, checkout>>
        /\ order' = [order EXCEPT ![f].state = "DONE", ![f].paid = "paid"]
    BY <1>8 DEF Deliver
  <2>3. /\ order'[f].state = "DONE" /\ order'[f].paid = "paid"
        /\ order'[f].points = order[f].points
        /\ \A g \in Flows \ {f} : order'[g] = order[g]
    BY <2>1, <2>2 DEF Order
  <2> QED
    BY <1>1, <2>2, <2>3, BookAward
<1>9. ASSUME NEW f \in Flows, Lapse(f) \/ Pay(f) \/ RequestCancel(f) \/ BeginDelivery(f)
                                \/ AbandonDelivery(f)
      PROVE  PointsInv'
  <2>1. UNCHANGED <<balance, ledger, voucher, deal, checkout, order>>
    BY <1>9 DEF Lapse, Pay, RequestCancel, BeginDelivery, AbandonDelivery, accounts, purchase
  <2> QED
    BY <2>1, NothingBooked
<1>10. ASSUME NEW p \in Promos, Switch(p)
       PROVE  PointsInv'
  <2>1. UNCHANGED <<balance, ledger, voucher, deal, checkout, order>>
    BY <1>10 DEF Switch, accounts, purchase
  <2> QED
    BY <2>1, NothingBooked
<1>11. CASE UNCHANGED vars
  <2>1. UNCHANGED <<balance, ledger, voucher, deal, checkout, order>>
    BY <1>11 DEF vars
  <2> QED
    BY <2>1, NothingBooked
<1> QED
  BY <1>3, <1>4, <1>5, <1>6, <1>7, <1>8, <1>9, <1>10, <1>11 DEF Next, Offer

\* Gains and prices are what the balance equation adds up.
LEMMA PointsAdd == TypeOK /\ PointsInv => PointsConserved
<1> SUFFICES ASSUME TypeOK, PointsInv, NEW u \in Customers
             PROVE
    LET bought == {f \in Flows : deal[f].user = u /\ (Open(f) \/ Stands(f))}
        claimed == {v \in Vouchers : voucher[v].status # "NONE" /\ voucher[v].owner = u}
    IN balance[u] + SumOf([f \in bought |-> deal[f].points], bought)
                  + SumOf([v \in claimed |-> Cost[voucher[v].promo]], claimed)
       = Opening + Earn * Cardinality({f \in Flows : deal[f].user = u /\ Collected(f)})
  BY DEF PointsConserved
<1> DEFINE bought == {f \in Flows : deal[f].user = u /\ (Open(f) \/ Stands(f))}
           claimed == {v \in Vouchers : voucher[v].status # "NONE" /\ voucher[v].owner = u}
           paying == {f \in Flows : deal[f].user = u /\ Collected(f)}
           b == [f \in bought |-> deal[f].points]
           c == [v \in claimed |-> Cost[voucher[v].promo]]
           e == [f \in Flows |-> IF f \in paying THEN Earn ELSE 0]
           k == [f \in Flows |-> IF f \in bought THEN 0 - deal[f].points ELSE 0]
           m == [f \in bought |-> 0 - deal[f].points]
           s == Gains(u)
           x == Prices(u)
<1>1. /\ bought \in SUBSET Flows /\ claimed \in SUBSET Vouchers /\ paying \in SUBSET Flows
      /\ IsFiniteSet(Flows) /\ IsFiniteSet(Vouchers)
  BY RewardAssumption
<1>2. IsFiniteSet(bought) /\ IsFiniteSet(claimed)
  BY <1>1, FS_Subset
<1>3. /\ Earn \in Int /\ Opening \in Int /\ balance[u] \in Int
      /\ \A f \in Flows : deal[f].points \in Int
  BY DealType, BalanceInt, RewardAssumption
<1>4. balance[u] = Opening + SumOf(s, Flows) - SumOf(x, Vouchers)
  BY DEF PointsInv, BalanceOK
<1>5. \A f \in Flows : e[f] \in Int /\ k[f] \in Int /\ s[f] = e[f] + k[f]
  BY <1>3 DEF Gains, GainOf, Collected, Open, Stands
<1>6. (\A f \in paying : e[f] = Earn) /\ (\A f \in Flows \ paying : e[f] = 0)
  OBVIOUS
<1>7. \A f \in bought : /\ b[f] \in Int /\ k[f] \in Int /\ m[f] = k[f] /\ m[f] = (-1) * b[f]
  BY <1>1, <1>3
<1>8. \A f \in Flows \ bought : k[f] = 0
  OBVIOUS
<1>9. \A v \in claimed : x[v] \in Int /\ c[v] = x[v]
  <2>1. \A v \in claimed : /\ v \in Vouchers /\ voucher[v].status # "NONE"
                           /\ voucher[v].owner = u /\ voucher[v].promo \in Promos
    BY DEF PointsInv, ClaimOK
  <2> QED
    BY <2>1, RewardAssumption DEF Prices, PriceOf
<1>10. \A v \in Vouchers \ claimed : x[v] = 0
  BY DEF Prices, PriceOf
<1> HIDE DEF bought, claimed, b, c, e, k, m, s, x
<1>11. SumOf(s, Flows) = SumOf(e, Flows) + SumOf(k, Flows)
  BY <1>1, <1>5, SumPlus
<1>12. SumOf(e, Flows) = Earn * Cardinality(paying)
  <2> HIDE DEF paying
  <2> QED
    BY <1>1, <1>3, <1>6, SumWhere
<1>13. SumOf(k, Flows) = (-1) * SumOf(b, bought)
  <2>1. SumOf(k, Flows) = SumOf(k, bought)
    BY <1>1, <1>7, <1>8, SumSupport
  <2>2. SumOf(m, bought) = SumOf(k, bought)
    BY <1>2, <1>7, SumSame
  <2>3. SumOf(m, bought) = (-1) * SumOf(b, bought)
    BY <1>2, <1>7, SumScale
  <2> QED
    BY <2>1, <2>2, <2>3
<1>14. SumOf(x, Vouchers) = SumOf(c, claimed)
  <2>1. SumOf(x, Vouchers) = SumOf(x, claimed)
    BY <1>1, <1>9, <1>10, SumSupport
  <2>2. SumOf(c, claimed) = SumOf(x, claimed)
    BY <1>2, <1>9, SumSame
  <2> QED
    BY <2>1, <2>2
<1>15. SumOf(b, bought) \in Int /\ SumOf(c, claimed) \in Int /\ SumOf(e, Flows) \in Int
  <2>1. SumOf(x, claimed) \in Int /\ SumOf(b, bought) \in Int /\ SumOf(e, Flows) \in Int
    BY <1>1, <1>2, <1>5, <1>7, <1>9, SumInt
  <2>2. SumOf(c, claimed) = SumOf(x, claimed)
    BY <1>2, <1>9, SumSame
  <2> QED
    BY <2>1, <2>2
<1>16. balance[u] + SumOf(b, bought) + SumOf(c, claimed) = Opening + SumOf(e, Flows)
  BY <1>3, <1>4, <1>11, <1>13, <1>14, <1>15
<1>17. balance[u] + SumOf(b, bought) + SumOf(c, claimed) = Opening + Earn * Cardinality(paying)
  BY <1>12, <1>16
<1> QED
  BY <1>17 DEF b, c, bought, claimed

-----------------------------------------------------------------------------
(* Theorems *)

\* What redemptions and vouchers say of each other stays true through every step of
\* a claim, a purchase, a cancellation and an order.
THEOREM RewardInvariant == Spec => []RewardInv
<1>1. RewardInv /\ [Next]_vars => RewardInv'
  BY RewardStep
<1> QED
  BY RewardInit, <1>1, PTL DEF Spec

\* Every row keeps the values its columns allow, whatever requests, tasks and
\* deliveries do: a balance never falls below nothing nor passes the maximum.
THEOREM RewardTypes == Spec => []TypeOK
<1>1. RewardInv => TypeOK
  BY DEF RewardInv
<1> QED
  BY <1>1, RewardInvariant, PTL

\* A discount that needs a voucher always has one of the buyer's own, held by no
\* other purchase, from the reservation to the end of the order.
THEOREM VouchersBack == Spec => []VoucherBacks
<1>1. RewardInv => VoucherBacks
  <2> SUFFICES ASSUME RewardInv, NEW f \in Flows, NeedsVoucher(f)
               PROVE  /\ Open(f) =>
                           \E v \in Vouchers : /\ voucher[v].status = "RESERVED"
                                               /\ voucher[v].flow = {f}
                                               /\ voucher[v].owner = deal[f].user
                      /\ order[f].state # "NONE" =>
                           \E v \in Vouchers : /\ voucher[v].status = "REDEEMED"
                                               /\ voucher[v].flow = {f}
                                               /\ voucher[v].owner = deal[f].user
    BY DEF VoucherBacks, NeedsVoucher
  <2>1. FlowOK(f) /\ BackedFlow(f)
    BY DEF RewardInv, VouchersOK
  <2>2. ASSUME NEW v \in Vouchers, voucher[v].flow = {f},
               voucher[v].status \in {"RESERVED", "REDEEMED"}
        PROVE  voucher[v].owner = deal[f].user
    <3>1. PICK g \in Flows : HeldBy(v, g)
      BY <2>2 DEF RewardInv, VouchersOK, VoucherOK
    <3>2. g = f
      BY <2>2, <3>1 DEF HeldBy
    <3> QED
      BY <3>1, <3>2 DEF HeldBy
  <2>3. Open(f) => VoucherFor(f, "RESERVED")
    BY <2>1 DEF FlowOK, BackedFlow, NeedsVoucher
  <2>4. order[f].state # "NONE" => VoucherFor(f, "REDEEMED")
    BY <2>1 DEF FlowOK, BackedFlow, NeedsVoucher
  <2> QED
    BY <2>2, <2>3, <2>4 DEF VoucherFor
<1> QED
  BY <1>1, RewardInvariant, PTL

\* Whatever buyers claim, reserve, pay, cancel and let lapse, a reward is given out no
\* more often than its limit, but for the checkouts that outlived their window.
THEOREM RewardLimitHolds == Spec => []RewardLimitKept
<1>1. RewardInv /\ LimitInv => RewardLimitKept
  <2> SUFFICES ASSUME RewardInv, LimitInv, NEW p \in Promos, Cost[p] > 0
               PROVE  Used(p) <= Limit[p] + Cardinality({f \in lapsed : deal[f].promo = p})
    BY DEF RewardLimitKept
  <2>1. lapsed \subseteq Flows
    BY DEF RewardInv, TypeOK
  <2>2. Used(p) \in Nat /\ Used(p) <= Given(p) /\ Given(p) \in Nat
    BY <2>1, UsedGiven, Finite DEF Given
  <2>3. Given(p) <= Limit[p] + Cardinality(LapsedOf(p)) /\ Limit[p] \in Nat
    BY RewardAssumption DEF LimitInv
  <2>4. Cardinality(LapsedOf(p)) \in Nat
    BY <2>1, Finite
  <2>5. Used(p) <= Limit[p] + Cardinality(LapsedOf(p))
    BY <2>2, <2>3, <2>4
  <2> QED
    BY <2>5 DEF LapsedOf
<1>2. RewardInv /\ LimitInv /\ [Next]_vars => LimitInv'
  BY LimitStep
<1> QED
  BY <1>1, <1>2, LimitInit, RewardInvariant, PTL DEF Spec

\* However purchases, cancellations, payments, deliveries and refunds interleave,
\* no customer's points are lost, returned twice or earned twice: the balance is the
\* opening one, plus what collected orders earned, less what is held and spent.
THEOREM PointsAlwaysConserved == Spec => []PointsConserved
<1>1. RewardInv /\ PointsInv => PointsConserved
  BY PointsAdd DEF RewardInv
<1>2. RewardInv /\ PointsInv /\ [Next]_vars => PointsInv'
  BY PointsStep
<1> QED
  BY <1>1, <1>2, PointsInit, RewardInvariant, PTL DEF Spec

=============================================================================
