------------------------------ MODULE Rewards -------------------------------
(***************************************************************************)
(* Promotions, loyalty points and vouchers, from the claim of a reward to  *)
(* the end of the order that used it.  A purchase is a PayOS checkout that *)
(* may become an order, or a cash order; both go by the same flow.         *)
(*                                                                         *)
(* Each transaction locks the rows it decides on, except in one place: a   *)
(* purchase opens its REPEATABLE READ snapshot before it waits for the     *)
(* promotion, and counts the promotion's uses in that snapshot.  A         *)
(* delivery likewise looks for the award in the snapshot it opened first.  *)
(*                                                                         *)
(* Stock, prices and delivery quotes are not modelled: whatever else can   *)
(* fail in a purchase rolls it back.                                       *)
(***************************************************************************)
EXTENDS FiniteSets, Sums

CONSTANTS
  Customers,  \* users with a loyalty account
  Guest,      \* a buyer without one
  Flows,      \* bound: purchases
  Vouchers,   \* bound: vouchers ever claimed
  Promos,     \* promotions
  Cost,       \* loyalty_points_cost, 0 of an ordinary promotion
  Limit,      \* usage_limit
  Opening,    \* points a customer starts with
  Points,     \* points a purchase uses, if any
  Earn,       \* points a paid order is worth
  MaxPoints   \* MAX_LOYALTY_POINTS; 2^31 - 1 in the code

ASSUME RewardAssumption ==
  /\ Guest \notin Customers
  /\ IsFiniteSet(Flows) /\ IsFiniteSet(Vouchers)
  /\ Cost \in [Promos -> Nat] /\ Limit \in [Promos -> Nat]
  /\ Points \in Nat \ {0} /\ Earn \in Nat /\ MaxPoints \in Nat
  /\ Opening \in 0..MaxPoints

NoPromo == "none"
ASSUME PromoAssumption == NoPromo \notin Promos

VARIABLES
  balance,     \* loyalty_accounts
  ledger,      \* event keys of loyalty_ledger
  voucher,     \* loyalty_vouchers
  active,      \* promotions that are on
  deal,        \* what a purchase was asked to use
  view,        \* the snapshot an unfinished purchase reads from
  checkout,    \* pending_checkouts.status
  redemption,  \* discount_redemptions.status of the purchase
  order,       \* the order: state, how and whether it is paid, points it used
  lapsed,      \* purchases whose expires_at has passed
  attempt,     \* the PayOS attempt: verified paid, cancellation requested
  courier      \* what an unfinished delivery saw of the award

accounts == <<balance, ledger>>
purchase == <<deal, view, checkout, redemption, order>>
vars == <<balance, ledger, voucher, active, deal, view, checkout, redemption,
          order, lapsed, attempt, courier>>

-----------------------------------------------------------------------------
(* Values *)

Buyers == Customers \cup {Guest}
EventKey == ({"claim"} \X Vouchers) \cup
  ({"redeem", "release", "order redeem", "cancel release", "earn"} \X Flows)

Voucher == [status : {"NONE", "AVAILABLE", "RESERVED", "REDEEMED"},
            owner : Buyers, promo : Promos \cup {NoPromo}, flow : SUBSET Flows]
NoVoucher == [status |-> "NONE", owner |-> Guest, promo |-> NoPromo, flow |-> {}]

Deal == [user : Buyers, promo : Promos \cup {NoPromo}, points : {0, Points}]
NoDeal == [user |-> Guest, promo |-> NoPromo, points |-> 0]

\* The uses a snapshot shows: redemptions consumed and reserved, free vouchers.
View == [by : {"nobody", "checkout", "cash"}, consumed : SUBSET Flows,
         reserved : SUBSET Flows, free : SUBSET Vouchers]
NoView == [by |-> "nobody", consumed |-> {}, reserved |-> {}, free |-> {}]

Order == [state : {"NONE", "PENDING", "DONE", "CANCELED"},
          paid : {"pending", "paid", "refunded"},
          provider : {"cash", "payos"}, points : {0, Points}]
NoOrder == [state |-> "NONE", paid |-> "pending", provider |-> "cash", points |-> 0]

TypeOK ==
  /\ balance \in [Customers -> 0..MaxPoints]
  /\ ledger \subseteq EventKey
  /\ voucher \in [Vouchers -> Voucher]
  /\ active \subseteq Promos
  /\ deal \in [Flows -> Deal]
  /\ view \in [Flows -> View]
  /\ checkout \in [Flows -> {"NONE", "PENDING", "RELEASED", "CONSUMED"}]
  /\ redemption \in [Flows -> {"NONE", "RESERVED", "RELEASED", "CONSUMED"}]
  /\ order \in [Flows -> Order]
  /\ lapsed \subseteq Flows
  /\ attempt \in [Flows -> [paid : BOOLEAN, cancelled : BOOLEAN]]
  /\ courier \in [Flows -> {"away", "unearned", "earned"}]

Init ==
  /\ balance = [u \in Customers |-> Opening]
  /\ ledger = {}
  /\ voucher = [v \in Vouchers |-> NoVoucher]
  /\ active = Promos
  /\ deal = [f \in Flows |-> NoDeal]
  /\ view = [f \in Flows |-> NoView]
  /\ checkout = [f \in Flows |-> "NONE"]
  /\ redemption = [f \in Flows |-> "NONE"]
  /\ order = [f \in Flows |-> NoOrder]
  /\ lapsed = {}
  /\ attempt = [f \in Flows |-> [paid |-> FALSE, cancelled |-> FALSE]]
  /\ courier = [f \in Flows |-> "away"]

-----------------------------------------------------------------------------
(* The ledger *)

\* Mutant of Credit: nothing looks for the event key.
CreditAgain(u, points, key) ==
  /\ balance[u] + points <= MaxPoints
  /\ balance' = [balance EXCEPT ![u] = @ + points]
  /\ ledger' = ledger \cup {key}

\* applyDelta with points to add: once for a key, and never past the maximum.
Credit(u, points, key) ==
  IF key \in ledger
  THEN UNCHANGED accounts
  ELSE /\ balance[u] + points <= MaxPoints
       /\ balance' = [balance EXCEPT ![u] = @ + points]
       /\ ledger' = ledger \cup {key}

\* applyDelta with points to take
Debit(u, points, key) ==
  IF key \in ledger
  THEN UNCHANGED accounts
  ELSE /\ balance[u] >= points
       /\ balance' = [balance EXCEPT ![u] = @ - points]
       /\ ledger' = ledger \cup {key}

\* holdCheckoutPoints and redeemOrderPoints: only a signed-in buyer has points.
TakePoints(f, key) ==
  IF deal[f].points = 0
  THEN UNCHANGED accounts
  ELSE deal[f].user # Guest /\ Debit(deal[f].user, deal[f].points, <<key, f>>)

\* awardPaidOrder, once the order is paid
Award(f) ==
  IF deal[f].user = Guest
  THEN UNCHANGED accounts
  ELSE Credit(deal[f].user, Earn, <<"earn", f>>)

-----------------------------------------------------------------------------
(* Uses of a promotion *)

With(p, status) == {f \in Flows : deal[f].promo = p /\ redemption[f] = status}
Free(p) == {v \in Vouchers : voucher[v].status = "AVAILABLE" /\ voucher[v].promo = p}

\* getPromotionUsage: expires_at is compared with the time of the count.
Usage(seen, own) ==
  Cardinality(seen.consumed) + Cardinality(seen.reserved \ lapsed)
    + Cardinality(seen.free \ own)

Snapshot(by, p) ==
  [by |-> by, consumed |-> With(p, "CONSUMED"), reserved |-> With(p, "RESERVED"),
   free |-> Free(p)]

Used(p) == Usage(Snapshot("nobody", p), {})

\* getPromotionForUpdate: the voucher a code names, none for an ordinary code.
Offers(f) ==
  LET p == deal[f].promo IN
  IF Cost[p] = 0
  THEN {{}}
  ELSE {{v} : v \in {w \in Free(p) : voucher[w].owner = deal[f].user}}

\* getPromotionForUpdate and assertUsageAvailable
MayUse(f, own) ==
  LET p == deal[f].promo IN p \in active /\ Usage(view[f], own) < Limit[p]

MoveVouchers(vs, status, flow) ==
  voucher' = [v \in Vouchers |->
    IF v \in vs THEN [voucher[v] EXCEPT !.status = status, !.flow = flow]
    ELSE voucher[v]]

ReservedBy(f) == {v \in Vouchers : voucher[v].status = "RESERVED" /\ f \in voucher[v].flow}

-----------------------------------------------------------------------------
(* Rewards and promotions *)

\* Mutant of MayClaim: the vouchers others hold are not counted.
MayClaimConsumed(u, p) ==
  /\ Cost[p] > 0 /\ p \in active
  /\ Cardinality(With(p, "CONSUMED")) < Limit[p]
  /\ balance[u] >= Cost[p]

\* The promotion is locked before its uses are counted.
MayClaim(u, p) ==
  /\ Cost[p] > 0 /\ p \in active
  /\ Used(p) < Limit[p]
  /\ balance[u] >= Cost[p]

\* claimReward
Claim(u, p, v) ==
  /\ voucher[v].status = "NONE"
  /\ MayClaim(u, p)
  /\ voucher' = [voucher EXCEPT ![v] =
       [status |-> "AVAILABLE", owner |-> u, promo |-> p, flow |-> {}]]
  /\ Debit(u, Cost[p], <<"claim", v>>)
  /\ UNCHANGED <<active, purchase, lapsed, attempt, courier>>

\* updatePromotionForAdmin, deactivatePromotionForAdmin
Switch(p) ==
  /\ active' = IF p \in active THEN active \ {p} ELSE active \cup {p}
  /\ UNCHANGED <<accounts, voucher, purchase, lapsed, attempt, courier>>

-----------------------------------------------------------------------------
(* Purchases *)

\* A request locks its products, and its first plain SELECT opens the snapshot.
Begin(f, by, u, p, points) ==
  /\ deal[f] = NoDeal /\ view[f] = NoView
  /\ checkout[f] = "NONE" /\ order[f].state = "NONE"
  /\ deal' = [deal EXCEPT ![f] = [user |-> u, promo |-> p, points |-> points]]
  /\ view' = [view EXCEPT ![f] = Snapshot(by, p)]
  /\ UNCHANGED <<accounts, voucher, active, checkout, redemption, order, lapsed,
                 attempt, courier>>

\* No stock, a changed price, a stale quote, a refused code, too few points
Rollback(f) ==
  /\ view[f] # NoView
  /\ deal' = [deal EXCEPT ![f] = NoDeal]
  /\ view' = [view EXCEPT ![f] = NoView]
  /\ UNCHANGED <<accounts, voucher, active, checkout, redemption, order, lapsed,
                 attempt, courier>>

\* reservePromotion, consumePromotion: status of redemption and of voucher
UsePromo(f, redeemed, held) ==
  IF deal[f].promo = NoPromo
  THEN UNCHANGED <<redemption, voucher>>
  ELSE \E own \in Offers(f) :
         /\ MayUse(f, own)
         /\ redemption' = [redemption EXCEPT ![f] = redeemed]
         /\ MoveVouchers(own, held, {f})

\* reserveInventoryInternal: a PayOS checkout takes what it uses.
Reserve(f) ==
  /\ view[f].by = "checkout"
  /\ UsePromo(f, "RESERVED", "RESERVED")
  /\ TakePoints(f, "redeem")
  /\ checkout' = [checkout EXCEPT ![f] = "PENDING"]
  /\ view' = [view EXCEPT ![f] = NoView]
  /\ UNCHANGED <<active, deal, order, lapsed, attempt, courier>>

\* createOrderFromValidatedCart: a cash order
PlaceCash(f) ==
  /\ view[f].by = "cash"
  /\ UsePromo(f, "CONSUMED", "REDEEMED")
  /\ TakePoints(f, "order redeem")
  /\ order' = [order EXCEPT ![f] =
       [state |-> "PENDING", paid |-> "pending", provider |-> "cash",
        points |-> deal[f].points]]
  /\ view' = [view EXCEPT ![f] = NoView]
  /\ UNCHANGED <<active, deal, checkout, lapsed, attempt, courier>>

-----------------------------------------------------------------------------
(* The checkout's fate *)

\* expires_at passes: points and voucher stay held, for a late payment may still
\* sell.  Nothing calls expirePayOSOrder, so no checkout is ever EXPIRED.
Lapse(f) ==
  /\ checkout[f] \in {"PENDING", "RELEASED"} /\ f \notin lapsed
  /\ lapsed' = lapsed \cup {f}
  /\ UNCHANGED <<accounts, voucher, active, purchase, attempt, courier>>

\* recordObservation finds the attempt paid; a cancelled link may still be.
Pay(f) ==
  /\ checkout[f] # "NONE" /\ ~attempt[f].paid
  /\ attempt' = [attempt EXCEPT ![f].paid = TRUE]
  /\ UNCHANGED <<accounts, voucher, active, purchase, lapsed, courier>>

\* requestOwnedCancellation
RequestCancel(f) ==
  /\ checkout[f] # "NONE" /\ order[f].state = "NONE" /\ ~attempt[f].cancelled
  /\ attempt' = [attempt EXCEPT ![f].cancelled = TRUE]
  /\ UNCHANGED <<accounts, voucher, active, purchase, lapsed, courier>>

\* finishCancellationWindow
Returnable(f) ==
  attempt[f].cancelled /\ order[f].state = "NONE" /\ ~attempt[f].paid

\* releaseCheckoutPoints, in the transaction of releaseCancelledCheckout
ReturnPoints(f) ==
  IF checkout[f] = "CONSUMED" \/ deal[f].user = Guest \/ deal[f].points = 0
  THEN UNCHANGED accounts
  ELSE Credit(deal[f].user, deal[f].points, <<"release", f>>)

\* It may run again for the same checkout, by another task.
FinishCancel(f) ==
  /\ checkout[f] # "NONE"
  /\ Returnable(f)
  /\ checkout' = [checkout EXCEPT ![f] = IF @ = "PENDING" THEN "RELEASED" ELSE @]
  /\ redemption' = [redemption EXCEPT ![f] = IF @ = "RESERVED" THEN "RELEASED" ELSE @]
  /\ ReturnPoints(f)
  /\ MoveVouchers(ReservedBy(f), "AVAILABLE", {})
  /\ UNCHANGED <<active, deal, view, order, lapsed, attempt, courier>>

\* Mutant of Sellable: a cancelled checkout that was paid is sold.
SellableReleased(f) ==
  /\ attempt[f].paid /\ order[f].state = "NONE"
  /\ checkout[f] \in {"PENDING", "RELEASED"}

\* The checks of finalizePayOSAttemptCheckout; otherwise it is reviewed.
Sellable(f) ==
  /\ attempt[f].paid /\ ~attempt[f].cancelled /\ order[f].state = "NONE"
  /\ checkout[f] = "PENDING"
  /\ deal[f].promo # NoPromo => redemption[f] \in {"RESERVED", "RELEASED"}

\* finalizePayOSAttemptCheckout with consumePaidPromotionReservation
Finalize(f) ==
  /\ Sellable(f)
  /\ order' = [order EXCEPT ![f] =
       [state |-> "PENDING", paid |-> "paid", provider |-> "payos",
        points |-> deal[f].points]]
  /\ redemption' = [redemption EXCEPT ![f] = IF @ = "NONE" THEN @ ELSE "CONSUMED"]
  /\ MoveVouchers(ReservedBy(f), "REDEEMED", {f})
  /\ Award(f)
  /\ checkout' = [checkout EXCEPT ![f] = "CONSUMED"]
  /\ UNCHANGED <<active, deal, view, lapsed, attempt, courier>>

-----------------------------------------------------------------------------
(* The order's fate *)

\* confirmCod looks at the payment alone, and may be repeated.
ConfirmCod(f) ==
  /\ order[f].state # "NONE" /\ order[f].provider = "cash"
  /\ order' = [order EXCEPT ![f].paid = "paid"]
  /\ Award(f)
  /\ UNCHANGED <<voucher, active, deal, view, checkout, redemption, lapsed, attempt,
                 courier>>

\* transition reads the assignment, and opens its snapshot, before it locks.
BeginDelivery(f) ==
  /\ order[f].state # "NONE" /\ courier[f] = "away"
  /\ courier' = [courier EXCEPT ![f] =
       IF <<"earn", f>> \in ledger THEN "earned" ELSE "unearned"]
  /\ UNCHANGED <<accounts, voucher, active, purchase, lapsed, attempt>>

\* completeDeliveredOrder and awardPaidOrder.  An award the snapshot does not
\* show meets the unique event key, and the delivery is rolled back.
Deliver(f) ==
  /\ courier[f] # "away"
  /\ order[f].state = "PENDING"
  /\ order[f].provider = "payos" => order[f].paid = "paid"
  /\ ~(courier[f] = "unearned" /\ <<"earn", f>> \in ledger)
  /\ order' = [order EXCEPT ![f].state = "DONE", ![f].paid = "paid"]
  /\ Award(f)
  /\ courier' = [courier EXCEPT ![f] = "away"]
  /\ UNCHANGED <<voucher, active, deal, view, checkout, redemption, lapsed, attempt>>

AbandonDelivery(f) ==
  /\ courier[f] # "away"
  /\ courier' = [courier EXCEPT ![f] = "away"]
  /\ UNCHANGED <<accounts, voucher, active, purchase, lapsed, attempt>>

\* A manual refund of the whole payment is confirmed.
Refund(f) ==
  /\ order[f].state # "NONE" /\ order[f].paid = "paid"
  /\ order[f].provider = "payos"
  /\ order' = [order EXCEPT ![f].paid = "refunded"]
  /\ UNCHANGED <<accounts, voucher, active, deal, view, checkout, redemption, lapsed,
                 attempt, courier>>

\* restoreCanceledOrderPoints
RestorePoints(f) ==
  IF deal[f].user = Guest \/ order[f].points = 0
  THEN UNCHANGED accounts
  ELSE Credit(deal[f].user, order[f].points, <<"cancel release", f>>)

\* cancelInTransaction: the promotion and the voucher stay used.
CancelOrder(f) ==
  /\ order[f].state = "PENDING"
  /\ ~(order[f].provider = "payos" /\ order[f].paid = "paid")
  /\ order' = [order EXCEPT ![f].state = "CANCELED"]
  /\ RestorePoints(f)
  /\ UNCHANGED <<voucher, active, deal, view, checkout, redemption, lapsed, attempt,
                 courier>>

-----------------------------------------------------------------------------
Offer ==
  \/ \E u \in Customers, p \in Promos, v \in Vouchers : Claim(u, p, v)
  \/ \E p \in Promos : Switch(p)
  \/ \E f \in Flows, by \in {"checkout", "cash"}, u \in Buyers,
        p \in Promos \cup {NoPromo}, n \in {0, Points} : Begin(f, by, u, p, n)

Next ==
  \/ Offer
  \/ \E f \in Flows :
       \/ Rollback(f) \/ Reserve(f) \/ PlaceCash(f)
       \/ Lapse(f) \/ Pay(f) \/ RequestCancel(f)
       \/ FinishCancel(f) \/ Finalize(f)
       \/ ConfirmCod(f) \/ BeginDelivery(f) \/ Deliver(f) \/ AbandonDelivery(f)
       \/ Refund(f) \/ CancelOrder(f)

Spec == Init /\ [][Next]_vars

-----------------------------------------------------------------------------
(* Properties *)

Collected(f) == order[f].state # "NONE" /\ order[f].paid # "pending"
Open(f) == checkout[f] = "PENDING"
Stands(f) == order[f].state \in {"PENDING", "DONE"}

\* A customer's points are the opening balance, plus what every collected order
\* earned, less the points of open checkouts and standing orders and the price
\* of the vouchers claimed: none is lost, returned twice or earned twice, though
\* a purchase and its order return points under different event keys.
PointsConserved ==
  \A u \in Customers :
    LET bought == {f \in Flows : deal[f].user = u /\ (Open(f) \/ Stands(f))}
        claimed == {v \in Vouchers : voucher[v].status # "NONE" /\ voucher[v].owner = u}
    IN balance[u] + SumOf([f \in bought |-> deal[f].points], bought)
                  + SumOf([v \in claimed |-> Cost[voucher[v].promo]], claimed)
       = Opening + Earn * Cardinality({f \in Flows : deal[f].user = u /\ Collected(f)})

\* A discount that needs a voucher has one of the buyer's own: reserved while the
\* checkout is open, redeemed once there is an order, and in no other purchase.
VoucherBacks ==
  \A f \in Flows :
    deal[f].promo # NoPromo /\ Cost[deal[f].promo] > 0 =>
      /\ Open(f) =>
           \E v \in Vouchers : /\ voucher[v].status = "RESERVED"
                               /\ voucher[v].flow = {f}
                               /\ voucher[v].owner = deal[f].user
      /\ order[f].state # "NONE" =>
           \E v \in Vouchers : /\ voucher[v].status = "REDEEMED"
                               /\ voucher[v].flow = {f}
                               /\ voucher[v].owner = deal[f].user

\* A reward is given out no more often than its limit, except that a checkout
\* that outlived its window is no longer counted and may still be paid, or give
\* its voucher back, after another customer took its place.
RewardLimitKept ==
  \A p \in Promos :
    Cost[p] > 0 =>
      Used(p) <= Limit[p] + Cardinality({f \in lapsed : deal[f].promo = p})

\* No more checkouts hold a promotion at a time than its usage limit.
ReservationsWithinLimit ==
  \A p \in Promos : Cardinality(With(p, "RESERVED") \ lapsed) <= Limit[p]
=============================================================================
