--------------------------- MODULE CheckoutSession ---------------------------
(***************************************************************************)
(* The PayOS checkout form of one browser tab: the requests it sends, the  *)
(* reservation and payment attempt they claim under the tab's idempotency  *)
(* key, and the payment link they create under a lease.                    *)
(*                                                                         *)
(* The tab keeps its key until the cart, the quote or the address changes, *)
(* the server answers 409 or the purchase is complete, so requests with    *)
(* one key race: the page is reloaded while one runs, or its answer is     *)
(* lost.  All of the cart is one unit here.  Module Checkout has the money *)
(* and PayOSTasks the tasks that watch the link; here `Observe`, `Release` *)
(* and `Lapse` are what they do to a checkout.  PayOS is external.         *)
(***************************************************************************)
EXTENDS Integers, FiniteSets

CONSTANTS
  Keys,       \* bound: idempotency keys the tab generates
  Requests,   \* bound: submissions; one stands for its tokens as well
  Nobody,     \* no request
  NoKey,
  Units,      \* stock left for this cart
  MaxTrouble  \* bound: dead handlers, overtaken leases and failed queries

ASSUME SessionAssumption ==
  /\ Nobody \notin Requests /\ NoKey \notin Keys
  /\ Units \in Nat /\ MaxTrouble \in Nat

VARIABLES
  page,     \* checkoutPending of the tab, and what it waits for and has shown
  request,  \* the submissions
  attempt,  \* payment_attempts by idempotency key
  hold,     \* status of the pending checkout each request inserted
  link,     \* the payment link of each attempt's code at PayOS
  late,     \* create calls PayOS is still carrying out
  trouble

vars == <<page, request, attempt, hold, link, late, trouble>>

Waiting == {"find", "validate", "reserve", "lease", "lookup", "create",
            "recheck", "recreate", "save", "reread", "answer"}
Result == {"READY", "CREATING", "CLOSED", "REFUSED"}
LinkStatus == {"NONE", "PENDING", "PAID", "CANCELLED"}

Attempt == [by : Requests \cup {Nobody}, pay : {"PENDING", "PAID", "CANCELLED"},
            order : BOOLEAN, bound : BOOLEAN, expired : BOOLEAN,
            token : Requests \cup {Nobody}, leased : BOOLEAN]
NewAttempt == [by |-> Nobody, pay |-> "PENDING", order |-> FALSE,
               bound |-> FALSE, expired |-> FALSE, token |-> Nobody,
               leased |-> FALSE]

\* `kept` is the guest token the tab had when it sent the request, `mine` says
\* that this request made the reservation, `first` that it looks up first.
Request == [step : Waiting \cup {"unused", "done"}, key : Keys \cup {NoKey},
            kept : Requests \cup {Nobody}, mine : BOOLEAN, first : BOOLEAN,
            status : LinkStatus, result : Result]
Unused == [step |-> "unused", key |-> NoKey, kept |-> Nobody, mine |-> FALSE,
           first |-> FALSE, status |-> "NONE", result |-> "CREATING"]

TypeOK ==
  /\ page \in [guest : BOOLEAN, key : Keys \cup {NoKey},
               token : Requests \cup {Nobody}, wait : Requests \cup {Nobody},
               shown : SUBSET Keys]
  /\ request \in [Requests -> Request]
  /\ attempt \in [Keys -> Attempt]
  /\ hold \in [Requests -> {"NONE", "PENDING", "RELEASED", "CONSUMED"}]
  /\ link \in [Keys -> LinkStatus]
  /\ late \subseteq Keys
  /\ trouble \in 0..MaxTrouble

Init ==
  /\ page \in [guest : BOOLEAN, key : {NoKey}, token : {Nobody},
               wait : {Nobody}, shown : {{}}]
  /\ request = [r \in Requests |-> Unused]
  /\ attempt = [k \in Keys |-> NewAttempt]
  /\ hold = [r \in Requests |-> "NONE"]
  /\ link = [k \in Keys |-> "NONE"]
  /\ late = {}
  /\ trouble = 0

Trouble == trouble < MaxTrouble /\ trouble' = trouble + 1

-----------------------------------------------------------------------------
(* Helpers *)

At(r, step) == request[r].step = step
KeyOf(r) == request[r].key
AttemptOf(r) == attempt[KeyOf(r)]

Turn(r, step) == request' = [request EXCEPT ![r].step = step]
Leave(r) ==
  request' = [request EXCEPT
    ![r] = [Unused EXCEPT !.step = "done", !.key = KeyOf(r)]]
Answer(r, result) ==
  request' = [request EXCEPT ![r].step = "answer", ![r].result = result]

\* Units neither sold nor held by an unexpired reservation, this tab's own too.
Taken(r) ==
  hold[r] = "CONSUMED" \/ (hold[r] = "PENDING" /\ ~AttemptOf(r).expired)
InStock == Cardinality({r \in Requests : Taken(r)}) < Units

\* Mutant of Claimed: an attempt that is over is not found by its key.
ClaimedOpen(k) == attempt[k].by # Nobody /\ attempt[k].pay = "PENDING"

\* findExistingClaim
Claimed(k) == attempt[k].by # Nobody

\* resultFromAttempt: a link id without a saved url still makes a url.
ResultOf(a) ==
  IF a.pay # "PENDING" \/ a.order \/ a.expired THEN "CLOSED"
  ELSE IF a.bound THEN "READY" ELSE "CREATING"

-----------------------------------------------------------------------------
(* The tab *)

\* getOrCreatePayOSSubmission: the stored key, or a new one where none is stored
\* or the request changed.  A signed-in customer's page asks for stock first.
FreshKey(k) == \A r \in Requests : KeyOf(r) # k
Submit(r, k) ==
  /\ At(r, "unused") /\ page.wait = Nobody
  /\ page.guest \/ InStock
  /\ k = page.key \/ FreshKey(k)
  /\ LET kept == IF k = page.key THEN page.token ELSE Nobody IN
       /\ request' = [request EXCEPT
            ![r] = [Unused EXCEPT !.step = "find", !.key = k, !.kept = kept]]
       /\ page' = [page EXCEPT !.key = k, !.token = kept, !.wait = r]
  /\ UNCHANGED <<attempt, hold, link, late, trouble>>

\* The page is reloaded or the connection breaks; the handler goes on.
Reload ==
  /\ page.wait # Nobody
  /\ page' = [page EXCEPT !.wait = Nobody]
  /\ UNCHANGED <<request, attempt, hold, link, late, trouble>>

\* Mutant of TokenFor: the token is returned whoever made the reservation.
TokenAlways(r) == IF page.guest THEN r ELSE Nobody

\* A guest's answer bears the token whose hash the new reservation stores.
TokenFor(r) == IF page.guest /\ request[r].mine THEN r ELSE request[r].kept

\* The answer arrives, unless nobody waits for it: a 409 forgets the key.
Receive(r) ==
  /\ At(r, "answer")
  /\ Leave(r)
  /\ page' =
       IF page.wait # r THEN page
       ELSE IF request[r].result = "REFUSED"
       THEN [page EXCEPT !.wait = Nobody, !.key = NoKey, !.token = Nobody]
       ELSE [page EXCEPT !.wait = Nobody, !.token = TokenFor(r),
               !.shown = IF request[r].result = "READY"
                         THEN @ \cup {KeyOf(r)} ELSE @]
  /\ UNCHANGED <<attempt, hold, link, late, trouble>>

\* The success page sees the order and forgets the checkout.
Complete(k) ==
  /\ k \in page.shown /\ attempt[k].order
  /\ page.wait = Nobody /\ page.key # NoKey
  /\ page' = [page EXCEPT !.key = NoKey, !.token = Nobody]
  /\ UNCHANGED <<request, attempt, hold, link, late, trouble>>

-----------------------------------------------------------------------------
(* Claiming the checkout *)

\* An attempt that is found is answered as it stands, or its link is made.
Find(r) ==
  /\ At(r, "find")
  /\ LET result == ResultOf(AttemptOf(r)) IN
       IF ~Claimed(KeyOf(r)) THEN Turn(r, "validate")
       ELSE IF result # "CREATING" THEN Answer(r, result)
       ELSE request' = [request EXCEPT ![r].step = "lease", ![r].first = TRUE]
  /\ UNCHANGED <<page, attempt, hold, link, late, trouble>>

Validate(r) ==
  /\ At(r, "validate")
  /\ IF InStock THEN Turn(r, "reserve") ELSE Answer(r, "REFUSED")
  /\ UNCHANGED <<page, attempt, hold, link, late, trouble>>

\* reserveInventoryInternal, once the products are locked: an attempt that came
\* meanwhile is answered before the stock is looked at.
ReserveReplayed(r) ==
  /\ At(r, "reserve") /\ Claimed(KeyOf(r))
  /\ Answer(r, ResultOf(AttemptOf(r)))
  /\ UNCHANGED <<page, attempt, hold, link, late, trouble>>

ReserveRefused(r) ==
  /\ At(r, "reserve") /\ ~Claimed(KeyOf(r)) /\ ~InStock
  /\ Answer(r, "REFUSED")
  /\ UNCHANGED <<page, attempt, hold, link, late, trouble>>

Reserve(r) ==
  /\ At(r, "reserve") /\ ~Claimed(KeyOf(r)) /\ InStock
  /\ hold' = [hold EXCEPT ![r] = "PENDING"]
  /\ attempt' = [attempt EXCEPT ![KeyOf(r)] = [NewAttempt EXCEPT !.by = r]]
  /\ request' = [request EXCEPT ![r].step = "lease", ![r].mine = TRUE]
  /\ UNCHANGED <<page, link, late, trouble>>

-----------------------------------------------------------------------------
(* createOrRecoverLiveLink: what it read of the attempt is not read again, so
   its answer is CREATING until a link is saved. *)

\* acquireCreateLease; the reservation itself is not looked at.
AcquireLease(r) ==
  /\ At(r, "lease")
  /\ LET a == AttemptOf(r) IN
       IF ~a.bound /\ ~a.leased /\ a.pay = "PENDING"
       THEN /\ attempt' = [attempt EXCEPT ![KeyOf(r)].token = r,
                                          ![KeyOf(r)].leased = TRUE]
            /\ Turn(r, IF request[r].first THEN "lookup" ELSE "create")
       ELSE Answer(r, "CREATING") /\ UNCHANGED attempt
  /\ UNCHANGED <<page, hold, link, late, trouble>>

\* A lease that cannot be asked for counts as one that is taken.
LeaseFails(r) ==
  /\ At(r, "lease")
  /\ Trouble
  /\ Answer(r, "CREATING")
  /\ UNCHANGED <<page, attempt, hold, link, late>>

\* The lease of thirty seconds is over; four calls may last forty.
LeaseEnds(k) ==
  /\ attempt[k].leased
  /\ IF request[attempt[k].token].step \in Waiting THEN Trouble
     ELSE UNCHANGED trouble
  /\ attempt' = [attempt EXCEPT ![k].leased = FALSE]
  /\ UNCHANGED <<page, request, hold, link, late>>

Saving(r) ==
  request' = [request EXCEPT ![r].step = "save", ![r].status = link[KeyOf(r)]]

\* A lookup by order code: unanswered, found, or not found and still payable.
LookUp(r) ==
  /\ At(r, "lookup") \/ At(r, "recheck")
  /\ \/ Answer(r, "CREATING")
     \/ link[KeyOf(r)] # "NONE" /\ Saving(r)
     \/ /\ link[KeyOf(r)] = "NONE"
        /\ IF AttemptOf(r).expired THEN Answer(r, "CREATING")
           ELSE Turn(r, IF At(r, "lookup") THEN "create" ELSE "recreate")
  /\ UNCHANGED <<page, attempt, hold, link, late, trouble>>

\* PayOS makes one link for a code, and none that is expired.
Makes(k) == link[k] = "NONE" /\ ~attempt[k].expired

\* A create call that failed is looked up, the second one is not.
Failed(r) ==
  IF At(r, "create") THEN Turn(r, "recheck") ELSE Answer(r, "CREATING")
Create(r) ==
  /\ At(r, "create") \/ At(r, "recreate")
  /\ LET k == KeyOf(r) IN
       \/ /\ Makes(k)
          /\ link' = [link EXCEPT ![k] = "PENDING"]
          /\ request' = [request EXCEPT ![r].step = "save",
                                        ![r].status = "PENDING"]
          /\ UNCHANGED late
       \/ Makes(k) /\ late' = late \cup {k} /\ Failed(r) /\ UNCHANGED link
       \/ Failed(r) /\ UNCHANGED <<link, late>>
  /\ UNCHANGED <<page, attempt, hold, trouble>>

\* PayOS carries out a call whose answer nobody waits for any more.
CreateLands(k) ==
  /\ k \in late
  /\ late' = late \ {k}
  /\ link' = [link EXCEPT ![k] = IF Makes(k) THEN "PENDING" ELSE @]
  /\ UNCHANGED <<page, request, attempt, hold, trouble>>

\* Mutant of SaveRefused: an overtaken request answers with the link it has.
SaveForgiven(r) == Answer(r, "READY")

\* The token is no longer this request's, or the query failed.
SaveRefused(r) == Turn(r, "reread")

\* saveProviderLink compares the token, not the deadline.
Save(r) ==
  /\ At(r, "save")
  /\ \/ /\ AttemptOf(r).token = r
        /\ attempt' = [attempt EXCEPT ![KeyOf(r)].bound = TRUE,
                         ![KeyOf(r)].token = Nobody, ![KeyOf(r)].leased = FALSE]
        /\ Answer(r, IF request[r].status = "PENDING" THEN "READY"
                     ELSE "CLOSED")
        /\ UNCHANGED trouble
     \/ /\ AttemptOf(r).token # r
        /\ SaveRefused(r)
        /\ UNCHANGED <<attempt, trouble>>
     \/ /\ Trouble
        /\ SaveRefused(r)
        /\ UNCHANGED attempt
  /\ UNCHANGED <<page, hold, link, late>>

\* The attempt is read again, which may fail as well.
Reread(r) ==
  /\ At(r, "reread")
  /\ Answer(r, ResultOf(AttemptOf(r))) \/ Answer(r, "CREATING")
  /\ UNCHANGED <<page, attempt, hold, link, late, trouble>>

Die(r) ==
  /\ request[r].step \in Waiting
  /\ Trouble
  /\ Leave(r)
  /\ UNCHANGED <<page, attempt, hold, link, late>>

-----------------------------------------------------------------------------
(* What happens to the checkout meanwhile *)

Pay(k) ==
  /\ k \in page.shown /\ link[k] = "PENDING"
  /\ link' = [link EXCEPT ![k] = "PAID"]
  /\ UNCHANGED <<page, request, attempt, hold, late, trouble>>

\* The cancellation task cancels the link, or PayOS lets it expire.
LinkEnds(k) ==
  /\ link[k] = "PENDING"
  /\ link' = [link EXCEPT ![k] = "CANCELLED"]
  /\ UNCHANGED <<page, request, attempt, hold, late, trouble>>

\* A lookup task or a webhook records what PayOS reports: it binds the link id,
\* and a payment makes the order of a reservation that was not released, of a
\* lapsed one as long as the stock is there.
Sells(k) ==
  /\ link[k] = "PAID"
  /\ hold[attempt[k].by] = "PENDING"
  /\ attempt[k].expired => InStock
Observe(k) ==
  /\ Claimed(k) /\ link[k] # "NONE"
  /\ attempt' = [attempt EXCEPT
       ![k].bound = TRUE, ![k].order = Sells(k) \/ @,
       ![k].pay = IF link[k] = "PENDING" THEN @ ELSE link[k]]
  /\ hold' = [hold EXCEPT ![attempt[k].by] =
       IF Sells(k) THEN "CONSUMED"
       ELSE IF link[k] = "CANCELLED" /\ @ = "PENDING" THEN "RELEASED" ELSE @]
  /\ UNCHANGED <<page, request, link, late, trouble>>

\* finishCancellationWindow: no answer of PayOS for ten minutes.
Release(k) ==
  /\ Claimed(k) /\ attempt[k].pay = "PENDING"
  /\ hold[attempt[k].by] = "PENDING"
  /\ hold' = [hold EXCEPT ![attempt[k].by] = "RELEASED"]
  /\ UNCHANGED <<page, request, attempt, link, late, trouble>>

\* expires_at of the attempt and of its reservation passes.
Lapse(k) ==
  /\ Claimed(k) /\ ~attempt[k].expired
  /\ attempt' = [attempt EXCEPT ![k].expired = TRUE]
  /\ UNCHANGED <<page, request, hold, link, late, trouble>>

-----------------------------------------------------------------------------
Tab ==
  \/ \E r \in Requests, k \in Keys : Submit(r, k)
  \/ Reload
  \/ \E r \in Requests : Receive(r)
  \/ \E k \in Keys : Complete(k)

Handler(r) ==
  \/ Find(r) \/ Validate(r)
  \/ ReserveReplayed(r) \/ ReserveRefused(r) \/ Reserve(r)
  \/ AcquireLease(r) \/ LeaseFails(r)
  \/ LookUp(r) \/ Create(r) \/ Save(r) \/ Reread(r)
  \/ Die(r)

Elsewhere ==
  \E k \in Keys :
    \/ LeaseEnds(k) \/ CreateLands(k)
    \/ Pay(k) \/ LinkEnds(k) \/ Observe(k) \/ Release(k) \/ Lapse(k)

Next == Tab \/ (\E r \in Requests : Handler(r)) \/ Elsewhere

Spec == Init /\ [][Next]_vars

-----------------------------------------------------------------------------
(* Properties *)

\* One reservation per key: however requests with one key race, die and are sent
\* again, long after the attempt is over too, one of them reserves, and the
\* attempt all of them are answered with is the one of that reservation.
OneHoldPerKey ==
  \A r \in Requests : hold[r] # "NONE" => AttemptOf(r).by = r

\* The token a guest's tab keeps opens the order of its checkout: the hash stored
\* with the reservation under the tab's key is that token's, whichever of the
\* racing requests made it.
TokenOpensOrder ==
  page.token # Nobody => attempt[page.key].by = page.token

\* A customer is sent to pay only where the server knows the link: the attempt
\* is bound to it, so status, cancellation and cart recovery find it, even if
\* the request that made it was overtaken by another.
ShownLinkSaved == \A k \in page.shown : attempt[k].bound /\ link[k] # "NONE"

\* The reliability design, AC01: a lost response is resumed; so a tab is told
\* that its cart is not available only if its key reserved nothing.
RefusedUnheld ==
  \A r \in Requests :
    (At(r, "answer") /\ request[r].result = "REFUSED") => ~Claimed(KeyOf(r))
=============================================================================
