---------------------------- MODULE Procurement ----------------------------
(***************************************************************************)
(* Purchase orders and the receipts of their goods.  A transaction locks   *)
(* the purchase order first, with its lines, then the products; what it    *)
(* reads without a lock it reads after these, so each is one action.       *)
(*                                                                         *)
(* An administrator acts from a page: the version the page was loaded with *)
(* goes with the request.  A receipt goes with an idempotency key instead. *)
(* Costs, notes and snapshots of names are left out.                       *)
(***************************************************************************)
EXTENDS Warehouse, Sums

CONSTANTS
  Purchases,    \* bound: purchase orders
  Counts,       \* bound: stock counts, the other documents with a version
  Admins,       \* bound: administrators with a page open
  Keys,         \* bound: idempotency keys of receipts
  MaxVersion    \* bound: versions of one document

ASSUME DocumentAssumption ==
  /\ MaxVersion \in Nat \ {0}
  /\ Purchases \cap Counts = {}
  /\ "NONE" \notin Purchases \cup Counts
  /\ "PROMPT" \notin Admins

VARIABLES
  purchase,  \* purchase_orders with their lines
  receipt,   \* purchase_receipts with their lines
  archived,  \* whether the supplier is archived
  page       \* the document an administrator has open, and what they saw

procurement == <<purchase, receipt, archived>>

PurchaseStates == {"NONE", "DRAFT", "ORDERED", "PARTIALLY_RECEIVED", "RECEIVED",
                   "CANCELED", "CLOSED"}

\* Numbers of units by product: the lines of an order or of a receipt.
Lines == [Products -> Quantities]
Nothing == [p \in Products |-> 0]
Listed(lines) == {p \in Products : lines[p] > 0}

NoPurchase ==
  [status |-> "NONE", version |-> 0, ordered |-> Nothing, accepted |-> Nothing]

\* An administrator who loads a document and acts with nothing in between.
Prompt == "PROMPT"

\* An administrator has no page open.
NoPage == [of |-> "NONE"]

ProcurementInit ==
  /\ purchase = [o \in Purchases |-> NoPurchase]
  /\ receipt = {}
  /\ archived = FALSE
  /\ page = [a \in Admins |-> NoPage]

\* Mutant of Current: only the document is compared.
CurrentAny(a, d, version) ==
  version < MaxVersion /\ (a # Prompt => page[a].of = d)

\* The request of a's page carries the document's present version.
Current(a, d, version) ==
  /\ version < MaxVersion
  /\ a # Prompt => page[a].of = d /\ page[a].version = version

SetPurchase(o, p) ==
  purchase' = [purchase EXCEPT ![o] = [p EXCEPT !.version = @ + 1]]

-----------------------------------------------------------------------------
(* The document *)

CreatePurchase(o, lines) ==
  /\ purchase[o] = NoPurchase
  /\ Listed(lines) # {}
  /\ ~archived
  /\ \A p \in Listed(lines) : Active(p)
  /\ SetPurchase(o, [status |-> "DRAFT", version |-> 0, ordered |-> lines,
                     accepted |-> Nothing])
  /\ UNCHANGED <<receipt, archived>>

EditDraft(a, o, lines) ==
  /\ purchase[o].status = "DRAFT"
  /\ Current(a, o, purchase[o].version)
  /\ ~archived
  /\ Listed(lines) # {}
  /\ \A p \in Listed(lines) : Active(p)
  /\ SetPurchase(o, [purchase[o] EXCEPT !.ordered = lines])
  /\ UNCHANGED <<receipt, archived>>

Confirm(a, o) ==
  /\ purchase[o].status = "DRAFT"
  /\ Current(a, o, purchase[o].version)
  /\ ~archived
  /\ \A p \in Listed(purchase[o].ordered) : Active(p)
  /\ SetPurchase(o, [purchase[o] EXCEPT !.status = "ORDERED"])
  /\ UNCHANGED <<receipt, archived>>

CancelPurchase(a, o) ==
  /\ purchase[o].status = "DRAFT"
  /\ Current(a, o, purchase[o].version)
  /\ SetPurchase(o, [purchase[o] EXCEPT !.status = "CANCELED"])
  /\ UNCHANGED <<receipt, archived>>

Receivable(o) == purchase[o].status \in {"ORDERED", "PARTIALLY_RECEIVED"}

ClosePurchase(a, o) ==
  /\ Receivable(o)
  /\ Current(a, o, purchase[o].version)
  /\ SetPurchase(o, [purchase[o] EXCEPT !.status = "CLOSED"])
  /\ UNCHANGED <<receipt, archived>>

ArchiveSupplier ==
  /\ ~archived
  /\ archived' = TRUE
  /\ UNCHANGED <<purchase, receipt>>

-----------------------------------------------------------------------------
(* Receipts *)

\* Mutant of Outstanding: what was already accepted still counts as owed.
OutstandingOrdered(o, p) == purchase[o].ordered[p]

Outstanding(o, p) == purchase[o].ordered[p] - purchase[o].accepted[p]

\* updateOrderProgress.
Progress(ordered, accepted) ==
  IF \A p \in Products : accepted[p] >= ordered[p] THEN "RECEIVED"
  ELSE IF accepted = Nothing THEN "ORDERED" ELSE "PARTIALLY_RECEIVED"

\* The key was used before: the answer is that receipt, or a conflict when the
\* payload differs, and nothing is written.
Replayed(o, key) == \E r \in receipt : r.order = o /\ r.key = key

\* Goods arrive: expected units of some lines, of which accepted are good; the
\* rest is rejected or missing.
Receive(o, key, expected, accepted) ==
  LET progress == [p \in Products |-> purchase[o].accepted[p] + accepted[p]]
  IN  /\ ~Replayed(o, key)
      /\ Receivable(o)
      /\ purchase[o].version < MaxVersion
      /\ Listed(expected) # {}
      /\ \A p \in Listed(expected) : expected[p] <= Outstanding(o, p)
      /\ \A p \in Products : accepted[p] <= expected[p]
      /\ \A p \in Listed(expected) : Active(p)
      /\ receipt' = receipt \cup
           {[order |-> o, key |-> key, accepted |-> accepted]}
      /\ Write(Add(accepted), Listed(accepted))
      /\ Record(accepted)
      /\ SetPurchase(o, [purchase[o] EXCEPT
           !.accepted = progress,
           !.status = Progress(purchase[o].ordered, progress)])
      /\ UNCHANGED <<holds, sold, removed, archived>>

\* What an administrator does to the document of their page.
ProcurementBy(a) ==
  /\ \E o \in Purchases :
       \/ \E lines \in Lines : EditDraft(a, o, lines)
       \/ Confirm(a, o) \/ CancelPurchase(a, o) \/ ClosePurchase(a, o)
  /\ UNCHANGED warehouse

ProcurementNext ==
  \/ /\ \/ \E o \in Purchases, lines \in Lines : CreatePurchase(o, lines)
        \/ ArchiveSupplier
     /\ UNCHANGED warehouse
  \/ \E o \in Purchases, key \in Keys, expected, accepted \in Lines :
       Receive(o, key, expected, accepted)
=============================================================================
