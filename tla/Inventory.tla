----------------------------- MODULE Inventory -----------------------------
(***************************************************************************)
(* The warehouse as a whole: sales and reservations, purchase orders and   *)
(* their receipts, stock counts, and the administrators' pages, which show *)
(* a document as it was when they were loaded.                             *)
(***************************************************************************)
EXTENDS StockCounts

vars == <<warehouse, procurement, count, page>>

Init == WarehouseInit /\ ProcurementInit /\ CountsInit

Documents == Purchases \cup Counts
Document(d) == IF d \in Purchases THEN purchase[d] ELSE count[d]
Changed(d) == IF d \in Purchases THEN purchase'[d] ELSE count'[d]

\* An administrator opens a document, or loads it again.
Load(a, d) ==
  /\ Document(d).status # "NONE"
  /\ page' = [page EXCEPT ![a] =
       [of |-> d, version |-> Document(d).version, fresh |-> TRUE]]
  /\ UNCHANGED <<warehouse, procurement, count>>

\* History: a page stops being fresh when its document changes; the pages of
\* those in served show what the request they sent made of it.
Turn(served) == page' = [a \in Admins |->
  IF page[a] = NoPage THEN NoPage
  ELSE LET d == page[a].of
       IN IF a \in served
          THEN [of |-> d, version |-> Changed(d).version, fresh |-> TRUE]
          ELSE [page[a] EXCEPT !.fresh = @ /\ Document(d) = Changed(d)]]

Next ==
  \/ WarehouseNext /\ UNCHANGED <<procurement, count, page>>
  \/ ProcurementNext /\ UNCHANGED count /\ Turn({})
  \/ CountsNext /\ UNCHANGED procurement /\ Turn({})
  \/ \E a \in Admins \cup {Prompt} :
       /\ \/ ProcurementBy(a) /\ UNCHANGED count
          \/ CountsBy(a) /\ UNCHANGED procurement
       /\ Turn({a})
  \/ \E a \in Admins, d \in Documents : Load(a, d)

Spec == Init /\ [][Next]_vars

-----------------------------------------------------------------------------
(* Properties *)

\* Every variable has its type.
TypeOK ==
  /\ stock \in [Products -> Removed .. MaxStock]
  /\ revision \in [Products -> 0 .. MaxChanges]
  /\ holds \in [Products -> Nat]
  /\ sold \in [Products -> Nat]
  /\ \A o \in Purchases :
       /\ purchase[o].version \in 0 .. MaxVersion
       /\ purchase[o].ordered \in Lines /\ purchase[o].accepted \in Lines
  /\ \A r \in receipt : r.order \in Purchases /\ r.key \in Keys
  /\ archived \in BOOLEAN
  /\ \A c \in Counts :
       /\ count[c].status \in CountStates
       /\ count[c].version \in 0 .. MaxVersion
       /\ Items(c) \subseteq Products

\* The movements explain the stock: they add up to it and the last one ends
\* with it, whichever writer came last; a soft delete, which writes none, is the
\* exception the code makes.
LedgerExplains ==
  \A p \in Products \ removed :
    book[p].sum = stock[p] /\ book[p].last = stock[p]

\* No adjustment, count or receipt takes the shelf below what checkouts hold,
\* however they interleave with reservations and sales.
HoldsCovered == \A p \in Products \ removed : holds[p] <= stock[p]

Receipts(o) == {r \in receipt : r.order = o}

\* The units of p that the receipts R accepted.
Brought(R, p) == SumOf([r \in R |-> r.accepted[p]], R)

\* Goods enter once and never more than were ordered: what an order's lines have
\* accepted is the sum of its receipts, and its status says how far it got.
ObligationKept ==
  \A o \in Purchases : LET po == purchase[o] IN
    /\ \A p \in Products :
         /\ po.accepted[p] <= po.ordered[p]
         /\ po.accepted[p] = Brought(Receipts(o), p)
    /\ po.status = "RECEIVED" <=> po.ordered # Nothing /\ po.accepted = po.ordered
    /\ po.status \in {"NONE", "DRAFT", "ORDERED", "CANCELED"} => po.accepted = Nothing

Approved(c) == count[c].status # "APPROVED" /\ count'[c].status = "APPROVED"

\* Approving a count overwrites no change made since its lines were counted, not
\* even one that was undone in between.
CountFresh ==
  [][\A c \in Counts : Approved(c) =>
       \A p \in Items(c) : count[c].items[p].since = changes[p]]_vars

\* An administrator's decision is about the document they saw: of two with the
\* same page open the second is refused, whatever the first did; and so is one
\* whose page a receipt of goods has overtaken.
DecidedAsSeen ==
  [][\A a \in Admins, d \in Documents :
       /\ Changed(d) # Document(d)
       /\ page[a]'.of = d /\ page[a]'.fresh
       => page[a].of = d /\ page[a].fresh]_vars
=============================================================================
