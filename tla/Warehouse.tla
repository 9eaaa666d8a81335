----------------------------- MODULE Warehouse -----------------------------
(***************************************************************************)
(* The stock of a product and everything that moves it besides receipts    *)
(* and counts: checkouts that hold and sell units, cancelled orders that   *)
(* return them, and administrators who adjust the quantity or remove the   *)
(* product.  Every writer locks the product row, so each is one action.    *)
(*                                                                         *)
(* How checkouts compete for stock, late sales included, is the subject of *)
(* Checkout; here a checkout is the units it holds.                        *)
(***************************************************************************)
EXTENDS Integers

CONSTANTS
  Products,
  Opening,      \* stock when the model starts
  MaxStock,     \* what the column can hold: 2^31 - 1
  MaxUnits,     \* bound: units in one request
  MaxChanges    \* bound: changes of one product's stock

ASSUME WarehouseAssumption ==
  /\ MaxStock \in Nat
  /\ MaxUnits \in Nat
  /\ MaxChanges \in Nat
  /\ Opening \in [Products -> 0 .. MaxStock]

VARIABLES
  stock,     \* products.stock; Removed after a soft delete
  revision,  \* products.stock_revision
  holds,     \* units reserved by pending checkouts that have not lapsed
  sold,      \* units in orders that may still be cancelled
  book,      \* inventory_movements: their sum, and the last stock_after
  changes,   \* history: how often the quantity changed
  removed    \* history: the products that were ever soft-deleted

warehouse == <<stock, revision, holds, sold, book, changes, removed>>

Removed == -1
Quantities == 0 .. MaxUnits
Active(p) == stock[p] >= 0

WarehouseInit ==
  /\ stock = Opening
  /\ revision = [p \in Products |-> 0]
  /\ holds = [p \in Products |-> 0]
  /\ sold = [p \in Products |-> 0]
  /\ book = [p \in Products |-> [sum |-> Opening[p], last |-> Opening[p]]]
  /\ changes = [p \in Products |-> 0]
  /\ removed = {}

\* Every product p gets stock next[p]; the revisions of those in revised grow.
\* A quantity the column cannot hold fails the transaction.
Write(next, revised) ==
  /\ \A p \in Products : next[p] # stock[p] => changes[p] < MaxChanges
  /\ \A p \in Products : next[p] <= MaxStock
  /\ stock' = next
  /\ revision' = [p \in Products |-> revision[p] + (IF p \in revised THEN 1 ELSE 0)]
  /\ changes' =
       [p \in Products |-> changes[p] + (IF next[p] # stock[p] THEN 1 ELSE 0)]

\* Mutant of Record: the movement ends with the quantity that was moved.
RecordMoved(moved) ==
  book' = [p \in Products |->
    IF moved[p] = 0 THEN book[p]
    ELSE [sum |-> book[p].sum + moved[p], last |-> moved[p]]]

\* The movements of a transaction that wrote moved[p] as p's quantity_change.
Record(moved) ==
  book' = [p \in Products |->
    IF moved[p] = 0 THEN book[p]
    ELSE [sum |-> book[p].sum + moved[p], last |-> stock[p] + moved[p]]]

Only(p, n) == [q \in Products |-> IF q = p THEN n ELSE 0]
Add(moved) == [p \in Products |-> stock[p] + moved[p]]

-----------------------------------------------------------------------------

Hold(p, n) ==
  /\ Active(p)
  /\ stock[p] - holds[p] >= n
  /\ holds' = [holds EXCEPT ![p] = @ + n]
  /\ UNCHANGED <<stock, revision, sold, book, changes, removed>>

\* A checkout is cancelled or lapses.
Release(p, n) ==
  /\ holds[p] >= n
  /\ holds' = [holds EXCEPT ![p] = @ - n]
  /\ UNCHANGED <<stock, revision, sold, book, changes, removed>>

\* A held checkout becomes an order.
Sell(p, n) ==
  /\ Active(p)
  /\ holds[p] >= n
  /\ stock[p] >= n
  /\ Write(Add(Only(p, -n)), {p})
  /\ Record(Only(p, -n))
  /\ holds' = [holds EXCEPT ![p] = @ - n]
  /\ sold' = [sold EXCEPT ![p] = @ + n]
  /\ UNCHANGED removed

\* A cancelled order gives its units back, to a removed product too.
Restock(p, n) ==
  /\ sold[p] >= n
  /\ Write(Add(Only(p, n)), {p})
  /\ Record(Only(p, n))
  /\ sold' = [sold EXCEPT ![p] = @ - n]
  /\ UNCHANGED <<holds, removed>>

\* A smaller quantity must cover what checkouts hold.
Reducible(p, n) == n < stock[p] => n >= holds[p]

\* The product editor and the inventory page; both write a movement.
Adjust(p, n) ==
  /\ Active(p)
  /\ n # stock[p]
  /\ Reducible(p, n)
  /\ Write([stock EXCEPT ![p] = n], {p})
  /\ Record(Only(p, n - stock[p]))
  /\ UNCHANGED <<holds, sold, removed>>

\* A soft delete writes no movement and looks at no hold.
Remove(p) ==
  /\ Active(p)
  /\ Write([stock EXCEPT ![p] = Removed], {p})
  /\ removed' = removed \cup {p}
  /\ UNCHANGED <<holds, sold, book>>

WarehouseNext ==
  \/ \E p \in Products, n \in Quantities \ {0} :
       Hold(p, n) \/ Release(p, n) \/ Sell(p, n) \/ Restock(p, n)
  \/ \E p \in Products, n \in Quantities : Adjust(p, n)
  \/ \E p \in Products : Remove(p)
=============================================================================
