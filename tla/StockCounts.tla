---------------------------- MODULE StockCounts ----------------------------
(***************************************************************************)
(* Stock counts: an administrator counts some products while the shop goes *)
(* on selling them, and the counted quantities replace the book quantities *)
(* when they are approved.  A transaction locks the count, its lines and   *)
(* then the products; the reservations are read after that.                *)
(***************************************************************************)
EXTENDS Procurement

VARIABLE count   \* stock_counts with their items

Blank == -1      \* counted_quantity IS NULL

CountStates == {"NONE", "DRAFT", "SUBMITTED", "APPROVED", "CANCELED"}

NoCount == [status |-> "NONE", version |-> 0, items |-> << >>]

CountsInit == count = [c \in Counts |-> NoCount]

SetCount(c, k) == count' = [count EXCEPT ![c] = [k EXCEPT !.version = @ + 1]]

\* The stock and revision a line is counted against; since is history.
Baseline(p) ==
  [stock |-> stock[p], revision |-> revision[p], counted |-> Blank,
   since |-> changes[p]]

Items(c) == DOMAIN count[c].items

Complete(c) == \A p \in Items(c) : count[c].items[p].counted # Blank

-----------------------------------------------------------------------------

CreateCount(c, P) ==
  /\ count[c] = NoCount
  /\ P # {}
  /\ \A p \in P : Active(p)
  /\ SetCount(c, [status |-> "DRAFT", version |-> 0,
                  items |-> [p \in P |-> Baseline(p)]])

\* One observation or several of a page that is saved.
Observe(a, c, P, n) ==
  /\ count[c].status = "DRAFT"
  /\ Current(a, c, count[c].version)
  /\ P # {} /\ P \subseteq Items(c)
  /\ SetCount(c, [count[c] EXCEPT !.items =
       [p \in Items(c) |->
          IF p \in P THEN [@[p] EXCEPT !.counted = n[p]] ELSE @[p]]])

Submit(a, c) ==
  /\ count[c].status = "DRAFT"
  /\ Current(a, c, count[c].version)
  /\ Complete(c)
  /\ SetCount(c, [count[c] EXCEPT !.status = "SUBMITTED"])

CancelCount(a, c) ==
  /\ count[c].status \in {"DRAFT", "SUBMITTED"}
  /\ Current(a, c, count[c].version)
  /\ SetCount(c, [count[c] EXCEPT !.status = "CANCELED"])

Reopen(a, c, P) ==
  /\ count[c].status = "SUBMITTED"
  /\ Current(a, c, count[c].version)
  /\ P # {} /\ P \subseteq Items(c)
  /\ \A p \in P : Active(p)
  /\ SetCount(c, [count[c] EXCEPT !.status = "DRAFT", !.items =
       [p \in Items(c) |-> IF p \in P THEN Baseline(p) ELSE @[p]]])

\* Mutant of Stale: quantities are compared, not revisions.
StaleQuantity(p, line) == stock[p] # line.stock

\* The stock was written since the line's baseline, if only to and fro.
Stale(p, line) == revision[p] # line.revision

\* Mutant of Short: the reservations are not read.
ShortNever(p, line) == line.counted = Blank

\* Checkouts hold more than was counted.
Short(p, line) == line.counted < holds[p]

\* evaluateStockCount finds no conflict in any line.
Approvable(c) ==
  \A p \in Items(c) : LET line == count[c].items[p] IN
    Active(p) /\ ~Stale(p, line) /\ ~Short(p, line)

Approve(a, c) ==
  LET moved == [p \in Products |->
                  IF p \in Items(c) THEN count[c].items[p].counted - stock[p] ELSE 0]
  IN  /\ count[c].status = "SUBMITTED"
      /\ Current(a, c, count[c].version)
      /\ Complete(c)
      /\ Approvable(c)
      /\ Write(Add(moved), {p \in Products : moved[p] # 0})
      /\ Record(moved)
      /\ SetCount(c, [count[c] EXCEPT !.status = "APPROVED"])
      /\ UNCHANGED <<holds, sold, removed>>

CountsBy(a) ==
  \/ /\ \E c \in Counts :
          \/ \E P \in SUBSET Products : \E n \in [P -> Quantities] : Observe(a, c, P, n)
          \/ \E P \in SUBSET Products : Reopen(a, c, P)
          \/ Submit(a, c) \/ CancelCount(a, c)
     /\ UNCHANGED warehouse
  \/ \E c \in Counts : Approve(a, c)

CountsNext ==
  /\ \E c \in Counts, P \in SUBSET Products : CreateCount(c, P)
  /\ UNCHANGED warehouse
=============================================================================
