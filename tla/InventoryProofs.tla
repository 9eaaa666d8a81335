-------------------------- MODULE InventoryProofs --------------------------
(***************************************************************************)
(* Theorems about Inventory, for any number of products, purchase orders,  *)
(* stock counts, administrators and receipts, and any bound on them.       *)
(***************************************************************************)
EXTENDS Inventory, SumTheorems, TLAPS

-----------------------------------------------------------------------------
(* Types *)

Line == {line \in [stock : Int, revision : Nat, counted : Nat \cup {Blank}, since : Nat] :
           line.revision = line.since}
ItemSets == UNION {[P -> Line] : P \in SUBSET Products}
PurchaseType == [status : PurchaseStates, version : 0 .. MaxVersion,
                 ordered : Lines, accepted : Lines]
CountType == [status : CountStates, version : 0 .. MaxVersion, items : ItemSets]
ReceiptType == [order : Purchases, key : Keys, accepted : Lines]
PageType == [of : Documents, version : Nat, fresh : BOOLEAN]

\* A revision is a count of changes: every writer raises it, and only by a change.
WarehouseOK ==
  /\ stock \in [Products -> Removed .. MaxStock]
  /\ revision \in [Products -> Nat]
  /\ holds \in [Products -> Nat]
  /\ sold \in [Products -> Nat]
  /\ book \in [Products -> [sum : Int, last : Int]]
  /\ changes \in [Products -> 0 .. MaxChanges]
  /\ removed \subseteq Products
  /\ \A p \in Products : revision[p] = changes[p]

ProcurementOK ==
  /\ purchase \in [Purchases -> PurchaseType]
  /\ receipt \in SUBSET ReceiptType
  /\ archived \in BOOLEAN

\* What an order has accepted stays within what it orders: new orders and
\* drafts have accepted nothing, and a receipt takes no more than the rest.
Owed(po) ==
  /\ \A p \in Products : po.accepted[p] <= po.ordered[p]
  /\ po.status \in {"NONE", "DRAFT", "ORDERED", "CANCELED"} => po.accepted = Nothing
  /\ po.status # "NONE" => po.ordered # Nothing
  /\ po.status = "RECEIVED" <=> po.ordered # Nothing /\ po.accepted = po.ordered

CountsOK == count \in [Counts -> CountType]

PagesOK == page \in [Admins -> PageType \cup {NoPage}]

\* The type invariant with what it needs to be inductive.
TypeInv ==
  /\ WarehouseOK
  /\ ProcurementOK
  /\ \A o \in Purchases : Owed(purchase[o])
  /\ CountsOK
  /\ PagesOK

LEMMA Constants ==
  /\ MaxStock \in Nat /\ MaxUnits \in Nat /\ MaxChanges \in Nat
  /\ Opening \in [Products -> 0 .. MaxStock]
  /\ MaxVersion \in Nat /\ MaxVersion # 0
  /\ Purchases \cap Counts = {}
  /\ "NONE" \notin Documents
  /\ Prompt \notin Admins
  /\ Quantities \subseteq Nat
  /\ 0 \in Quantities
  /\ Nothing \in Lines
BY WarehouseAssumption, DocumentAssumption
DEF Documents, Prompt, Quantities, Nothing, Lines

LEMMA NoItems == << >> \in ItemSets
<1>1. << >> \in [{} -> Line]
  OBVIOUS
<1> QED
  BY <1>1 DEF ItemSets

LEMMA TypeInit == Init => TypeInv
<1> SUFFICES ASSUME Init PROVE TypeInv
  OBVIOUS
<1>1. WarehouseOK
  BY Constants DEF Init, WarehouseInit, WarehouseOK, Removed
<1>2. NoPurchase \in PurchaseType
  BY Constants DEF NoPurchase, PurchaseType, PurchaseStates
<1>3. ProcurementOK
  BY <1>2 DEF Init, ProcurementInit, ProcurementOK
<1>4. ASSUME NEW o \in Purchases PROVE Owed(purchase[o])
  <2>1. purchase[o] = NoPurchase
    BY DEF Init, ProcurementInit
  <2> QED
    BY <2>1, Constants DEF Owed, NoPurchase, Nothing
<1>5. CountsOK
  <2>1. NoCount \in CountType
    BY NoItems, Constants DEF NoCount, CountType, CountStates
  <2> QED
    BY <2>1 DEF Init, CountsInit, CountsOK
<1>6. PagesOK
  BY DEF Init, ProcurementInit, PagesOK
<1> QED
  BY <1>1, <1>3, <1>4, <1>5, <1>6 DEF TypeInv

-----------------------------------------------------------------------------
(* What a step does *)

\* A write keeps quantities in the column's range and counts its changes.
LEMMA WriteType ==
  ASSUME WarehouseOK, NEW next \in [Products -> Int], NEW revised,
         \A p \in Products : next[p] >= Removed,
         \A p \in Products : p \in revised <=> next[p] # stock[p],
         Write(next, revised)
  PROVE  /\ stock' \in [Products -> Removed .. MaxStock]
         /\ revision' \in [Products -> Nat]
         /\ changes' \in [Products -> 0 .. MaxChanges]
         /\ \A p \in Products : revision'[p] = changes'[p]
BY Constants DEF Write, WarehouseOK, Removed

LEMMA RecordType ==
  ASSUME WarehouseOK, NEW moved \in [Products -> Int], Record(moved)
  PROVE  book' \in [Products -> [sum : Int, last : Int]]
BY Constants DEF Record, WarehouseOK, Removed

LEMMA Adding ==
  ASSUME WarehouseOK, NEW moved \in [Products -> Int]
  PROVE  /\ Add(moved) \in [Products -> Int]
         /\ \A p \in Products : Add(moved)[p] = stock[p] + moved[p]
BY Constants DEF Add, WarehouseOK, Removed

LEMMA OnlyOne ==
  ASSUME NEW p \in Products, NEW n \in Int
  PROVE  /\ Only(p, n) \in [Products -> Int]
         /\ Only(p, n)[p] = n
         /\ \A q \in Products \ {p} : Only(p, n)[q] = 0
BY DEF Only

LEMMA HoldType ==
  ASSUME WarehouseOK, NEW p \in Products, NEW n \in Quantities,
         Hold(p, n) \/ Release(p, n)
  PROVE  WarehouseOK'
BY Constants DEF Hold, Release, WarehouseOK

LEMMA SellType ==
  ASSUME WarehouseOK, NEW p \in Products, NEW n \in Quantities \ {0}, Sell(p, n)
  PROVE  WarehouseOK'
<1>1. n \in Nat \ {0} /\ -n \in Int
  BY Constants
<1>2. \A q \in Products : Add(Only(p, -n))[q] >= Removed
  <2> TAKE q \in Products
  <2>1. Only(p, -n) \in [Products -> Int]
    BY <1>1, OnlyOne
  <2>2. Add(Only(p, -n))[q] = stock[q] + Only(p, -n)[q]
    BY <2>1, Adding
  <2>3. stock[q] \in Int /\ stock[q] >= Removed
    BY DEF WarehouseOK, Removed
  <2>4. CASE q = p
    BY <1>1, <2>2, <2>3, <2>4, OnlyOne DEF Sell, Removed
  <2>5. CASE q # p
    <3>1. Only(p, -n)[q] = 0
      BY <1>1, <2>5, OnlyOne
    <3> QED
      BY <2>2, <2>3, <3>1 DEF Removed
  <2> QED
    BY <2>4, <2>5
<1>3. /\ Add(Only(p, -n)) \in [Products -> Int]
      /\ Only(p, -n) \in [Products -> Int]
  BY <1>1, Adding, OnlyOne
<1>a. ASSUME NEW q \in Products
      PROVE  q \in {p} <=> Add(Only(p, -n))[q] # stock[q]
  <2>1. Add(Only(p, -n))[q] = stock[q] + Only(p, -n)[q] /\ stock[q] \in Int
    BY <1>3, Adding DEF WarehouseOK, Removed
  <2>2. CASE q = p
    BY <1>1, <2>1, <2>2, OnlyOne
  <2>3. CASE q # p
    BY <1>1, <2>1, <2>3, OnlyOne
  <2> QED
    BY <2>2, <2>3
<1>4. /\ stock' \in [Products -> Removed .. MaxStock]
      /\ revision' \in [Products -> Nat]
      /\ changes' \in [Products -> 0 .. MaxChanges]
      /\ \A q \in Products : revision'[q] = changes'[q]
  BY <1>2, <1>3, <1>a, WriteType DEF Sell
<1>5. book' \in [Products -> [sum : Int, last : Int]]
  BY <1>3, RecordType DEF Sell
<1>6. /\ holds' \in [Products -> Nat]
      /\ sold' \in [Products -> Nat]
      /\ removed' = removed
  BY <1>1 DEF Sell, WarehouseOK
<1> QED
  BY <1>4, <1>5, <1>6 DEF WarehouseOK

LEMMA RestockType ==
  ASSUME WarehouseOK, NEW p \in Products, NEW n \in Quantities \ {0}, Restock(p, n)
  PROVE  WarehouseOK'
<1>1. n \in Nat \ {0}
  BY Constants
<1>2. \A q \in Products : Add(Only(p, n))[q] >= Removed
  <2> TAKE q \in Products
  <2>1. Only(p, n) \in [Products -> Int]
    BY <1>1, OnlyOne
  <2>2. Add(Only(p, n))[q] = stock[q] + Only(p, n)[q]
    BY <2>1, Adding
  <2>3. stock[q] \in Int /\ stock[q] >= Removed
    BY DEF WarehouseOK, Removed
  <2>4. CASE q = p
    BY <1>1, <2>2, <2>3, <2>4, OnlyOne DEF Restock, Removed
  <2>5. CASE q # p
    BY <1>1, <2>2, <2>3, <2>5, OnlyOne DEF Removed
  <2> QED
    BY <2>4, <2>5
<1>3. /\ Add(Only(p, n)) \in [Products -> Int]
      /\ Only(p, n) \in [Products -> Int]
  BY <1>1, Adding, OnlyOne
<1>a. ASSUME NEW q \in Products
      PROVE  q \in {p} <=> Add(Only(p, n))[q] # stock[q]
  <2>1. Add(Only(p, n))[q] = stock[q] + Only(p, n)[q] /\ stock[q] \in Int
    BY <1>3, Adding DEF WarehouseOK, Removed
  <2>2. CASE q = p
    BY <1>1, <2>1, <2>2, OnlyOne
  <2>3. CASE q # p
    BY <1>1, <2>1, <2>3, OnlyOne
  <2> QED
    BY <2>2, <2>3
<1>4. /\ stock' \in [Products -> Removed .. MaxStock]
      /\ revision' \in [Products -> Nat]
      /\ changes' \in [Products -> 0 .. MaxChanges]
      /\ \A q \in Products : revision'[q] = changes'[q]
  BY <1>2, <1>3, <1>a, WriteType DEF Restock
<1>5. book' \in [Products -> [sum : Int, last : Int]]
  BY <1>3, RecordType DEF Restock
<1>6. /\ holds' \in [Products -> Nat]
      /\ sold' \in [Products -> Nat]
      /\ removed' = removed
  BY <1>1 DEF Restock, WarehouseOK
<1> QED
  BY <1>4, <1>5, <1>6 DEF WarehouseOK

LEMMA AdjustType ==
  ASSUME WarehouseOK, NEW p \in Products, NEW n \in Quantities, Adjust(p, n)
  PROVE  WarehouseOK'
<1>1. n \in Nat /\ stock[p] \in Int
  BY Constants DEF WarehouseOK, Removed
<1>2. /\ [stock EXCEPT ![p] = n] \in [Products -> Int]
      /\ \A q \in Products : [stock EXCEPT ![p] = n][q] >= Removed
      /\ \A q \in Products : q \in {p} <=> [stock EXCEPT ![p] = n][q] # stock[q]
  BY <1>1 DEF WarehouseOK, Removed, Adjust
<1>3. /\ stock' \in [Products -> Removed .. MaxStock]
      /\ revision' \in [Products -> Nat]
      /\ changes' \in [Products -> 0 .. MaxChanges]
      /\ \A q \in Products : revision'[q] = changes'[q]
  BY <1>2, WriteType DEF Adjust
<1>4. Only(p, n - stock[p]) \in [Products -> Int]
  BY <1>1, OnlyOne
<1>5. book' \in [Products -> [sum : Int, last : Int]]
  BY <1>4, RecordType DEF Adjust
<1> QED
  BY <1>3, <1>5 DEF Adjust, WarehouseOK

LEMMA RemoveType ==
  ASSUME WarehouseOK, NEW p \in Products, Remove(p)
  PROVE  WarehouseOK'
<1>1. /\ [stock EXCEPT ![p] = Removed] \in [Products -> Int]
      /\ \A q \in Products : [stock EXCEPT ![p] = Removed][q] >= Removed
      /\ \A q \in Products : q \in {p} <=> [stock EXCEPT ![p] = Removed][q] # stock[q]
  BY DEF WarehouseOK, Removed, Remove, Active
<1>2. /\ stock' \in [Products -> Removed .. MaxStock]
      /\ revision' \in [Products -> Nat]
      /\ changes' \in [Products -> 0 .. MaxChanges]
      /\ \A q \in Products : revision'[q] = changes'[q]
  BY <1>1, WriteType DEF Remove
<1> QED
  BY <1>2 DEF Remove, WarehouseOK

-----------------------------------------------------------------------------
(* Purchase orders *)

LEMMA LinesType ==
  ASSUME NEW lines \in Lines
  PROVE  /\ lines \in [Products -> Int]
         /\ \A p \in Products : lines[p] \in Nat /\ lines[p] <= MaxUnits
BY Constants DEF Lines, Quantities

LEMMA Zero == \A p \in Products : Nothing[p] = 0
BY DEF Nothing

LEMMA ListedSome ==
  ASSUME NEW lines \in Lines, Listed(lines) # {}
  PROVE  lines # Nothing
BY Zero DEF Listed

\* Writing one order leaves the others as they are.
LEMMA SetPurchaseType ==
  ASSUME ProcurementOK, NEW o \in Purchases, NEW po \in PurchaseType,
         po.version < MaxVersion, Owed(po), SetPurchase(o, po),
         \A q \in Purchases : Owed(purchase[q])
  PROVE  /\ purchase' \in [Purchases -> PurchaseType]
         /\ \A q \in Purchases : Owed(purchase'[q])
         /\ \A q \in Purchases \ {o} : purchase'[q] = purchase[q]
         /\ purchase'[o].version = po.version + 1
         /\ purchase'[o].accepted = po.accepted
<1> DEFINE new == [po EXCEPT !.version = @ + 1]
<1>1. /\ new \in PurchaseType
      /\ new.status = po.status /\ new.ordered = po.ordered
      /\ new.accepted = po.accepted /\ new.version = po.version + 1
  BY Constants DEF PurchaseType
<1>2. purchase' = [purchase EXCEPT ![o] = new]
  BY DEF SetPurchase
<1>3. Owed(new)
  BY <1>1 DEF Owed
<1> QED
  BY <1>1, <1>2, <1>3 DEF ProcurementOK

DocumentStep(o) ==
  \E po \in PurchaseType :
    /\ po.version = purchase[o].version /\ po.version < MaxVersion
    /\ po.accepted = purchase[o].accepted
    /\ Owed(po) /\ SetPurchase(o, po)
    /\ UNCHANGED <<receipt, archived>>

\* A draft that is entered, edited, confirmed, cancelled or closed keeps its
\* type and what it has accepted.
LEMMA DocumentSteps ==
  ASSUME TypeInv, NEW o \in Purchases, NEW a,
         \/ \E lines \in Lines : CreatePurchase(o, lines) \/ EditDraft(a, o, lines)
         \/ Confirm(a, o) \/ CancelPurchase(a, o) \/ ClosePurchase(a, o)
  PROVE  DocumentStep(o)
<1> USE Constants
<1>1. purchase[o] \in PurchaseType /\ Owed(purchase[o])
  BY DEF TypeInv, ProcurementOK
<1>2. ASSUME NEW lines \in Lines, CreatePurchase(o, lines)
      PROVE  DocumentStep(o)
  <2> DEFINE po == [status |-> "DRAFT", version |-> 0, ordered |-> lines,
                    accepted |-> Nothing]
  <2>1. /\ po \in PurchaseType /\ po.version = 0 /\ po.status = "DRAFT"
        /\ po.ordered = lines /\ po.accepted = Nothing
    BY DEF PurchaseType, PurchaseStates
  <2>3. lines # Nothing /\ \A p \in Products : Nothing[p] <= lines[p]
    BY <1>2, ListedSome, LinesType, Zero DEF CreatePurchase
  <2>4. Owed(po)
    BY <2>1, <2>3 DEF Owed
  <2>5. purchase[o].version = 0 /\ purchase[o].accepted = Nothing
    BY <1>2 DEF CreatePurchase, NoPurchase
  <2>6. SetPurchase(o, po) /\ UNCHANGED <<receipt, archived>>
    BY <1>2 DEF CreatePurchase
  <2> HIDE DEF po
  <2> QED
    BY <2>1, <2>4, <2>5, <2>6 DEF DocumentStep
<1>3. ASSUME NEW lines \in Lines, EditDraft(a, o, lines)
      PROVE  DocumentStep(o)
  <2> DEFINE po == [purchase[o] EXCEPT !.ordered = lines]
  <2>1. /\ po \in PurchaseType
        /\ po.status = "DRAFT" /\ po.ordered = lines
        /\ po.accepted = purchase[o].accepted /\ po.version = purchase[o].version
    BY <1>1, <1>3 DEF EditDraft, PurchaseType
  <2>2. purchase[o].accepted = Nothing /\ po.version < MaxVersion
    BY <1>1, <1>3, <2>1 DEF Owed, EditDraft, Current
  <2>3. Owed(po)
    BY <1>3, <2>1, <2>2, ListedSome, LinesType, Zero DEF Owed, EditDraft
  <2>4. SetPurchase(o, po) /\ UNCHANGED <<receipt, archived>>
    BY <1>3 DEF EditDraft
  <2> HIDE DEF po
  <2> QED
    BY <2>1, <2>2, <2>3, <2>4 DEF DocumentStep
<1>4. ASSUME NEW st \in {"ORDERED", "CANCELED"}, purchase[o].status = "DRAFT",
             purchase[o].version < MaxVersion,
             SetPurchase(o, [purchase[o] EXCEPT !.status = st]),
             UNCHANGED <<receipt, archived>>
      PROVE  DocumentStep(o)
  <2> DEFINE po == [purchase[o] EXCEPT !.status = st]
  <2>1. /\ po \in PurchaseType
        /\ po.status = st /\ po.ordered = purchase[o].ordered
        /\ po.accepted = purchase[o].accepted /\ po.version = purchase[o].version
    BY <1>1, <1>4 DEF PurchaseType, PurchaseStates
  <2>2. Owed(po)
    BY <1>1, <1>4, <2>1 DEF Owed
  <2>3. SetPurchase(o, po) /\ UNCHANGED <<receipt, archived>>
    BY <1>4
  <2> HIDE DEF po
  <2> QED
    BY <1>4, <2>1, <2>2, <2>3 DEF DocumentStep
<1>5. ASSUME ClosePurchase(a, o)
      PROVE  DocumentStep(o)
  <2> DEFINE po == [purchase[o] EXCEPT !.status = "CLOSED"]
  <2>1. /\ po \in PurchaseType
        /\ po.status = "CLOSED" /\ po.ordered = purchase[o].ordered
        /\ po.accepted = purchase[o].accepted /\ po.version = purchase[o].version
    BY <1>1 DEF PurchaseType, PurchaseStates
  <2>2. Owed(po)
    BY <1>1, <1>5, <2>1 DEF Owed, ClosePurchase, Receivable
  <2>3. /\ SetPurchase(o, po) /\ UNCHANGED <<receipt, archived>>
        /\ purchase[o].version < MaxVersion
    BY <1>5 DEF ClosePurchase, Current
  <2> HIDE DEF po
  <2> QED
    BY <2>1, <2>2, <2>3 DEF DocumentStep
<1> QED
  BY <1>2, <1>3, <1>4, <1>5 DEF Confirm, CancelPurchase, Current

\* A receipt brings no more than an order is owed.
LEMMA ReceiveSteps ==
  ASSUME TypeInv, NEW o \in Purchases, NEW key \in Keys,
         NEW expected \in Lines, NEW accepted \in Lines,
         Receive(o, key, expected, accepted)
  PROVE  /\ WarehouseOK'
         /\ ProcurementOK'
         /\ \A q \in Purchases : Owed(purchase[q])'
         /\ \A q \in Purchases \ {o} : purchase'[q] = purchase[q]
         /\ purchase'[o].version = purchase[o].version + 1
         /\ purchase'[o].accepted =
              [p \in Products |-> purchase[o].accepted[p] + accepted[p]]
<1> DEFINE was == purchase[o]
           progress == [p \in Products |-> was.accepted[p] + accepted[p]]
           po == [was EXCEPT !.accepted = progress,
                             !.status = Progress(was.ordered, progress)]
<1>1. was \in PurchaseType /\ Owed(was)
  BY DEF TypeInv, ProcurementOK
<1>2. ASSUME NEW p \in Products
      PROVE  /\ was.accepted[p] \in Nat /\ accepted[p] \in Nat
             /\ was.accepted[p] + accepted[p] <= was.ordered[p]
             /\ was.ordered[p] \in 0 .. MaxUnits
  <2>1. /\ was.ordered \in Lines /\ was.accepted \in Lines
        /\ was.accepted[p] <= was.ordered[p]
    BY <1>1 DEF PurchaseType, Owed
  <2>2. /\ was.ordered[p] \in 0 .. MaxUnits /\ was.accepted[p] \in Nat
        /\ accepted[p] \in Nat /\ expected[p] \in Nat
    BY <2>1, LinesType, Constants DEF Lines, Quantities
  <2>3. accepted[p] <= expected[p]
    BY DEF Receive
  <2>4. CASE expected[p] > 0
    <3>1. expected[p] <= Outstanding(o, p)
      BY <2>4 DEF Receive, Listed
    <3> QED
      BY <2>1, <2>2, <2>3, <3>1, Constants DEF Outstanding
  <2>5. CASE expected[p] = 0
    BY <2>1, <2>2, <2>3, <2>5, Constants
  <2> QED
    BY <2>2, <2>4, <2>5
<1>3. progress \in Lines /\ \A p \in Products : progress[p] <= was.ordered[p]
  BY <1>2, Constants DEF Lines, Quantities
<1>4. Receivable(o) /\ was.version < MaxVersion
  BY DEF Receive
<1>5. /\ po \in PurchaseType
      /\ po.status = Progress(was.ordered, progress)
      /\ po.ordered = was.ordered /\ po.accepted = progress
      /\ po.version = was.version
  BY <1>1, <1>3 DEF PurchaseType, PurchaseStates, Progress
<1>6. was.ordered # Nothing
  BY <1>1, <1>4 DEF Owed, Receivable
<1>7. (\A p \in Products : progress[p] >= was.ordered[p]) <=> progress = was.ordered
  <2>1. progress \in [Products -> Int] /\ was.ordered \in [Products -> Int]
    BY <1>1, <1>3, LinesType DEF PurchaseType
  <2>2. ASSUME \A p \in Products : progress[p] >= was.ordered[p]
        PROVE  progress = was.ordered
    <3>1. ASSUME NEW p \in Products PROVE progress[p] = was.ordered[p]
      <4>1. /\ progress[p] \in Int /\ was.ordered[p] \in Int
            /\ progress[p] <= was.ordered[p] /\ progress[p] >= was.ordered[p]
        BY <1>3, <2>1, <2>2
      <4> HIDE DEF progress, was
      <4> QED
        BY <4>1
    <3> HIDE DEF progress, was
    <3> QED
      BY <2>1, <3>1
  <2>3. ASSUME progress = was.ordered
        PROVE  \A p \in Products : progress[p] >= was.ordered[p]
    <3> TAKE p \in Products
    <3>1. progress[p] = was.ordered[p] /\ progress[p] \in Int
      BY <2>1, <2>3
    <3> HIDE DEF progress, was
    <3> QED
      BY <3>1
  <2> QED
    BY <2>2, <2>3
<1>8. Owed(po)
  BY <1>3, <1>5, <1>6, <1>7 DEF Owed, Progress
<1>9. SetPurchase(o, po)
  BY DEF Receive
<1>10. /\ purchase' \in [Purchases -> PurchaseType]
       /\ \A q \in Purchases : Owed(purchase'[q])
       /\ \A q \in Purchases \ {o} : purchase'[q] = purchase[q]
       /\ purchase'[o].version = po.version + 1
       /\ purchase'[o].accepted = po.accepted
  <2> HIDE DEF po
  <2> QED
    BY <1>4, <1>5, <1>8, <1>9, SetPurchaseType DEF TypeInv
<1>11. ProcurementOK'
  <2>1. receipt' \in SUBSET ReceiptType
    BY DEF Receive, ReceiptType, TypeInv, ProcurementOK
  <2>2. archived' = archived
    BY DEF Receive
  <2> QED
    BY <1>10, <2>1, <2>2 DEF TypeInv, ProcurementOK
<1>12. WarehouseOK'
  <2>1. WarehouseOK
    BY DEF TypeInv
  <2>2. /\ accepted \in [Products -> Int]
        /\ \A p \in Products : accepted[p] \in Nat
    BY LinesType
  <2>3. /\ Add(accepted) \in [Products -> Int]
        /\ \A p \in Products : Add(accepted)[p] = stock[p] + accepted[p]
    BY <2>1, <2>2, Adding
  <2>4. ASSUME NEW p \in Products PROVE Add(accepted)[p] >= Removed
    <3>1. /\ stock[p] \in Int /\ stock[p] >= -1 /\ accepted[p] \in Nat
          /\ Add(accepted)[p] = stock[p] + accepted[p]
      BY <2>1, <2>2, <2>3 DEF WarehouseOK, Removed
    <3> QED
      BY <3>1 DEF Removed
  <2>a. ASSUME NEW p \in Products
        PROVE  p \in Listed(accepted) <=> Add(accepted)[p] # stock[p]
    <3>1. /\ stock[p] \in Int /\ accepted[p] \in Nat
          /\ Add(accepted)[p] = stock[p] + accepted[p]
      BY <2>1, <2>2, <2>3 DEF WarehouseOK, Removed
    <3> QED
      BY <3>1 DEF Listed
  <2>5. Write(Add(accepted), Listed(accepted)) /\ Record(accepted)
        /\ UNCHANGED <<holds, sold, removed>>
    BY DEF Receive
  <2>6. /\ stock' \in [Products -> Removed .. MaxStock]
        /\ revision' \in [Products -> Nat]
        /\ changes' \in [Products -> 0 .. MaxChanges]
        /\ \A p \in Products : revision'[p] = changes'[p]
    BY <2>1, <2>3, <2>4, <2>5, <2>a, WriteType
  <2>7. book' \in [Products -> [sum : Int, last : Int]]
    BY <2>1, <2>2, <2>5, RecordType
  <2> QED
    BY <2>1, <2>5, <2>6, <2>7 DEF WarehouseOK
<1> QED
  BY <1>5, <1>10, <1>11, <1>12

-----------------------------------------------------------------------------
(* Stock counts *)

CountStep(c, states) ==
  \E k \in CountType :
    /\ k.version = count[c].version /\ k.version < MaxVersion
    /\ k.status \in states
    /\ SetCount(c, k)

Working == {"DRAFT", "SUBMITTED", "CANCELED"}

LEMMA SetCountType ==
  ASSUME CountsOK, NEW c \in Counts, NEW k \in CountType,
         k.version < MaxVersion, SetCount(c, k)
  PROVE  /\ CountsOK'
         /\ \A d \in Counts \ {c} : count'[d] = count[d]
         /\ count'[c].version = k.version + 1
         /\ count'[c].status = k.status
<1> DEFINE new == [k EXCEPT !.version = @ + 1]
<1>1. new \in CountType /\ new.version = k.version + 1 /\ new.status = k.status
  BY Constants DEF CountType
<1>2. count' = [count EXCEPT ![c] = new]
  BY DEF SetCount
<1> HIDE DEF new
<1> QED
  BY <1>1, <1>2 DEF CountsOK

LEMMA ItemsType ==
  ASSUME CountsOK, NEW c \in Counts
  PROVE  /\ count[c] \in CountType
         /\ Items(c) \subseteq Products
         /\ count[c].items \in [Items(c) -> Line]
BY DEF CountsOK, CountType, ItemSets, Items

LEMMA BaselineType ==
  ASSUME WarehouseOK, NEW p \in Products, Active(p)
  PROVE  Baseline(p) \in Line
BY Constants DEF WarehouseOK, Baseline, Line, Blank, Removed, Active

LEMMA StatusRecord ==
  ASSUME CountsOK, NEW c \in Counts, NEW st \in CountStates
  PROVE  LET k == [count[c] EXCEPT !.status = st]
         IN  /\ k \in CountType /\ k.version = count[c].version
             /\ k.items = count[c].items /\ k.status = st
BY ItemsType DEF CountType

LEMMA CreateCountStep ==
  ASSUME TypeInv, NEW c \in Counts, NEW P \in SUBSET Products, CreateCount(c, P)
  PROVE  CountStep(c, Working)
<1> DEFINE lines == [p \in P |-> Baseline(p)]
           k == [status |-> "DRAFT", version |-> 0, items |-> lines]
<1>1. \A p \in P : Baseline(p) \in Line
  BY BaselineType DEF CreateCount, TypeInv
<1>2. lines \in [P -> Line]
  BY <1>1
<1>3. lines \in ItemSets
  BY <1>2 DEF ItemSets
<1> HIDE DEF lines
<1>4. k \in CountType /\ k.version = 0 /\ k.status = "DRAFT"
  BY <1>3, Constants DEF CountType, CountStates
<1>5. count[c].version = 0
  BY DEF CreateCount, NoCount
<1>6. SetCount(c, k)
  BY DEF CreateCount, lines
<1> HIDE DEF k
<1> QED
  BY <1>4, <1>5, <1>6, Constants DEF CountStep, Working

LEMMA ObserveStep ==
  ASSUME TypeInv, NEW a, NEW c \in Counts, NEW P \in SUBSET Products,
         NEW n \in [P -> Quantities], Observe(a, c, P, n)
  PROVE  CountStep(c, Working)
<1> DEFINE was == count[c].items
           lines == [p \in Items(c) |-> IF p \in P THEN [was[p] EXCEPT !.counted = n[p]]
                                        ELSE was[p]]
           k == [count[c] EXCEPT !.items = lines]
<1>1. was \in [Items(c) -> Line] /\ Items(c) \in SUBSET Products
  BY ItemsType DEF TypeInv
<1>2. ASSUME NEW p \in P PROVE [was[p] EXCEPT !.counted = n[p]] \in Line
  BY <1>1, Constants DEF Line, Observe
<1>3. lines \in [Items(c) -> Line]
  BY <1>1, <1>2
<1>4. k \in CountType /\ k.version = count[c].version /\ k.status = "DRAFT"
  <2>1. count[c] \in CountType /\ lines \in ItemSets
    BY <1>1, <1>3, ItemsType DEF ItemSets, TypeInv
  <2> HIDE DEF lines
  <2> QED
    BY <2>1 DEF CountType, Observe
<1>5. SetCount(c, k) /\ k.version < MaxVersion
  BY <1>4 DEF Observe, Current
<1> HIDE DEF k
<1> QED
  BY <1>4, <1>5 DEF CountStep, Working

LEMMA ReopenStep ==
  ASSUME TypeInv, NEW a, NEW c \in Counts, NEW P \in SUBSET Products,
         Reopen(a, c, P)
  PROVE  CountStep(c, Working)
<1> DEFINE was == count[c].items
           lines == [p \in Items(c) |-> IF p \in P THEN Baseline(p) ELSE was[p]]
           k == [count[c] EXCEPT !.status = "DRAFT", !.items = lines]
<1>1. was \in [Items(c) -> Line] /\ Items(c) \in SUBSET Products
  BY ItemsType DEF TypeInv
<1>2. ASSUME NEW p \in P PROVE Baseline(p) \in Line
  BY <1>1, BaselineType DEF Reopen, TypeInv
<1>3. lines \in [Items(c) -> Line]
  BY <1>1, <1>2
<1>4. k \in CountType /\ k.version = count[c].version /\ k.status = "DRAFT"
  <2>1. count[c] \in CountType /\ lines \in ItemSets
    BY <1>1, <1>3, ItemsType DEF ItemSets, TypeInv
  <2> HIDE DEF lines
  <2> QED
    BY <2>1 DEF CountType, CountStates
<1>5. SetCount(c, k) /\ k.version < MaxVersion
  BY <1>4 DEF Reopen, Current
<1> HIDE DEF k
<1> QED
  BY <1>4, <1>5 DEF CountStep, Working

LEMMA StatusStep ==
  ASSUME TypeInv, NEW c \in Counts, NEW st \in CountStates,
         NEW states, st \in states, count[c].version < MaxVersion,
         SetCount(c, [count[c] EXCEPT !.status = st])
  PROVE  CountStep(c, states)
BY StatusRecord DEF CountStep, TypeInv

\* What an approved count adds to the stock of p.
Moved(c) == [p \in Products |->
  IF p \in Items(c) THEN count[c].items[p].counted - stock[p] ELSE 0]

LEMMA ApproveFacts ==
  ASSUME TypeInv, NEW a, NEW c \in Counts, Approve(a, c)
  PROVE  /\ CountStep(c, {"APPROVED"})
         /\ Write(Add(Moved(c)), {p \in Products : Moved(c)[p] # 0})
         /\ Record(Moved(c))
         /\ UNCHANGED <<holds, sold, removed>>
         /\ Moved(c) \in [Products -> Int]
         /\ \A p \in Items(c) :
              /\ count[c].items[p].counted \in Nat
              /\ Add(Moved(c))[p] = count[c].items[p].counted
         /\ \A p \in Products \ Items(c) :
              Moved(c)[p] = 0 /\ Add(Moved(c))[p] = stock[p]
<1>1. /\ WarehouseOK /\ CountsOK
      /\ Items(c) \subseteq Products /\ count[c].items \in [Items(c) -> Line]
  BY ItemsType DEF TypeInv
<1>2. ASSUME NEW p \in Items(c)
      PROVE  count[c].items[p].counted \in Nat
  <2>1. count[c].items[p] \in Line /\ count[c].items[p].counted # Blank
    <3>1. Complete(c)
      BY DEF Approve
    <3> QED
      BY <1>1, <3>1 DEF Complete
  <2> QED
    BY <2>1 DEF Line
<1>3. ASSUME NEW p \in Products PROVE stock[p] \in Int
  <2>1. stock \in [Products -> -1 .. MaxStock]
    BY <1>1 DEF WarehouseOK, Removed
  <2> QED
    BY <2>1, Constants
<1>4. Moved(c) \in [Products -> Int]
  BY <1>1, <1>2, <1>3 DEF Moved
<1>5. \A p \in Products : Add(Moved(c))[p] = stock[p] + Moved(c)[p]
  BY <1>1, <1>4, Adding
<1>6. ASSUME NEW p \in Items(c) PROVE Add(Moved(c))[p] = count[c].items[p].counted
  <2>1. Moved(c)[p] = count[c].items[p].counted - stock[p]
    BY <1>1 DEF Moved
  <2> QED
    BY <1>1, <1>2, <1>3, <1>5, <2>1
<1>7. ASSUME NEW p \in Products \ Items(c)
      PROVE  Moved(c)[p] = 0 /\ Add(Moved(c))[p] = stock[p]
  <2>1. Moved(c)[p] = 0
    BY DEF Moved
  <2> QED
    BY <1>3, <1>5, <2>1
<1>8. CountStep(c, {"APPROVED"})
  BY StatusStep DEF Approve, Current, CountStates
<1>9. /\ Write(Add(Moved(c)), {p \in Products : Moved(c)[p] # 0})
      /\ Record(Moved(c))
      /\ UNCHANGED <<holds, sold, removed>>
  BY DEF Approve, Moved
<1> QED
  BY <1>2, <1>4, <1>6, <1>7, <1>8, <1>9

LEMMA ApproveType ==
  ASSUME TypeInv, NEW a, NEW c \in Counts, Approve(a, c)
  PROVE  WarehouseOK'
<1>1. WarehouseOK
  BY DEF TypeInv
<1>2. /\ Moved(c) \in [Products -> Int]
      /\ Add(Moved(c)) \in [Products -> Int]
  BY <1>1, ApproveFacts, Adding
<1>3. ASSUME NEW p \in Products PROVE Add(Moved(c))[p] >= Removed
  <2>0. /\ p \in Items(c) => Add(Moved(c))[p] \in Nat
        /\ p \notin Items(c) => Add(Moved(c))[p] = stock[p]
    BY ApproveFacts
  <2>1. CASE p \in Items(c)
    BY <2>0, <2>1 DEF Removed
  <2>2. CASE p \notin Items(c)
    BY <1>1, <2>0, <2>2 DEF Removed, WarehouseOK
  <2> QED
    BY <2>1, <2>2
<1>a. ASSUME NEW p \in Products
      PROVE  p \in {q \in Products : Moved(c)[q] # 0} <=> Add(Moved(c))[p] # stock[p]
  <2>1. /\ stock[p] \in Int /\ Moved(c)[p] \in Int
        /\ Add(Moved(c))[p] = stock[p] + Moved(c)[p]
    BY <1>1, <1>2, Adding DEF WarehouseOK, Removed
  <2> QED
    BY <2>1
<1>b. Write(Add(Moved(c)), {p \in Products : Moved(c)[p] # 0})
  BY ApproveFacts
<1>4. /\ stock' \in [Products -> Removed .. MaxStock]
      /\ revision' \in [Products -> Nat]
      /\ changes' \in [Products -> 0 .. MaxChanges]
      /\ \A p \in Products : revision'[p] = changes'[p]
  BY <1>1, <1>2, <1>3, <1>a, <1>b, WriteType
<1>5. book' \in [Products -> [sum : Int, last : Int]]
  BY <1>1, <1>2, ApproveFacts, RecordType
<1> QED
  BY <1>1, <1>4, <1>5, ApproveFacts DEF WarehouseOK

-----------------------------------------------------------------------------
(* Pages and steps *)

LEMMA DocumentType ==
  ASSUME ProcurementOK, CountsOK, NEW d \in Documents
  PROVE  Document(d).version \in 0 .. MaxVersion
BY Constants
DEF Document, Documents, ProcurementOK, CountsOK, PurchaseType, CountType

LEMMA ChangedType ==
  ASSUME ProcurementOK', CountsOK', NEW d \in Documents
  PROVE  Changed(d).version \in 0 .. MaxVersion
BY Constants
DEF Changed, Documents, ProcurementOK, CountsOK, PurchaseType, CountType

LEMMA TurnType ==
  ASSUME PagesOK, ProcurementOK', CountsOK', NEW served, Turn(served)
  PROVE  PagesOK'
<1>1. ASSUME NEW a \in Admins PROVE page'[a] \in PageType \cup {NoPage}
  <2>1. CASE page[a] = NoPage
    BY <2>1 DEF Turn
  <2>2. CASE page[a] # NoPage
    <3>1. page[a] \in PageType /\ page[a].of \in Documents
      BY <2>2 DEF PagesOK, PageType
    <3>2. Changed(page[a].of).version \in Nat
      BY <3>1, ChangedType, Constants
    <3>3. CASE a \in served
      <4>1. page'[a] = [of |-> page[a].of,
                        version |-> Changed(page[a].of).version, fresh |-> TRUE]
        BY <2>2, <3>3 DEF Turn
      <4> QED
        BY <3>1, <3>2, <4>1 DEF PageType
    <3>4. CASE a \notin served
      <4> DEFINE still == page[a].fresh /\ Document(page[a].of) = Changed(page[a].of)
      <4>1. page'[a] = [page[a] EXCEPT !.fresh = still]
        BY <2>2, <3>4 DEF Turn
      <4>2. still \in BOOLEAN
        BY <3>1 DEF PageType
      <4> HIDE DEF still
      <4> QED
        BY <3>1, <4>1, <4>2 DEF PageType
    <3> QED
      BY <3>3, <3>4
  <2> QED
    BY <2>1, <2>2
<1> QED
  BY <1>1 DEF PagesOK, Turn

LEMMA LoadType ==
  ASSUME TypeInv, NEW a \in Admins, NEW d \in Documents, Load(a, d)
  PROVE  PagesOK'
<1>1. Document(d).version \in Nat
  BY DocumentType, Constants DEF TypeInv
<1>2. [of |-> d, version |-> Document(d).version, fresh |-> TRUE] \in PageType
  BY <1>1 DEF PageType
<1> QED
  BY <1>2 DEF Load, TypeInv, PagesOK

\* What an administrator does to a purchase order or a count, or the shop by itself.
PurchaseWork(a, o) ==
  \/ \E lines \in Lines : EditDraft(a, o, lines)
  \/ Confirm(a, o) \/ CancelPurchase(a, o) \/ ClosePurchase(a, o)
CountWork(a, c) ==
  \/ \E P \in SUBSET Products : \E n \in [P -> Quantities] : Observe(a, c, P, n)
  \/ \E P \in SUBSET Products : Reopen(a, c, P)
  \/ Submit(a, c) \/ CancelCount(a, c)

WarehouseWork(p, n) ==
  \/ n # 0 /\ (Hold(p, n) \/ Release(p, n) \/ Sell(p, n) \/ Restock(p, n))
  \/ Adjust(p, n) \/ Remove(p)

\* The steps of the specification, one case for each kind of change.
LEMMA StepCases ==
  ASSUME [Next]_vars
  PROVE  \/ \E p \in Products, n \in Quantities :
              WarehouseWork(p, n) /\ UNCHANGED <<procurement, count, page>>
         \/ \E o \in Purchases, lines \in Lines :
              CreatePurchase(o, lines) /\ UNCHANGED <<warehouse, count>> /\ Turn({})
         \/ ArchiveSupplier /\ UNCHANGED <<warehouse, count>> /\ Turn({})
         \/ \E o \in Purchases, key \in Keys, expected, accepted \in Lines :
              Receive(o, key, expected, accepted) /\ UNCHANGED count /\ Turn({})
         \/ \E c \in Counts, P \in SUBSET Products :
              CreateCount(c, P) /\ UNCHANGED <<warehouse, procurement>> /\ Turn({})
         \/ \E a \in Admins \cup {Prompt}, o \in Purchases :
              PurchaseWork(a, o) /\ UNCHANGED <<warehouse, count>> /\ Turn({a})
         \/ \E a \in Admins \cup {Prompt}, c \in Counts :
              CountWork(a, c) /\ UNCHANGED <<warehouse, procurement>> /\ Turn({a})
         \/ \E a \in Admins \cup {Prompt}, c \in Counts :
              Approve(a, c) /\ UNCHANGED procurement /\ Turn({a})
         \/ \E a \in Admins, d \in Documents : Load(a, d)
         \/ UNCHANGED vars
<1>1. CASE WarehouseNext /\ UNCHANGED <<procurement, count, page>>
  BY <1>1, Constants DEF WarehouseNext, WarehouseWork
<1>2. CASE ProcurementNext /\ UNCHANGED count /\ Turn({})
  BY <1>2 DEF ProcurementNext
<1>3. CASE CountsNext /\ UNCHANGED procurement /\ Turn({})
  BY <1>3 DEF CountsNext
<1>4. ASSUME NEW a \in Admins \cup {Prompt}, Turn({a}),
             ProcurementBy(a), UNCHANGED count
      PROVE  \E o \in Purchases :
               PurchaseWork(a, o) /\ UNCHANGED <<warehouse, count>> /\ Turn({a})
  BY <1>4 DEF ProcurementBy, PurchaseWork
<1>5. ASSUME NEW a \in Admins \cup {Prompt}, Turn({a}),
             CountsBy(a), UNCHANGED procurement
      PROVE  \E c \in Counts :
               \/ CountWork(a, c) /\ UNCHANGED <<warehouse, procurement>> /\ Turn({a})
               \/ Approve(a, c) /\ UNCHANGED procurement /\ Turn({a})
  BY <1>5 DEF CountsBy, CountWork
<1>6. CASE \E a \in Admins, d \in Documents : Load(a, d)
  BY <1>6
<1>7. CASE UNCHANGED vars
  BY <1>7
<1> QED
  BY <1>1, <1>2, <1>3, <1>4, <1>5, <1>6, <1>7 DEF Next

\* How the documents change: each is left alone or gets the next version.
LEMMA PurchaseStepType ==
  ASSUME TypeInv, NEW o \in Purchases, DocumentStep(o)
  PROVE  /\ ProcurementOK'
         /\ \A q \in Purchases : Owed(purchase[q])'
         /\ \A q \in Purchases \ {o} : purchase'[q] = purchase[q]
         /\ purchase'[o].version = purchase[o].version + 1
         /\ purchase'[o].accepted = purchase[o].accepted
<1>1. PICK po \in PurchaseType :
        /\ po.version = purchase[o].version /\ po.version < MaxVersion
        /\ po.accepted = purchase[o].accepted
        /\ Owed(po) /\ SetPurchase(o, po)
        /\ UNCHANGED <<receipt, archived>>
  BY DEF DocumentStep
<1>2. /\ purchase' \in [Purchases -> PurchaseType]
      /\ \A q \in Purchases : Owed(purchase'[q])
      /\ \A q \in Purchases \ {o} : purchase'[q] = purchase[q]
      /\ purchase'[o].version = po.version + 1
      /\ purchase'[o].accepted = po.accepted
  BY <1>1, SetPurchaseType DEF TypeInv
<1> QED
  BY <1>1, <1>2 DEF TypeInv, ProcurementOK

LEMMA CountStepType ==
  ASSUME TypeInv, NEW c \in Counts, NEW states, CountStep(c, states)
  PROVE  /\ CountsOK'
         /\ \A d \in Counts \ {c} : count'[d] = count[d]
         /\ count'[c].version = count[c].version + 1
         /\ count'[c].status \in states
BY SetCountType DEF CountStep, TypeInv

LEMMA CountWorkStep ==
  ASSUME TypeInv, NEW a, NEW c \in Counts, CountWork(a, c)
  PROVE  CountStep(c, Working)
<1>1. ASSUME NEW P \in SUBSET Products, NEW n \in [P -> Quantities],
             Observe(a, c, P, n)
      PROVE  CountStep(c, Working)
  BY <1>1, ObserveStep
<1>2. ASSUME NEW P \in SUBSET Products, Reopen(a, c, P)
      PROVE  CountStep(c, Working)
  BY <1>2, ReopenStep
<1>3. ASSUME Submit(a, c) \/ CancelCount(a, c)
      PROVE  CountStep(c, Working)
  BY <1>3, StatusStep DEF Submit, CancelCount, Current, CountStates, Working
<1> QED
  BY <1>1, <1>2, <1>3 DEF CountWork

LEMMA PurchaseWorkStep ==
  ASSUME TypeInv, NEW a, NEW o \in Purchases, PurchaseWork(a, o)
  PROVE  DocumentStep(o)
BY DocumentSteps DEF PurchaseWork

LEMMA WarehouseStepType ==
  ASSUME WarehouseOK, NEW p \in Products, NEW n \in Quantities, WarehouseWork(p, n)
  PROVE  WarehouseOK'
BY HoldType, SellType, RestockType, AdjustType, RemoveType DEF WarehouseWork

\* Every step keeps the type invariant.
LEMMA TypeStep == TypeInv /\ [Next]_vars => TypeInv'
<1> SUFFICES ASSUME TypeInv, [Next]_vars PROVE TypeInv'
  OBVIOUS
<1>0. /\ WarehouseOK /\ ProcurementOK /\ CountsOK /\ PagesOK
      /\ \A o \in Purchases : Owed(purchase[o])
  BY DEF TypeInv
<1>a. UNCHANGED warehouse => WarehouseOK'
  BY <1>0 DEF warehouse, WarehouseOK
<1>b. UNCHANGED procurement =>
        ProcurementOK' /\ \A o \in Purchases : Owed(purchase[o])'
  BY <1>0 DEF procurement, ProcurementOK, Owed
<1>c. UNCHANGED count => CountsOK'
  BY <1>0 DEF CountsOK
<1>d. UNCHANGED page => PagesOK'
  BY <1>0 DEF PagesOK
<1>e. \A served : ProcurementOK' /\ CountsOK' /\ Turn(served) => PagesOK'
  BY <1>0, TurnType
<1>f. UNCHANGED <<warehouse, count>> => UNCHANGED warehouse /\ UNCHANGED count
  OBVIOUS
<1>g. /\ UNCHANGED <<warehouse, procurement>> =>
           UNCHANGED warehouse /\ UNCHANGED procurement
      /\ UNCHANGED <<procurement, count, page>> =>
           UNCHANGED procurement /\ UNCHANGED count /\ UNCHANGED page
  OBVIOUS
<1>1. ASSUME NEW p \in Products, NEW n \in Quantities,
             WarehouseWork(p, n),
             UNCHANGED <<procurement, count, page>>
      PROVE  TypeInv'
  <2>1. WarehouseOK'
    BY <1>0, <1>1, WarehouseStepType
  <2> QED
    BY <1>1, <1>b, <1>c, <1>d, <1>g, <2>1 DEF TypeInv
<1>2. ASSUME NEW o \in Purchases, DocumentStep(o), NEW served,
             UNCHANGED <<warehouse, count>>, Turn(served)
      PROVE  TypeInv'
  <2>1. ProcurementOK' /\ \A q \in Purchases : Owed(purchase[q])'
    BY <1>2, PurchaseStepType
  <2> QED
    BY <1>2, <1>a, <1>c, <1>e, <1>f, <2>1 DEF TypeInv
<1>3. ASSUME ArchiveSupplier, UNCHANGED <<warehouse, count>>, Turn({})
      PROVE  TypeInv'
  <2>1. ProcurementOK' /\ \A o \in Purchases : Owed(purchase[o])'
    BY <1>0, <1>3 DEF ArchiveSupplier, ProcurementOK, Owed
  <2> QED
    BY <1>3, <1>a, <1>c, <1>e, <1>f, <2>1 DEF TypeInv
<1>4. ASSUME NEW o \in Purchases, NEW key \in Keys,
             NEW expected \in Lines, NEW accepted \in Lines,
             Receive(o, key, expected, accepted), UNCHANGED count, Turn({})
      PROVE  TypeInv'
  BY <1>4, <1>c, <1>e, ReceiveSteps DEF TypeInv
<1>5. ASSUME NEW c \in Counts, CountStep(c, Working), NEW served,
             UNCHANGED <<warehouse, procurement>>, Turn(served)
      PROVE  TypeInv'
  BY <1>5, <1>a, <1>b, <1>e, <1>g, CountStepType DEF TypeInv
<1>6. ASSUME NEW a, NEW c \in Counts, Approve(a, c), NEW served,
             UNCHANGED procurement, Turn(served)
      PROVE  TypeInv'
  <2>1. WarehouseOK' /\ CountsOK'
    BY <1>6, ApproveType, ApproveFacts, CountStepType
  <2> QED
    BY <1>6, <1>b, <1>e, <2>1 DEF TypeInv
<1>7. ASSUME NEW a \in Admins, NEW d \in Documents, Load(a, d)
      PROVE  TypeInv'
  <2>1. UNCHANGED warehouse /\ UNCHANGED procurement /\ UNCHANGED count
    BY <1>7 DEF Load
  <2> QED
    BY <1>7, <1>a, <1>b, <1>c, <2>1, LoadType DEF TypeInv
<1>8. CASE UNCHANGED vars
  BY <1>8, <1>a, <1>b, <1>c, <1>d DEF vars, TypeInv
<1>9. ASSUME NEW o \in Purchases, NEW lines \in Lines, CreatePurchase(o, lines)
      PROVE  DocumentStep(o)
  BY <1>9, DocumentSteps
<1>10. ASSUME NEW c \in Counts, NEW P \in SUBSET Products, CreateCount(c, P)
       PROVE  CountStep(c, Working)
  BY <1>10, CreateCountStep
<1> QED
  BY <1>1, <1>2, <1>3, <1>4, <1>5, <1>6, <1>7, <1>8, <1>9, <1>10, StepCases,
     PurchaseWorkStep, CountWorkStep

\* The invariant is stronger than the types of Inventory.
LEMMA TypeImplied == TypeInv => TypeOK
<1> SUFFICES ASSUME TypeInv PROVE TypeOK
  OBVIOUS
<1>1. revision \in [Products -> 0 .. MaxChanges]
  BY DEF TypeInv, WarehouseOK
<1> QED
  BY <1>1, ItemsType DEF TypeInv, WarehouseOK, ProcurementOK, CountsOK, TypeOK,
     PurchaseType, ReceiptType, CountType

\* Stock, books, documents and pages keep their types whatever the shop does:
\* stock never leaves its range, and an order never accepts more of a product
\* than it ordered.
THEOREM TypeCorrect == Spec => []TypeOK
<1>1. Init => TypeInv
  BY TypeInit
<1>2. TypeInv /\ [Next]_vars => TypeInv'
  BY TypeStep
<1> QED
  BY <1>1, <1>2, TypeImplied, PTL DEF Spec

-----------------------------------------------------------------------------
(* The ledger and the holds *)

Books == LedgerExplains /\ HoldsCovered

LEMMA BooksInit == Init => Books
BY Constants DEF Init, WarehouseInit, Books, LedgerExplains, HoldsCovered

\* A writer that moves the quantities it records keeps the ledger.
LEMMA Recorded ==
  ASSUME WarehouseOK, LedgerExplains, NEW revised,
         NEW next \in [Products -> Int], NEW moved \in [Products -> Int],
         \A p \in Products : next[p] = stock[p] + moved[p],
         Write(next, revised), Record(moved), removed' = removed
  PROVE  LedgerExplains' /\ \A p \in Products : stock'[p] = next[p]
<1> SUFFICES ASSUME NEW p \in Products \ removed
             PROVE  book'[p].sum = stock'[p] /\ book'[p].last = stock'[p]
  BY DEF LedgerExplains, Write
<1>1. stock[p] \in Int /\ book[p].sum = stock[p] /\ book[p].last = stock[p]
  BY DEF WarehouseOK, Removed, LedgerExplains
<1>2. stock'[p] = stock[p] + moved[p] /\ moved[p] \in Int
  BY DEF Write
<1>3. CASE moved[p] = 0
  <2>1. book'[p] = book[p]
    BY <1>3 DEF Record
  <2> QED
    BY <1>1, <1>2, <1>3, <2>1
<1>4. CASE moved[p] # 0
  <2>1. book'[p] = [sum |-> book[p].sum + moved[p], last |-> stock[p] + moved[p]]
    BY <1>4 DEF Record
  <2> QED
    BY <1>1, <1>2, <2>1
<1> QED
  BY <1>3, <1>4

LEMMA SellBooks ==
  ASSUME WarehouseOK, Books, NEW p \in Products, NEW n \in Quantities, Sell(p, n)
  PROVE  Books'
<1>1. n \in Nat /\ -n \in Int
  BY Constants
<1>2. /\ Only(p, -n) \in [Products -> Int] /\ Only(p, -n)[p] = -n
      /\ \A q \in Products \ {p} : Only(p, -n)[q] = 0
  BY <1>1, OnlyOne
<1>3. /\ Add(Only(p, -n)) \in [Products -> Int]
      /\ \A q \in Products : Add(Only(p, -n))[q] = stock[q] + Only(p, -n)[q]
  BY <1>2, Adding
<1>4. /\ LedgerExplains'
      /\ \A q \in Products : stock'[q] = stock[q] + Only(p, -n)[q]
  BY <1>2, <1>3, Recorded DEF Sell, Books
<1>5. ASSUME NEW q \in Products \ removed PROVE holds'[q] <= stock'[q]
  <2>1. /\ stock[q] \in Int /\ holds[q] \in Nat /\ holds[q] <= stock[q]
        /\ stock'[q] = stock[q] + Only(p, -n)[q]
    BY <1>4 DEF WarehouseOK, Removed, Books, HoldsCovered
  <2>2. CASE q = p
    <3>1. stock'[q] = stock[q] + (-n) /\ holds'[q] = holds[q] - n
      BY <1>2, <2>1, <2>2 DEF Sell, WarehouseOK
    <3> QED
      BY <1>1, <2>1, <3>1
  <2>3. CASE q # p
    <3>1. stock'[q] = stock[q] + 0 /\ holds'[q] = holds[q]
      BY <1>2, <2>1, <2>3 DEF Sell, WarehouseOK
    <3> QED
      BY <2>1, <3>1
  <2> QED
    BY <2>2, <2>3
<1> QED
  BY <1>4, <1>5 DEF Books, HoldsCovered, Sell

LEMMA RestockBooks ==
  ASSUME WarehouseOK, Books, NEW p \in Products, NEW n \in Quantities, Restock(p, n)
  PROVE  Books'
<1>1. n \in Nat
  BY Constants
<1>2. /\ Only(p, n) \in [Products -> Int]
      /\ \A q \in Products : Only(p, n)[q] \in Nat
  BY <1>1, OnlyOne DEF Only
<1>3. /\ Add(Only(p, n)) \in [Products -> Int]
      /\ \A q \in Products : Add(Only(p, n))[q] = stock[q] + Only(p, n)[q]
  BY <1>2, Adding
<1>4. /\ LedgerExplains'
      /\ \A q \in Products : stock'[q] = stock[q] + Only(p, n)[q]
  BY <1>2, <1>3, Recorded DEF Restock, Books
<1>5. ASSUME NEW q \in Products \ removed PROVE holds'[q] <= stock'[q]
  <2>1. /\ stock[q] \in Int /\ holds[q] \in Nat /\ holds[q] <= stock[q]
        /\ stock'[q] = stock[q] + Only(p, n)[q] /\ holds' = holds
    BY <1>4 DEF WarehouseOK, Removed, Books, HoldsCovered, Restock
  <2>2. Only(p, n)[q] \in Nat
    BY <1>2
  <2> QED
    BY <2>1, <2>2
<1> QED
  BY <1>4, <1>5 DEF Books, HoldsCovered, Restock

LEMMA AdjustBooks ==
  ASSUME WarehouseOK, Books, NEW p \in Products, NEW n \in Quantities, Adjust(p, n)
  PROVE  Books'
<1> DEFINE next == [stock EXCEPT ![p] = n]
<1>1. n \in Nat /\ stock \in [Products -> Int]
  BY Constants DEF WarehouseOK, Removed
<1>2. /\ Only(p, n - stock[p]) \in [Products -> Int]
      /\ Only(p, n - stock[p])[p] = n - stock[p]
      /\ \A q \in Products \ {p} : Only(p, n - stock[p])[q] = 0
  BY <1>1, OnlyOne
<1>3. /\ next \in [Products -> Int]
      /\ next[p] = n /\ \A q \in Products \ {p} : next[q] = stock[q]
  BY <1>1
<1>4. ASSUME NEW q \in Products
      PROVE  next[q] = stock[q] + Only(p, n - stock[p])[q]
  BY <1>1, <1>2, <1>3
<1>5. Write(next, {p}) /\ Record(Only(p, n - stock[p])) /\ UNCHANGED <<holds, removed>>
  BY DEF Adjust
<1> HIDE DEF next
<1>6. LedgerExplains' /\ \A q \in Products : stock'[q] = next[q]
  BY <1>2, <1>3, <1>4, <1>5, Recorded DEF Books
<1>7. ASSUME NEW q \in Products \ removed PROVE holds'[q] <= stock'[q]
  <2>1. /\ stock[q] \in Int /\ holds[q] \in Nat /\ holds[q] <= stock[q]
        /\ holds'[q] = holds[q] /\ stock'[q] = next[q]
    BY <1>1, <1>5, <1>6 DEF WarehouseOK, Books, HoldsCovered
  <2>2. CASE q = p
    BY <1>1, <1>3, <2>1, <2>2 DEF Adjust, Reducible
  <2>3. CASE q # p
    BY <1>3, <2>1, <2>3
  <2> QED
    BY <2>2, <2>3
<1> QED
  BY <1>5, <1>6, <1>7 DEF Books, HoldsCovered

LEMMA ReceiveBooks ==
  ASSUME WarehouseOK, Books, NEW o \in Purchases, NEW key,
         NEW expected \in Lines, NEW accepted \in Lines,
         Receive(o, key, expected, accepted)
  PROVE  Books'
<1>1. accepted \in [Products -> Int] /\ \A p \in Products : accepted[p] \in Nat
  BY LinesType
<1>2. /\ Add(accepted) \in [Products -> Int]
      /\ \A p \in Products : Add(accepted)[p] = stock[p] + accepted[p]
  BY <1>1, Adding
<1>3. Write(Add(accepted), Listed(accepted)) /\ Record(accepted)
      /\ UNCHANGED <<holds, sold, removed>>
  BY DEF Receive
<1>4. LedgerExplains' /\ \A p \in Products : stock'[p] = stock[p] + accepted[p]
  BY <1>1, <1>2, <1>3, Recorded DEF Books
<1>5. ASSUME NEW p \in Products \ removed PROVE holds'[p] <= stock'[p]
  <2>1. /\ stock[p] \in Int /\ holds[p] \in Nat /\ holds[p] <= stock[p]
        /\ holds'[p] = holds[p] /\ stock'[p] = stock[p] + accepted[p]
        /\ accepted[p] \in Nat
    BY <1>1, <1>3, <1>4 DEF WarehouseOK, Removed, Books, HoldsCovered
  <2> QED
    BY <2>1
<1> QED
  BY <1>3, <1>4, <1>5 DEF Books, HoldsCovered

LEMMA ApproveBooks ==
  ASSUME TypeInv, Books, NEW a, NEW c \in Counts, Approve(a, c)
  PROVE  Books'
<1>1. WarehouseOK
  BY DEF TypeInv
<1>2. /\ Write(Add(Moved(c)), {p \in Products : Moved(c)[p] # 0})
      /\ Record(Moved(c))
      /\ UNCHANGED <<holds, sold, removed>>
      /\ Moved(c) \in [Products -> Int]
  BY ApproveFacts
<1>3. /\ Add(Moved(c)) \in [Products -> Int]
      /\ \A p \in Products : Add(Moved(c))[p] = stock[p] + Moved(c)[p]
  BY <1>1, <1>2, Adding
<1>4. LedgerExplains' /\ \A p \in Products : stock'[p] = Add(Moved(c))[p]
  BY <1>1, <1>2, <1>3, Recorded DEF Books
<1>5. ASSUME NEW p \in Products \ removed PROVE holds'[p] <= stock'[p]
  <2>1. /\ holds[p] \in Nat /\ holds[p] <= stock[p] /\ holds'[p] = holds[p]
        /\ stock'[p] = Add(Moved(c))[p] /\ stock[p] \in Int
    BY <1>1, <1>2, <1>4 DEF WarehouseOK, Removed, Books, HoldsCovered
  <2>2. CASE p \in Items(c)
    <3>1. /\ count[c].items[p].counted \in Nat
          /\ Add(Moved(c))[p] = count[c].items[p].counted
      BY <2>2, ApproveFacts
    <3>2. ~(count[c].items[p].counted < holds[p])
      BY <2>2 DEF Approve, Approvable, Short
    <3> QED
      BY <2>1, <3>1, <3>2
  <2>3. CASE p \notin Items(c)
    <3>1. Add(Moved(c))[p] = stock[p]
      BY <2>3, ApproveFacts
    <3> QED
      BY <2>1, <3>1
  <2> QED
    BY <2>2, <2>3
<1> QED
  BY <1>2, <1>4, <1>5 DEF Books, HoldsCovered

LEMMA WarehouseBooks ==
  ASSUME WarehouseOK, Books, NEW p \in Products, NEW n \in Quantities,
         WarehouseWork(p, n)
  PROVE  Books'
<1>1. n \in Nat
  BY Constants
<1>2. CASE Hold(p, n)
  <2>1. \A q \in Products \ removed : holds'[q] <= stock'[q]
    BY <1>1, <1>2 DEF Hold, WarehouseOK, Removed, Books, HoldsCovered
  <2> QED
    BY <1>2, <2>1 DEF Hold, Books, LedgerExplains, HoldsCovered
<1>3. CASE Release(p, n)
  <2>1. \A q \in Products \ removed : holds'[q] <= stock'[q]
    BY <1>1, <1>3 DEF Release, WarehouseOK, Removed, Books, HoldsCovered
  <2> QED
    BY <1>3, <2>1 DEF Release, Books, LedgerExplains, HoldsCovered
<1>4. CASE Remove(p)
  BY <1>4 DEF Remove, Write, Books, LedgerExplains, HoldsCovered, WarehouseOK
<1> QED
  BY <1>2, <1>3, <1>4, SellBooks, RestockBooks, AdjustBooks DEF WarehouseWork

LEMMA BooksStep == TypeInv /\ Books /\ [Next]_vars => Books'
<1> SUFFICES ASSUME TypeInv, Books, [Next]_vars PROVE Books'
  OBVIOUS
<1>0. WarehouseOK
  BY DEF TypeInv
<1>1. UNCHANGED warehouse => Books'
  BY DEF warehouse, Books, LedgerExplains, HoldsCovered
<1>2. UNCHANGED <<warehouse, count>> \/ UNCHANGED <<warehouse, procurement>>
        => UNCHANGED warehouse
  OBVIOUS
<1>3. (\E a \in Admins, d \in Documents : Load(a, d)) \/ UNCHANGED vars
        => UNCHANGED warehouse
  BY DEF Load, vars
<1> QED
  BY <1>0, <1>1, <1>2, <1>3, StepCases, WarehouseBooks, ReceiveBooks, ApproveBooks

\* The movements of a product that was never removed add up to its stock and
\* the last one ends with it, whatever writers interleave.
THEOREM LedgerAlwaysExplains == Spec => []LedgerExplains
<1>1. Init => TypeInv /\ Books
  BY TypeInit, BooksInit
<1>2. TypeInv /\ Books /\ [Next]_vars => (TypeInv /\ Books)'
  BY TypeStep, BooksStep
<1>3. Books => LedgerExplains
  BY DEF Books
<1> QED
  BY <1>1, <1>2, <1>3, PTL DEF Spec

\* No adjustment, receipt or count takes the stock below what checkouts hold.
THEOREM HoldsAlwaysCovered == Spec => []HoldsCovered
<1>1. Init => TypeInv /\ Books
  BY TypeInit, BooksInit
<1>2. TypeInv /\ Books /\ [Next]_vars => (TypeInv /\ Books)'
  BY TypeStep, BooksStep
<1>3. Books => HoldsCovered
  BY DEF Books
<1> QED
  BY <1>1, <1>2, <1>3, PTL DEF Spec

-----------------------------------------------------------------------------
(* Counts and pages *)

\* A count is approved only by Approve, whose lines have not moved.
LEMMA ApprovedFresh ==
  ASSUME TypeInv, [Next]_vars, NEW c \in Counts, Approved(c), NEW p \in Items(c)
  PROVE  count[c].items[p].since = changes[p]
<1>1. c \in Counts /\ count'[c] # count[c] /\ count'[c].status = "APPROVED"
  BY DEF Approved
<1>2. ASSUME NEW a, NEW d \in Counts, CountWork(a, d) PROVE FALSE
  <2>1. /\ \A e \in Counts \ {d} : count'[e] = count[e]
        /\ count'[d].status \in Working
    BY <1>2, CountWorkStep, CountStepType
  <2> QED
    BY <1>1, <2>1 DEF Working
<1>3. ASSUME NEW d \in Counts, NEW P \in SUBSET Products, CreateCount(d, P)
      PROVE  FALSE
  <2>1. /\ \A e \in Counts \ {d} : count'[e] = count[e]
        /\ count'[d].status \in Working
    BY <1>3, CreateCountStep, CountStepType
  <2> QED
    BY <1>1, <2>1 DEF Working
<1>4. ~UNCHANGED count
  BY <1>1
<1>5. PICK a \in Admins \cup {Prompt}, d \in Counts : Approve(a, d)
  <2>1. /\ UNCHANGED <<procurement, count, page>> => UNCHANGED count
        /\ UNCHANGED <<warehouse, count>> => UNCHANGED count
        /\ UNCHANGED vars => UNCHANGED count
        /\ \A b \in Admins, e \in Documents : Load(b, e) => UNCHANGED count
    BY DEF vars, Load
  <2> QED
    BY <1>2, <1>3, <1>4, <2>1, StepCases
<1>6. d = c
  <2>1. \A e \in Counts \ {d} : count'[e] = count[e]
    BY <1>5, ApproveFacts, CountStepType
  <2> QED
    BY <1>1, <2>1
<1>7. ~Stale(p, count[c].items[p])
  BY <1>5, <1>6 DEF Approve, Approvable
<1>8. count[c].items[p] \in Line /\ p \in Products
  BY ItemsType DEF TypeInv
<1>9. revision[p] = changes[p]
  BY <1>8 DEF TypeInv, WarehouseOK
<1> QED
  BY <1>7, <1>8, <1>9 DEF Stale, Line

\* An approved count overwrites no change made since its lines were counted,
\* whoever sold, received, adjusted or returned in the meantime.
THEOREM CountsStayFresh == Spec => CountFresh
<1>1. Init => TypeInv
  BY TypeInit
<1>2. TypeInv /\ [Next]_vars => TypeInv'
  BY TypeStep
<1>3. TypeInv /\ [Next]_vars =>
        [\A c \in Counts : Approved(c) =>
           \A p \in Items(c) : count[c].items[p].since = changes[p]]_vars
  BY ApprovedFresh
<1> QED
  BY <1>1, <1>2, <1>3, PTL DEF Spec, CountFresh

\* A page shows no later version than its document's, and the same version only
\* while it is fresh.
PagesTrue ==
  \A a \in Admins : page[a] # NoPage =>
    /\ page[a].version <= Document(page[a].of).version
    /\ page[a].version = Document(page[a].of).version => page[a].fresh

\* A document that changes gets the next version.
LEMMA DocumentsStep ==
  ASSUME TypeInv, [Next]_vars, NEW d \in Documents
  PROVE  \/ Changed(d) = Document(d)
         \/ Changed(d).version = Document(d).version + 1
<1>1. ASSUME NEW o \in Purchases, DocumentStep(o), UNCHANGED count
      PROVE  \/ Changed(d) = Document(d)
             \/ Changed(d).version = Document(d).version + 1
  BY <1>1, PurchaseStepType DEF Changed, Document, Documents
<1>2. ASSUME NEW c \in Counts, NEW states, CountStep(c, states), UNCHANGED purchase
      PROVE  \/ Changed(d) = Document(d)
             \/ Changed(d).version = Document(d).version + 1
  BY <1>2, CountStepType DEF Changed, Document, Documents
<1>3. UNCHANGED purchase /\ UNCHANGED count => Changed(d) = Document(d)
  BY DEF Changed, Document
<1>4. ASSUME NEW o \in Purchases, NEW key \in Keys,
             NEW expected \in Lines, NEW accepted \in Lines,
             Receive(o, key, expected, accepted), UNCHANGED count
      PROVE  \/ Changed(d) = Document(d)
             \/ Changed(d).version = Document(d).version + 1
  BY <1>4, ReceiveSteps DEF Changed, Document, Documents
<1>5. /\ UNCHANGED <<procurement, count, page>> =>
           UNCHANGED purchase /\ UNCHANGED count
      /\ UNCHANGED <<warehouse, count>> => UNCHANGED count
      /\ UNCHANGED <<warehouse, procurement>> => UNCHANGED purchase
      /\ UNCHANGED procurement => UNCHANGED purchase
      /\ ArchiveSupplier => UNCHANGED purchase
      /\ \A a, e : Load(a, e) => UNCHANGED purchase /\ UNCHANGED count
      /\ UNCHANGED vars => UNCHANGED purchase /\ UNCHANGED count
  BY DEF procurement, ArchiveSupplier, Load, vars
<1>6. ASSUME NEW o \in Purchases, NEW lines \in Lines, CreatePurchase(o, lines)
      PROVE  DocumentStep(o)
  BY <1>6, DocumentSteps
<1>7. ASSUME NEW c \in Counts, NEW P \in SUBSET Products, CreateCount(c, P)
      PROVE  CountStep(c, Working)
  BY <1>7, CreateCountStep
<1>8. ASSUME NEW a, NEW c \in Counts, Approve(a, c)
      PROVE  CountStep(c, {"APPROVED"})
  BY <1>8, ApproveFacts
<1> QED
  BY <1>1, <1>2, <1>3, <1>4, <1>5, <1>6, <1>7, <1>8, StepCases,
     PurchaseWorkStep, CountWorkStep

\* The steps seen from the pages: an administrator whose request was served
\* showed the present version of the one document that it changed.
LEMMA PageCases ==
  ASSUME TypeInv, [Next]_vars
  PROVE  \/ UNCHANGED page /\ \A d \in Documents : Changed(d) = Document(d)
         \/ \E a \in Admins, d \in Documents :
              Load(a, d) /\ \A e \in Documents : Changed(e) = Document(e)
         \/ Turn({})
         \/ \E a \in Admins \cup {Prompt}, d \in Documents :
              /\ Turn({a})
              /\ Current(a, d, Document(d).version)
<1>1. UNCHANGED purchase /\ UNCHANGED count =>
        \A d \in Documents : Changed(d) = Document(d)
  BY DEF Changed, Document
<1>2. /\ UNCHANGED <<procurement, count, page>> =>
           UNCHANGED purchase /\ UNCHANGED count /\ UNCHANGED page
      /\ \A a, d : Load(a, d) => UNCHANGED purchase /\ UNCHANGED count
      /\ UNCHANGED vars => UNCHANGED purchase /\ UNCHANGED count /\ UNCHANGED page
  BY DEF procurement, Load, vars
<1>3. ASSUME NEW a \in Admins \cup {Prompt}, NEW o \in Purchases, PurchaseWork(a, o)
      PROVE  o \in Documents /\ Current(a, o, Document(o).version)
  BY <1>3 DEF PurchaseWork, EditDraft, Confirm, CancelPurchase, ClosePurchase,
              Documents, Document
<1>4. ASSUME NEW c \in Counts
      PROVE  c \in Documents /\ Document(c) = count[c]
  BY Constants DEF Documents, Document
<1>5. ASSUME NEW a \in Admins \cup {Prompt}, NEW c \in Counts,
             CountWork(a, c) \/ Approve(a, c)
      PROVE  c \in Documents /\ Current(a, c, Document(c).version)
  BY <1>4, <1>5 DEF CountWork, Observe, Reopen, Submit, CancelCount, Approve
<1> QED
  BY <1>1, <1>2, <1>3, <1>5, StepCases

\* What Turn makes of a page that shows a document.
LEMMA Turned ==
  ASSUME PagesOK, NEW served, Turn(served), NEW a \in Admins
  PROVE  /\ page[a] = NoPage => page'[a] = NoPage
         /\ page[a] # NoPage =>
              /\ page[a].of \in Documents /\ page'[a].of = page[a].of
              /\ a \in served =>
                   /\ page'[a].version = Changed(page[a].of).version
                   /\ page'[a].fresh
              /\ a \notin served =>
                   /\ page'[a].version = page[a].version
                   /\ page'[a].fresh <=> page[a].fresh
                                         /\ Document(page[a].of) = Changed(page[a].of)
<1>1. page[a] = NoPage => page'[a] = NoPage
  BY DEF Turn
<1>2. ASSUME page[a] # NoPage
      PROVE  page[a] \in PageType /\ page[a].of \in Documents
  BY <1>2 DEF PagesOK, PageType
<1>3. ASSUME page[a] # NoPage, a \in served
      PROVE  page'[a] = [of |-> page[a].of,
                         version |-> Changed(page[a].of).version, fresh |-> TRUE]
  BY <1>3 DEF Turn
<1>4. ASSUME page[a] # NoPage, a \notin served
      PROVE  page'[a] = [page[a] EXCEPT !.fresh =
                           page[a].fresh /\ Document(page[a].of) = Changed(page[a].of)]
  BY <1>4 DEF Turn
<1>5. ASSUME page[a] # NoPage, a \notin served
      PROVE  /\ page'[a].of = page[a].of /\ page'[a].version = page[a].version
             /\ page'[a].fresh <=> page[a].fresh
                                   /\ Document(page[a].of) = Changed(page[a].of)
  BY <1>2, <1>4, <1>5 DEF PageType
<1> QED
  BY <1>1, <1>2, <1>3, <1>5

LEMMA PagesInit == Init => PagesTrue
BY DEF Init, ProcurementInit, PagesTrue

\* The invariant of a page whose document's version may have grown.
LEMMA TurnKeeps ==
  ASSUME TypeInv, PagesTrue, [Next]_vars, NEW served, Turn(served),
         NEW a \in Admins, page'[a] # NoPage
  PROVE  /\ page'[a].version <= Changed(page'[a].of).version
         /\ page'[a].version = Changed(page'[a].of).version => page'[a].fresh
<1>1. PagesOK /\ page[a] # NoPage
  BY Turned DEF TypeInv
<1> DEFINE d == page[a].of
<1>2. d \in Documents /\ page'[a].of = d
  BY <1>1, Turned
<1>3. /\ page[a].version \in Nat /\ Document(d).version \in Nat
      /\ Changed(d).version \in Nat
      /\ page[a].version <= Document(d).version
      /\ page[a].version = Document(d).version => page[a].fresh
  <2>1. page[a] \in PageType
    BY <1>1 DEF PagesOK
  <2>2. Document(d).version \in Nat
    BY <1>2, DocumentType, Constants DEF TypeInv
  <2>3. TypeInv'
    BY TypeStep
  <2>4. Changed(d).version \in Nat
    BY <1>2, <2>3, ChangedType, Constants DEF TypeInv
  <2> QED
    BY <1>1, <2>1, <2>2, <2>4 DEF PageType, PagesTrue
<1>4. \/ Changed(d) = Document(d)
      \/ Changed(d).version = Document(d).version + 1
  BY <1>2, DocumentsStep
<1>5. CASE a \in served
  BY <1>1, <1>2, <1>3, <1>5, Turned
<1>6. CASE a \notin served
  <2>1. /\ page'[a].version = page[a].version
        /\ page'[a].fresh <=> page[a].fresh /\ Document(d) = Changed(d)
    BY <1>1, <1>6, Turned
  <2> HIDE DEF d
  <2>2. CASE Changed(d) = Document(d)
    BY <1>2, <1>3, <2>1, <2>2
  <2>3. CASE Changed(d).version = Document(d).version + 1
    BY <1>2, <1>3, <2>1, <2>3
  <2> QED
    BY <1>4, <2>2, <2>3
<1> QED
  BY <1>5, <1>6

LEMMA PagesStep == TypeInv /\ PagesTrue /\ [Next]_vars => PagesTrue'
<1> SUFFICES ASSUME TypeInv, PagesTrue, [Next]_vars,
                    NEW a \in Admins, page'[a] # NoPage
             PROVE  /\ page'[a].version <= Changed(page'[a].of).version
                    /\ page'[a].version = Changed(page'[a].of).version
                         => page'[a].fresh
  BY DEF PagesTrue, Document, Changed
<1>1. ASSUME UNCHANGED page, \A d \in Documents : Changed(d) = Document(d)
      PROVE  /\ page'[a].version <= Changed(page'[a].of).version
             /\ page'[a].version = Changed(page'[a].of).version => page'[a].fresh
  <2>1. page[a] # NoPage /\ page[a].of \in Documents
    BY <1>1 DEF TypeInv, PagesOK, PageType
  <2> QED
    BY <1>1, <2>1 DEF PagesTrue
<1>2. ASSUME NEW b \in Admins, NEW d \in Documents, Load(b, d),
             \A e \in Documents : Changed(e) = Document(e)
      PROVE  /\ page'[a].version <= Changed(page'[a].of).version
             /\ page'[a].version = Changed(page'[a].of).version => page'[a].fresh
  <2>1. Document(d).version \in Nat
    BY DocumentType, Constants DEF TypeInv
  <2>2. CASE a = b
    <3>1. page'[a] = [of |-> d, version |-> Document(d).version, fresh |-> TRUE]
      BY <1>2, <2>2 DEF Load, TypeInv, PagesOK
    <3>2. page'[a].of = d /\ page'[a].version = Document(d).version /\ page'[a].fresh
      BY <3>1
    <3> QED
      BY <1>2, <2>1, <3>2
  <2>3. CASE a # b
    <3>1. page'[a] = page[a]
      BY <1>2, <2>3 DEF Load, TypeInv, PagesOK
    <3>2. page[a] # NoPage /\ page[a].of \in Documents
      BY <3>1 DEF TypeInv, PagesOK, PageType
    <3> QED
      BY <1>2, <3>1, <3>2 DEF PagesTrue
  <2> QED
    BY <2>2, <2>3
<1> QED
  BY <1>1, <1>2, PageCases, TurnKeeps

\* A request that changes a document comes from a page that is fresh.
LEMMA Decided ==
  ASSUME TypeInv, PagesTrue, [Next]_vars, NEW a \in Admins, NEW d \in Documents,
         Changed(d) # Document(d), page'[a].of = d, page'[a].fresh
  PROVE  page[a].of = d /\ page[a].fresh
<1>1. page'[a] # NoPage
  BY Constants DEF NoPage
<1>2. PICK served : /\ Turn(served)
                    /\ a \in served => \E e \in Documents :
                                         Current(a, e, Document(e).version)
  <2>1. CASE Turn({})
    <3>1. a \notin {}
      OBVIOUS
    <3> QED
      BY <2>1, <3>1
  <2>2. ASSUME NEW b \in Admins \cup {Prompt}, NEW e \in Documents,
               Turn({b}), Current(b, e, Document(e).version)
        PROVE  \E s : /\ Turn(s)
                      /\ a \in s => \E x \in Documents :
                                      Current(a, x, Document(x).version)
    <3>1. a \in {b} => Current(a, e, Document(e).version)
      BY <2>2
    <3> QED
      BY <2>2, <3>1
  <2>3. ~ \A e \in Documents : Changed(e) = Document(e)
    OBVIOUS
  <2>4. \/ Turn({})
        \/ \E b \in Admins \cup {Prompt}, e \in Documents :
              /\ Turn({b})
              /\ Current(b, e, Document(e).version)
    BY <2>3, PageCases
  <2> QED
    BY <2>1, <2>2, <2>4
<1>3. PagesOK /\ page[a] # NoPage
  BY <1>1, <1>2, Turned DEF TypeInv
<1>4. page[a].of = d
  BY <1>2, <1>3, Turned
<1>5. CASE a \in served
  <2>1. PICK e \in Documents : Current(a, e, Document(e).version)
    BY <1>2, <1>5
  <2>2. page[a].of = e /\ page[a].version = Document(e).version
    BY <2>1, Constants DEF Current
  <2> QED
    BY <1>3, <1>4, <2>2 DEF PagesTrue
<1>6. CASE a \notin served
  BY <1>2, <1>3, <1>4, <1>6, Turned
<1> QED
  BY <1>4, <1>5, <1>6

\* Whoever changes a document changes it as they saw it: a page that was
\* overtaken by another administrator or by a receipt is refused.
THEOREM DecisionsSeen == Spec => DecidedAsSeen
<1>1. Init => TypeInv /\ PagesTrue
  BY TypeInit, PagesInit
<1>2. TypeInv /\ PagesTrue /\ [Next]_vars => (TypeInv /\ PagesTrue)'
  BY TypeStep, PagesStep
<1>3. TypeInv /\ PagesTrue /\ [Next]_vars =>
        [\A a \in Admins, d \in Documents :
           /\ Changed(d) # Document(d)
           /\ page[a]'.of = d /\ page[a]'.fresh
           => page[a].of = d /\ page[a].fresh]_vars
  BY Decided
<1> QED
  BY <1>1, <1>2, <1>3, PTL DEF Spec, DecidedAsSeen

-----------------------------------------------------------------------------
(* Receipts *)

\* Finitely many receipts, and each order has accepted what its own brought.
Accounted ==
  /\ IsFiniteSet(receipt)
  /\ \A o \in Purchases, p \in Products :
       purchase[o].accepted[p] = Brought(Receipts(o), p)

LEMMA AccountedInit == Init => Accounted
<1> SUFFICES ASSUME Init PROVE Accounted
  OBVIOUS
<1>1. receipt = {} /\ purchase = [o \in Purchases |-> NoPurchase]
  BY DEF Init, ProcurementInit
<1>2. ASSUME NEW o \in Purchases, NEW p \in Products
      PROVE  purchase[o].accepted[p] = Brought(Receipts(o), p)
  <2>1. Receipts(o) = {}
    BY <1>1 DEF Receipts
  <2>2. Brought({}, p) = 0
    BY SumEmpty DEF Brought
  <2>3. purchase[o].accepted[p] = 0
    BY <1>1, Zero DEF NoPurchase
  <2> QED
    BY <2>1, <2>2, <2>3
<1> QED
  BY <1>1, <1>2, FS_EmptySet DEF Accounted

\* One receipt more brings its own units.
LEMMA BroughtMore ==
  ASSUME NEW R \in SUBSET ReceiptType, IsFiniteSet(R), NEW r \in ReceiptType,
         r \notin R, NEW p \in Products
  PROVE  Brought(R \cup {r}, p) = Brought(R, p) + r.accepted[p]
<1> DEFINE f == [x \in R |-> x.accepted[p]]
           g == [x \in R \cup {r} |-> x.accepted[p]]
<1>1. \A x \in R \cup {r} : x.accepted[p] \in Int
  BY LinesType DEF ReceiptType
<1>2. (\A x \in R : f[x] \in Int /\ g[x] = f[x]) /\ g[r] = r.accepted[p]
  BY <1>1
<1>3. (\A x \in R : g[x] \in Int) /\ g[r] \in Int
  BY <1>1
<1> HIDE DEF f, g
<1>4. SumOf(g, R) = SumOf(f, R)
  BY <1>2, SumSame
<1>5. SumOf(g, R \cup {r}) = SumOf(g, R) + g[r]
  BY <1>3, SumAdd
<1> QED
  BY <1>2, <1>4, <1>5 DEF Brought, f, g

LEMMA AccountedStep == TypeInv /\ Accounted /\ [Next]_vars => Accounted'
<1> SUFFICES ASSUME TypeInv, Accounted, [Next]_vars PROVE Accounted'
  OBVIOUS
<1>1. ASSUME UNCHANGED <<purchase, receipt>>
      PROVE  Accounted'
  BY <1>1 DEF Accounted, Receipts
<1>2. ASSUME NEW o \in Purchases, DocumentStep(o)
      PROVE  Accounted'
  <2>1. receipt' = receipt
    BY <1>2 DEF DocumentStep
  <2>2. \A q \in Purchases : purchase'[q].accepted = purchase[q].accepted
    BY <1>2, PurchaseStepType
  <2> QED
    BY <2>1, <2>2 DEF Accounted, Receipts
<1>3. ASSUME NEW o \in Purchases, NEW key \in Keys,
             NEW expected \in Lines, NEW accepted \in Lines,
             Receive(o, key, expected, accepted)
      PROVE  Accounted'
  <2> DEFINE r == [order |-> o, key |-> key, accepted |-> accepted]
  <2>1. receipt' = receipt \cup {r} /\ ~Replayed(o, key)
    BY <1>3 DEF Receive
  <2>2. r \in ReceiptType /\ r \notin receipt
    BY <2>1 DEF ReceiptType, Replayed
  <2>3. IsFiniteSet(receipt')
    BY <2>1, FS_AddElement DEF Accounted
  <2>4. /\ \A q \in Purchases \ {o} : purchase'[q] = purchase[q]
        /\ purchase'[o].accepted =
             [p \in Products |-> purchase[o].accepted[p] + accepted[p]]
    BY <1>3, ReceiveSteps
  <2>5. ASSUME NEW q \in Purchases, NEW p \in Products
        PROVE  purchase'[q].accepted[p] = Brought(Receipts(q)', p)
    <3> DEFINE R == Receipts(q)
    <3>1. R \in SUBSET ReceiptType /\ IsFiniteSet(R)
      BY FS_Subset DEF TypeInv, ProcurementOK, Accounted, Receipts
    <3>2. purchase[q].accepted[p] = Brought(R, p)
      BY DEF Accounted
    <3>3. CASE q = o
      <4>1. Receipts(q)' = R \cup {r}
        BY <2>1, <3>3 DEF Receipts
      <4>2. Brought(R \cup {r}, p) = Brought(R, p) + r.accepted[p]
        <5>1. r \notin R
          BY <2>2 DEF Receipts
        <5> HIDE DEF R, r
        <5> QED
          BY <2>2, <3>1, <5>1, BroughtMore
      <4> QED
        BY <2>4, <3>2, <3>3, <4>1, <4>2
    <3>4. CASE q # o
      <4>1. Receipts(q)' = R
        BY <2>1, <3>4 DEF Receipts
      <4> QED
        BY <2>4, <3>2, <3>4, <4>1
    <3> QED
      BY <3>3, <3>4
  <2> QED
    BY <2>3, <2>5 DEF Accounted
<1>4. UNCHANGED procurement => UNCHANGED <<purchase, receipt>>
  BY DEF procurement
<1>5. ASSUME NEW o \in Purchases, NEW lines \in Lines, CreatePurchase(o, lines)
      PROVE  DocumentStep(o)
  BY <1>5, DocumentSteps
<1> QED
  BY <1>1, <1>2, <1>3, <1>4, <1>5, StepCases, PurchaseWorkStep
     DEF Load, ArchiveSupplier, vars

\* Goods enter once: whatever the order of receipts, repeated requests, edits
\* and closures, what an order has accepted is what its receipts brought, never
\* more than it ordered, and its status says how far it got.
THEOREM ObligationAlwaysKept == Spec => []ObligationKept
<1>1. Init => TypeInv /\ Accounted
  BY TypeInit, AccountedInit
<1>2. TypeInv /\ Accounted /\ [Next]_vars => (TypeInv /\ Accounted)'
  BY TypeStep, AccountedStep
<1>3. TypeInv /\ Accounted => ObligationKept
  BY DEF TypeInv, Accounted, Owed, ObligationKept
<1> QED
  BY <1>1, <1>2, <1>3, PTL DEF Spec
=============================================================================
