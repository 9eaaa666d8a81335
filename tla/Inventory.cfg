\* One product with an order of up to two units, two receipts, a count, and a
\* page that may be out of date.
SPECIFICATION Spec
CONSTANTS
  p1 = p1
  o1 = o1
  c1 = c1
  a1 = a1
  k1 = k1
  k2 = k2
  Products <- OneProduct
  Opening <- Unit
  MaxStock = 4
  MaxUnits = 2
  MaxChanges = 2
  Purchases = {o1}
  Counts = {c1}
  Admins = {a1}
  Keys <- TwoKeys
  MaxVersion = 4
SYMMETRY Symmetry
INVARIANTS
  LedgerExplains
  HoldsCovered
  ObligationKept
PROPERTIES
  CountFresh
  DecidedAsSeen
\* Versions and changes of stock are bounded.
CHECK_DEADLOCK FALSE
