\* Two checkouts and a cash purchase of two units each, four on the shelf.
SPECIFICATION Spec
CONSTANTS
  c1 = c1
  c2 = c2
  p1 = p1
  h1 = h1
  h2 = h2
  Products <- OneProduct
  InitialStock <- FourUnits
  Carts <- TwoOfEach
  Checkouts <- TwoCheckouts
  Expected = 1
  Amounts = {1}
  Identities = {TRUE}
  OrderIds = {1, 2, 3}
  Refunds = {}
  MaxCash = 1
  MaxCancels = 0
  MaxLapses = 2
  MaxPaid = 1
  MaxEvidence = 1
  Handlers <- TwoHandlers
  MaxCrashes = 1
SYMMETRY FullSymmetry
INVARIANTS
  TypeOK
  OnTimeHoldsBacked
  StockConserved
  OneOrderPerCheckout
\* Every checkout may be sold out or concluded.
CHECK_DEADLOCK FALSE
