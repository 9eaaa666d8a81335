\* Later evidence takes a created order's CREATED state away.
SPECIFICATION Spec
SYMMETRY HandlerSymmetry
CONSTANTS
  c1 = c1
  c2 = c2
  p1 = p1
  h1 = h1
  h2 = h2
  Products <- OneProduct
  InitialStock <- LastUnit
  Carts <- OneOfEach
  Checkouts <- OneCheckout
  Expected = 2
  Amounts = {1, 2}
  Identities = {TRUE, FALSE}
  OrderIds = {1}
  Refunds = {1, 2}
  MaxCash = 0
  MaxCancels = 1
  MaxLapses = 1
  MaxPaid = 3
  MaxEvidence = 2
  Handlers <- TwoHandlers
  MaxCrashes = 0
INVARIANT
  ConfirmedOrderStays
CHECK_DEADLOCK FALSE
