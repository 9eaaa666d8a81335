\* A checkout paid after its reservation lapsed is sold from a stale snapshot.
SPECIFICATION Spec
CONSTANTS
  c1 = c1
  c2 = c2
  p1 = p1
  h1 = h1
  h2 = h2
  Products <- OneProduct
  InitialStock <- TwoUnits
  Carts <- OneOrTwo
  Checkouts <- TwoCheckouts
  Expected = 1
  Amounts = {1}
  Identities = {TRUE}
  OrderIds = {1, 2, 3}
  Refunds = {}
  MaxCash = 1
  MaxCancels = 0
  MaxLapses = 2
  MaxPaid = 1
  MaxEvidence = 1
  Handlers <- TwoHandlers
  MaxCrashes = 0
INVARIANT
  HoldsBacked
CHECK_DEADLOCK FALSE
