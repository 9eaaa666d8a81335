\* One checkout, handlers that interleave and one that dies: what must eventually
\* happen.  MaxEvidence is never reached here.
SPECIFICATION FairSpec
CONSTANTS
  c1 = c1
  c2 = c2
  p1 = p1
  h1 = h1
  h2 = h2
  Products <- OneProduct
  InitialStock <- LastUnit
  Carts <- OneOfEach
  Checkouts <- OneCheckout
  Expected = 1
  Amounts = {1}
  Refunds = {}
  Identities = {TRUE}
  OrderIds = {1}
  MaxCash = 0
  MaxCancels = 1
  MaxLapses = 1
  MaxPaid = 1
  MaxEvidence = 20
  Handlers <- TwoHandlers
  MaxCrashes = 1
PROPERTIES
  PaidSettles
  CancelFreesHold
CHECK_DEADLOCK FALSE
