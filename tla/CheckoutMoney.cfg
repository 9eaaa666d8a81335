\* One checkout: under-, over- and exact payment, evidence that may concern
\* another link or currency, in every order of transfers, webhooks, lookups,
\* cancellation and refunds.
SPECIFICATION Spec
SYMMETRY HandlerSymmetry

CONSTANTS
  c1 = c1
  c2 = c2
  p1 = p1
  h1 = h1
  h2 = h2
  Products <- OneProduct
  InitialStock <- LastUnit
  Carts <- OneOfEach
  Checkouts <- OneCheckout
  Expected = 2
  Amounts = {1, 3}
  Identities = {TRUE, FALSE}
  OrderIds = {1}
  Refunds = {1, 2}
  MaxCash = 0
  MaxCancels = 1
  MaxLapses = 0
  MaxPaid = 3
  MaxEvidence = 2
  Handlers <- TwoHandlers
  MaxCrashes = 0
INVARIANTS
  NoDoubleSettlement
  RefundsCovered
  EvidenceBacked
PROPERTIES
  ReceiptsPersist
  SettlesAccounts
\* Every transfer, observation and refund the bounds allow may have been made.
CHECK_DEADLOCK FALSE
