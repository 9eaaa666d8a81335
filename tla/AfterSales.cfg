\* One PayOS order: claims on its units and the refunds of two administrators.
SPECIFICATION Spec
CONSTANTS
  cod = cod
  online = online
  e1 = e1
  e2 = e2
  k1 = k1
  k2 = k2
  t1 = t1
  t2 = t2
  a1 = a1
  a2 = a2
  Orders <- OnlineOrder
  Cash = {}
  Amount <- AmountOf
  Staff <- OneStaff
  Slots <- OneWindow
  MaxAttempts = 1
  Remits = {}
  Transfers = {}
  Asks <- OneOrBoth
  Claimed <- OnlineOrder
  MaxRequests = 2
  Keys <- TwoKeys
  References <- TwoReferences
  Admins <- TwoAdmins
  Bills <- SomeBills
SYMMETRY Symmetry
INVARIANTS
  RefundedOnce
  RefundsAccounted
  AllocationFair
\* Orders end, and their attempts are bounded.
CHECK_DEADLOCK FALSE
