\* A cash order and a PayOS order share two couriers; no claims are made.
SPECIFICATION Spec
CONSTANTS
  cod = cod
  online = online
  e1 = e1
  e2 = e2
  k1 = k1
  k2 = k2
  t1 = t1
  t2 = t2
  a1 = a1
  a2 = a2
  Orders <- TwoOrders
  Cash <- CodOrder
  Amount <- AmountOf
  Staff <- TwoStaff
  Slots <- TwoWindows
  MaxAttempts = 2
  Remits = {4}
  Transfers <- TwoReferences
  Asks <- OneOrBoth
  Claimed = {}
  MaxRequests = 0
  Keys = {}
  References = {}
  Admins = {}
  Bills <- OneBill
SYMMETRY Symmetry
INVARIANTS
  CourierExpected
  SchedulesApart
  DeliveredSettled
PROPERTY DeliveryProtocol
\* Orders end, and their attempts are bounded.
CHECK_DEADLOCK FALSE
