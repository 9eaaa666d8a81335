SPECIFICATION Spec
CONSTANTS
  u1 = u1
  u2 = u2
  f1 = f1
  f2 = f2
  f3 = f3
  v1 = v1
  v2 = v2
  reward = reward
  sale = sale
  Customers <- TwoCustomers
  Guest = Guest
  Flows <- TwoFlows
  Vouchers <- TwoVouchers
  Promos <- Both
  Cost <- MCCost
  Limit <- MCLimit
  Opening = 2
  Points = 1
  Earn = 1
  MaxPoints = 3
SYMMETRY Symmetry
INVARIANTS PointsConserved VoucherBacks RewardLimitKept
CHECK_DEADLOCK FALSE
