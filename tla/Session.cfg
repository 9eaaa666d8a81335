\* One tab with two keys and two requests for the last unit, two mishaps.
SPECIFICATION Spec
CONSTANTS
  k1 = k1
  k2 = k2
  r1 = r1
  r2 = r2
  Nobody = Nobody
  NoKey = NoKey
  Keys <- TwoKeys
  Requests <- TwoRequests
  Units = 1
  MaxTrouble = 2
SYMMETRY Symmetry
INVARIANTS
  OneHoldPerKey
  TokenOpensOrder
  ShownLinkSaved
\* Every request may be used up and every checkout over.
CHECK_DEADLOCK FALSE
