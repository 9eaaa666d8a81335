SPECIFICATION Spec
CONSTANTS
  Keys = {initial, cancel}
  Workers = {w1}
  MaxAttempts = 2
  MaxTrouble = 0
  Checks = {initial}
  Initial = initial
  Cancels = {cancel}
  Hooks = {}
  Partial = TRUE
  Again = FALSE
INVARIANTS
  UnresolvedSurfaced
\* The bounds use up what may happen, and the system may be done.
CHECK_DEADLOCK FALSE
