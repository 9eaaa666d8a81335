SPECIFICATION Spec
CONSTANTS
  Keys = {initial, cancel, hook1}
  Workers = {w1}
  MaxAttempts = 2
  MaxTrouble = 1
  Checks = {initial}
  Initial = initial
  Cancels = {cancel}
  Hooks = {hook1}
  Partial = TRUE
  Again = FALSE
INVARIANTS
  FlowsSettle
PROPERTIES
  FreedKnowingly
\* The bounds use up what may happen, and the system may be done.
CHECK_DEADLOCK FALSE
