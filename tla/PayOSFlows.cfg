SPECIFICATION FairSpec
CONSTANTS
  Keys = {initial, cancel}
  Workers = {w1, w2}
  MaxAttempts = 2
  MaxTrouble = 0
  Checks = {initial}
  Initial = initial
  Cancels = {cancel}
  Hooks = {}
  Partial = FALSE
  Again = TRUE
PROPERTIES
  CancelReleases
  PaidIsSeen
\* The bounds use up what may happen, and the system may be done.
CHECK_DEADLOCK FALSE
