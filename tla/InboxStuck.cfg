\* One webhook of a paid attempt whose customer asked to cancel, and a
\* handler that dies.
SPECIFICATION FairSpec

CONSTANTS
  e1 = e1
  h1 = h1
  h2 = h2
  Events <- OneEvent
  Handlers <- TwoHandlers
  MaxSent = 1
  MaxTrouble = 1
PROPERTIES
  RecoveredAcknowledged
CHECK_DEADLOCK FALSE
