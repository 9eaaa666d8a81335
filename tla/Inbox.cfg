\* An event key used once or twice, two handlers, and twice a handler that
\* dies or fails to finalize, or a webhook that is repeated without need.
SPECIFICATION FairSpec

CONSTANTS
  e1 = e1
  h1 = h1
  h2 = h2
  Events <- OneEvent
  Handlers <- TwoHandlers
  MaxSent = 2
  MaxTrouble = 2
INVARIANTS
  AcknowledgedSettled
  OneOwner
  ConcludedTruly
PROPERTIES
  AnsweredUnlessCancelled
\* PayOS may have emitted nothing, or everything is acknowledged.
CHECK_DEADLOCK FALSE
