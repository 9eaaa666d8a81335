\* One webhook, repeated once after it was concluded.
SPECIFICATION Spec

CONSTANTS
  e1 = e1
  h1 = h1
  h2 = h2
  Events <- OneEvent
  Handlers <- TwoHandlers
  MaxSent = 1
  MaxTrouble = 1
PROPERTIES
  ConclusionStays
CHECK_DEADLOCK FALSE
