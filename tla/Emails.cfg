SPECIFICATION FairMailSpec
CONSTANTS
  m1 = m1
  m2 = m2
  w1 = w1
  w2 = w2
  Keys <- TwoMessages
  Business <- OneMessage
  Workers <- TwoWorkers
  MaxAttempts = 2
  MaxTrouble = 2
INVARIANTS SentOnce SucceededAccepted
PROPERTIES ConclusionStays QueueKept EveryTaskConcludes
CHECK_DEADLOCK FALSE
