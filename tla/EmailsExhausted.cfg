SPECIFICATION MailSpec
CONSTANTS
  m1 = m1
  m2 = m2
  w1 = w1
  w2 = w2
  Keys <- OneMessage
  Business <- OneMessage
  Workers <- TwoWorkers
  MaxAttempts = 2
  MaxTrouble = 1
INVARIANT ExhaustedReviewable
CHECK_DEADLOCK FALSE
