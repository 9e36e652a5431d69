SPECIFICATION LiveSpec
CONSTANTS
  w1 = w1
  w2 = w2
  Workers = {w1, w2}
  NULL = NULL
  MaxClient = 1
  MaxSend = 2
  RcvLen = 2
  SndLen = 2
  MaxCrash = 1
  MaxNetCrash = 0
  CrashInside = TRUE
PROPERTY EveryRequestHandled
CHECK_DEADLOCK FALSE
