SPECIFICATION Spec
CONSTANTS
  w1 = w1
  w2 = w2
  Workers = {w1, w2}
  NULL = NULL
  MaxClient = 2
  MaxSend = 2
  RcvLen = 2
  SndLen = 2
  MaxCrash = 0
  MaxNetCrash = 0
  CrashInside = FALSE
PROPERTY NegativeClosesAll
CHECK_DEADLOCK FALSE
