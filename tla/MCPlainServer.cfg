SPECIFICATION LiveSpec
CONSTANTS
  w1 = w1
  w2 = w2
  Workers = {w1, w2}
  NULL = NULL
  MaxClient = 2
  MaxSend = 2
  RcvLen = 2
  SndLen = 1
  MaxCrash = 2
  MaxNetCrash = 1
  CrashInside = TRUE
INVARIANTS Accounted OwnInOneLife
PROPERTY ServerGoesOn
CHECK_DEADLOCK FALSE
