SPECIFICATION Spec
CONSTANTS
  w1 = w1
  w2 = w2
  Workers = {w1, w2}
  NULL = NULL
  QueueSize = 1
  MaxBlock = 2
  MaxCrash = 0
  CrashInside = TRUE
PROPERTY FailedClientCloses
CHECK_DEADLOCK FALSE
