SPECIFICATION Spec
CONSTANTS
  w1 = w1
  w2 = w2
  Workers = {w1, w2}
  NULL = NULL
  QueueSize = 2
  MaxBlock = 3
  MaxCrash = 1
  CrashInside = TRUE
INVARIANTS NoLostWakeup PipeNeverFills
PROPERTIES EveryBlockLeaves FinArrives WorkersComeBack
CHECK_DEADLOCK FALSE
