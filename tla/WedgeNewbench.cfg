SPECIFICATION FairLockSpec
CONSTANTS
  Nodes = {n1, n2, n3}
  Keys = {k1, k2}
  Pids = {p1, p2}
  BufferLen = 4
  Barrier = Barrier
  Plain = Plain
  NULL = NULL
  Lens = {1}
  WorkerNum = 2
  MaxCrash = 0
  MaxExit = 0
  CrashInside = FALSE
PROPERTIES
  PushesResume
