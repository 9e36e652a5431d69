SPECIFICATION Spec
CONSTANTS
  Nodes = {n1, n2, n3}
  Keys = {k1}
  Pids = {p1, p2}
  BufferLen = 4
  Barrier = Barrier
  Plain = Plain
  NULL = NULL
  Lens = {1}
  WorkerNum = 2
  MaxCrash = 1
  MaxExit = 0
  CrashInside = FALSE
PROPERTIES
  EveryPacketServed
  CrashedIsCleaned
