SPECIFICATION Spec
CONSTANTS
  Nodes = {n1, n2, n3}
  Keys = {k1, k2}
  Pids = {p1, p2}
  BufferLen = 5
  Barrier = Barrier
  Plain = Plain
  NULL = NULL
  Lens = {1, 2}
  WorkerNum = 2
  MaxCrash = 2
  MaxExit = 1
  CrashInside = FALSE
SYMMETRY Symmetric
INVARIANTS
  KeyExclusion
  NoStalePointer
  NodesAccounted
  KeyOrder
  HeadHasOwner
  LockedForSomebody
  PacketsIntact
