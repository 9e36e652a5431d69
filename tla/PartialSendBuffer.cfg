SPECIFICATION SendSpec
CONSTANTS
  MemBlockSize = 3
  Stale = 0
  DataLens = {1, 2, 4, 5}
  MaxBytes = 10
  SockSize = 3
INVARIANTS PeerGetsStream
CHECK_DEADLOCK FALSE
