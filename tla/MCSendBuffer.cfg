SPECIFICATION SendLiveSpec
CONSTANTS
  MemBlockSize = 3
  Stale = 0
  DataLens = {1, 2, 4, 5}
  MaxBytes = 9
  SockSize = 4
INVARIANT BufferSound
PROPERTY BufferDrains
CHECK_DEADLOCK FALSE
