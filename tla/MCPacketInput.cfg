SPECIFICATION InputSpec
CONSTANTS
  MemBlockSize = 3
  Stale = 0
  MaxBytes = 16
  MaxLeft = 4
  Ends <- MCEnds
  HeaderLen = 2
  MaxPkgLen = 4
INVARIANTS InputSound PacketsAsSent
PROPERTIES ImplementsRecvBuffer StreamSpec EveryPacketPushed
CHECK_DEADLOCK FALSE
