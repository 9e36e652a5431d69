SPECIFICATION Spec
CONSTANTS
  MaxClient = 2
  MaxSend = 3
  FdNum = 2
  NodeNum = 3
  IdNum = 2
INVARIANT DataAttributed
CHECK_DEADLOCK FALSE
