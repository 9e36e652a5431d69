SPECIFICATION LiveSpec
CONSTANTS
  MaxClient = 3
  MaxSend = 2
  FdNum = 2
  NodeNum = 2
  IdNum = 2
INVARIANTS MapConsistent CallbacksPaired BacklogRemembered
PROPERTIES ReplyToOwn OwnDataOnly BacklogServed
CHECK_DEADLOCK FALSE
