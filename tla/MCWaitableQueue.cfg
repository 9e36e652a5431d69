SPECIFICATION LoopSpec
CONSTANTS
  Consumers = {c1, c2}
  Producers = {p1, p2}
  MaxPush = 3
  MaxSignal = 1
  QueueLen = 2
  PipeLen = 2
  ReadLen = 2
INVARIANTS EachOnce NotAllAsleep
PROPERTY EveryPacketPopped
CHECK_DEADLOCK FALSE
