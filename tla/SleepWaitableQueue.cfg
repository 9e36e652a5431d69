SPECIFICATION LiveSpec
CONSTANTS
  Consumers = {c1, c2}
  Producers = {p1}
  MaxPush = 2
  MaxSignal = 0
  QueueLen = 2
  PipeLen = 2
  ReadLen = 2
PROPERTIES DataWakes
CHECK_DEADLOCK FALSE
