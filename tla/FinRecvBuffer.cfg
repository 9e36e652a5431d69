SPECIFICATION LiveSpec
CONSTANTS
  MemBlockSize = 3
  Stale = 0
  MaxBytes = 2
  MaxLeft = 1
PROPERTY SentBeforeCloseIsShown
CHECK_DEADLOCK FALSE
