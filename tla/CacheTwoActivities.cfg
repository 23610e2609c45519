SPECIFICATION Spec
CONSTANTS
  Keys = {k1}
  Sizes = {1}
  MaxSize = 3
  RebuildAt = 3
  MaxBuffer = 2
  MaxTasks = 2
  MaxPinned = 1
INVARIANT NoHalfFile
CHECK_DEADLOCK FALSE
