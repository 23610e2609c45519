SPECIFICATION FairSpec
CONSTANTS
  Keys = {k1, k2}
  Sizes = {1, 2}
  MaxSize = 3
  RebuildAt = 3
  MaxBuffer = 2
  MaxTasks = 2
  MaxPinned = 1
INVARIANTS NoLeak RecoveryIsTrue UsageIsCounted
PROPERTIES TrimEnds ImplementsStore
