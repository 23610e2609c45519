SPECIFICATION FairSpec
CONSTANTS
  BurstValues = {1, 2, 3}
  BurstChanges = FALSE
  CameraFails = FALSE
  CameraCloses = TRUE
  Savers = {s1, s2, s3}
  Tasks = {s1, s2}
  MaxOwed = 4
  MaxCount = 4
INVARIANTS ShutterIsHonest BurstCounted BracketInPlace
PROPERTIES BurstIsWhole BracketIsWhole CaptureEndsGuarded BracketEnds
