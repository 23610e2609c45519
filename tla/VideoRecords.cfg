SPECIFICATION FairSpec
CONSTANTS
  HastyUser = TRUE
  OpenFails = TRUE
  CameraFails = TRUE
  MaxPermits = 2
  MaxPending = 2
INVARIANTS NoSilentRecording ButtonIsHonest ShownIsReal
PROPERTIES ImplementsRecording LeavingStops
CHECK_DEADLOCK FALSE
