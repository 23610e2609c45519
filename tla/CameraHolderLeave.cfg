SPECIFICATION HolderFairSpec
CONSTANTS
  HastyUser = TRUE
  OpenFails = FALSE
  CameraFails = FALSE
  MaxPermits = 2
  MaxPending = 2
PROPERTY CloseEnds
CHECK_DEADLOCK FALSE
