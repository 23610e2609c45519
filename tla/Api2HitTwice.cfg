SPECIFICATION PicSpec
CONSTANTS
  HastyUser = FALSE
  OpenFails = FALSE
  CameraFails = FALSE
  MaxPermits = 2
  MaxPending = 1
  BurstValues = {0}
  FullSupport = TRUE
  QuickPresses = TRUE
  BusyUser = FALSE
  Savers = {s1, s2}
  MaxDue = 2
PROPERTIES HitTwice
CHECK_DEADLOCK FALSE
