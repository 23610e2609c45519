SPECIFICATION PicSpec
CONSTANTS
  HastyUser = TRUE
  OpenFails = TRUE
  CameraFails = TRUE
  MaxPermits = 2
  MaxPending = 1
  BurstValues = {0}
  FullSupport = TRUE
  QuickPresses = TRUE
  BusyUser = TRUE
  Savers = {s1, s2}
  MaxDue = 2
INVARIANTS OpenNeverTimesOut SessionHasDevice
CHECK_DEADLOCK FALSE
