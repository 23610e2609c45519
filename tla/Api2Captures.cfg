SPECIFICATION PicFairSpec
CONSTANTS
  HastyUser = FALSE
  OpenFails = FALSE
  CameraFails = FALSE
  MaxPermits = 2
  MaxPending = 1
  BurstValues = {0, 2}
  FullSupport = TRUE
  QuickPresses = FALSE
  BusyUser = FALSE
  Savers = {s1, s2, s3}
  MaxDue = 3
INVARIANTS SoundInv PatientInv FinishMeansDelivered
PROPERTIES CloseEnds PreviewStarts ShutterFrees PreviewComesBack
