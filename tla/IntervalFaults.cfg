SPECIFICATION Spec
CONSTANTS
  BurstValues = {1, 2}
  BurstChanges = TRUE
  CameraFails = TRUE
  CameraCloses = TRUE
  Savers = {s1}
  MaxOwed = 2
  MaxCount = 3
  Modules = {"interval", "picture", "video"}
  Durations = {1}
  MaxRunners = 2
INVARIANTS StoppedMeansStopped HandlerWorksForModule
