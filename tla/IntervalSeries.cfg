SPECIFICATION FairSpec
CONSTANTS
  BurstValues = {1}
  BurstChanges = FALSE
  CameraFails = FALSE
  CameraCloses = FALSE
  Savers = {s1, s2}
  MaxOwed = 3
  MaxCount = 2
  Modules = {"interval", "video"}
  Durations = {0, 2}
  MaxRunners = 2
INVARIANTS SeriesIsDriven CountdownIsTrue
PROPERTIES SeriesEnds WaitEnds ImplementsSeries
