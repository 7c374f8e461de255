CONSTANTS
  Workers = {w1}
  Ops = {}
  MaxFailures = 2
  Backoffs = 1
  RedisMayFail = FALSE
  StaleBeats = TRUE
  ReadMayFail = FALSE
  MayShutDown = FALSE
  MayApiStop = TRUE
  None = None
SPECIFICATION MCFairSpec
PROPERTIES RegistryFollows StopEndsRetries
CHECK_DEADLOCK FALSE
