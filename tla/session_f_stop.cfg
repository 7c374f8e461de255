CONSTANTS
  Workers = {w1}
  Ops = {}
  MaxFailures = 3
  Backoffs = 1
  RedisMayFail = FALSE
  StaleBeats = FALSE
  ReadMayFail = FALSE
  MayShutDown = FALSE
  MayApiStop = TRUE
  None = None
SPECIFICATION Spec
INVARIANT StopCleansUp
CHECK_DEADLOCK FALSE
