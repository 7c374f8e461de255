CONSTANTS
  Workers = {w1, w2}
  Ops = {"pause", "resume", "get_call_info", "other"}
  MaxFailures = 3
  Backoffs = 1
  RedisMayFail = TRUE
  StaleBeats = FALSE
  ReadMayFail = TRUE
  MayShutDown = FALSE
  MayApiStop = FALSE
  None = None
SPECIFICATION MCSpec
SYMMETRY WorkerSymmetry
INVARIANTS TypeOK ReadyIsUsable OneLoginPerWorker BeatFollowsWorker
CHECK_DEADLOCK FALSE
