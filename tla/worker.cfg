CONSTANTS
  Workers = {w1, w2}
  Calls = {c1}
  Concurrency = 2
  RedisMayFail = TRUE
  MayCrash = TRUE
  None = None
  QueueSize = 2
  MaxTools = 2
SPECIFICATION MCFairSpec
INVARIANTS OneHandler ReservedIsHeld PermitsBalance BargeInIsClean HonestDisposition
PROPERTIES DrainEnds CallEndsOnce
CHECK_DEADLOCK FALSE
