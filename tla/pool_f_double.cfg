CONSTANTS
  Workers = {w1, w2}
  Calls = {c1}
  Concurrency = 1
  RedisMayFail = FALSE
  MayCrash = FALSE
  None = None
SPECIFICATION Spec
INVARIANT NoDoubleHandling
CHECK_DEADLOCK FALSE
