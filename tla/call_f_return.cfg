CONSTANTS
  QueueSize = 2
  MaxTools = 1
SPECIFICATION FairSpec
PROPERTY RunReturns
CHECK_DEADLOCK FALSE
