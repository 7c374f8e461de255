CONSTANTS
  Calls = {c1}
  MaxBacklog = 1
SPECIFICATION FairSpec
PROPERTY WorkerLossEndsCall
CHECK_DEADLOCK FALSE
