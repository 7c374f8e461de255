SPECIFICATION Spec
CONSTANTS
  Requests = {q1}
  MaxCalls = 2
  MaxOps = 2
  MaxFaults = 1
INVARIANT TransferMovesItsCall
CHECK_DEADLOCK FALSE
