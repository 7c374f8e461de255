CONSTANTS
  Versions = {1, 2}
  Models <- ModelServices
  Apps <- AppServices
  Web = "web"
  MaxScripts = 3
SPECIFICATION Spec
INVARIANT FailureRestoresData
CHECK_DEADLOCK FALSE
