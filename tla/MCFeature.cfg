CONSTANTS
  Contents = {v1, v2}
  Timeout = 2
  MaxCalls = 3
  MaxGeneration = 4
SPECIFICATION LiveSpec
CHECK_DEADLOCK FALSE
INVARIANT RequestSafety
PROPERTY LateDoesNothing
PROPERTY RequestLiveness
