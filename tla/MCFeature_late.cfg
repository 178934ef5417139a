CONSTANTS
  Contents = {v1, v2}
  Timeout = 2
  MaxCalls = 2
  MaxGeneration = 3
SPECIFICATION ChannelSpec
PROPERTIES
  NoLateCommit
CHECK_DEADLOCK FALSE
