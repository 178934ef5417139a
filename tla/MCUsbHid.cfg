CONSTANTS
  QueueSize = 2
  NativeReserve = 1
  MaxGeneration = 3
  MaxFailures = 1
  MaxInputs = 1
SPECIFICATION LiveSpec
CHECK_DEADLOCK FALSE
INVARIANT OutputSafety
INVARIANT NoReplay
INVARIANT NoStuckKey
PROPERTY ImplementsChannel
PROPERTY Converges
