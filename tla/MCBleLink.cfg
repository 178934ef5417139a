SPECIFICATION LiveSpec
CONSTANTS
  Handles = {1}
  NoConn = NoConn
  Tables <- SomeTables
  MapLength = 1
  MaxProcs = 2
  Devices = {"remote", "named"}
  None = None
  Packets <- TwoDevices
  Capacity = 1
CHECK_DEADLOCK FALSE
INVARIANT LinkSafety
INVARIANT OnlyTheRemote
INVARIANT ReadyIsComplete
PROPERTY LinkLiveness
