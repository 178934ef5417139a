SPECIFICATION MouseLiveSpec
CONSTANTS
  NoReport = NoReport
  ClickStates = {0, 1}
  Packet = 1
  Deltas <- MCDeltas
  Unit = 2
  Speeds = {1, 2, 3}
  QueueSize = 2
INVARIANT MouseSafety
PROPERTY Settles
