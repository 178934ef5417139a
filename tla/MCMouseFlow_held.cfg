SPECIFICATION MouseSpec
CONSTANTS
  NoReport = NoReport
  ClickStates = {0, 1}
  Packet = 1
  Deltas <- MCDeltas
  Unit = 2
  Speeds = {2, 3}
  QueueSize = 2
INVARIANT HeldIsStill
