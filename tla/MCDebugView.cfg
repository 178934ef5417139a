SPECIFICATION ViewSpec
CONSTANTS
  Keys = {ok}
  Native = {enter}
  Modes = {normal, cursor}
  Seqs = 3
  PendingCap = 2
  MaxRows = 3
  Absent = Absent
  MaxReports = 4
  MaxLost = 1
  MaxPlugs = 1
  MaxClicks = 2
  MaxQueue = 1
INVARIANT ViewSafety
