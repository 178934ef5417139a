SPECIFICATION Spec
\* The application is closed, or the bounds on the user and the devices are reached.
CHECK_DEADLOCK FALSE
CONSTANTS
  d1 = d1
  d2 = d2
  v1 = v1
  v2 = v2
  First <- MCFirst
  Devices = {d1, d2}
  Paths = {p1}
  Serial <- MCSerial
  NoSerial <- MCNoSerial
  HasMacros = {d1}
  Values = {v1, v2}
  Default = v1
  Revisions = 3
  None = None
  MaxEvents = 2
  MaxMishaps = 2
  MaxClicks = 4
  MaxStops = 1
INVARIANT BusyUntilResult
