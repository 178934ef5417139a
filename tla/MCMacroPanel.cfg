SPECIFICATION LiveSpec
CONSTANTS
  s1 = s1
  s2 = s2
  m1 = m1
  m2 = m2
  First <- MCFirst
  Slots = {s1, s2}
  Macros = {m1, m2}
  Blank = m1
  Revisions = 3
  None = None
  MaxStops = 1
  MaxMishaps = 1
INVARIANT TypeOK
PROPERTY DraftsKept
PROPERTY NoLostMacro
PROPERTY PanelLiveness
