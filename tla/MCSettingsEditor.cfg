SPECIFICATION Spec
CONSTANTS
  Buttons = {106, 74, 40}
  Listed <- MCListed
  Modifiers = {8}
  Speeds = {4, 5}
  Defaults <- MCDefaults
  DefaultSpeed = 4
  Sent <- MCSent
  Old <- MCOld
INVARIANT EditorSafety
INVARIANT DirtyIsRight
PROPERTY EditsAreKept
