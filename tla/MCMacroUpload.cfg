SPECIFICATION Spec
CONSTANTS
  Clients = {a, b}
  Slots = {s}
  SlotOf <- MCSlotOf
  Macros = {m0, m1}
  Size <- MCSizeTwo
  Default = m0
  Revisions = 3
  None = None
  StartRevs = {2}
  MaxSaves = 2
  MaxMishaps = 1
SYMMETRY Swap
INVARIANT UploadSafety
PROPERTY CommitsAreOwn
PROPERTY SavedIsStored
