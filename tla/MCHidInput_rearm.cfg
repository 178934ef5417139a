SPECIFICATION Spec
CONSTANTS
  Buttons = {"a", "home", "cursor", "ok"}
  Home = "home"
  Cursor = "cursor"
  Ok = "ok"
  Click = "right"
  Map <- MCMap
  MacroSlots <- MCMacros
  None = None
  MaxHeld = 2
PROPERTY StartIsAnew
