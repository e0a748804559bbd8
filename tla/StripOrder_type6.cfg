\* The type that starts at the bottom right and goes up.
CONSTANTS
  Size <- MCSize
  Colour <- MCColour
  Brightness = 40
  MaxPaints = 1
SPECIFICATION Spec
INVARIANTS
  EveryTypeIsOK
