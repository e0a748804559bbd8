\* All types of installation, square and not.
CONSTANTS
  Size <- MCSize
  Colour <- MCColour
  Brightness = 40
  MaxPaints = 2
SPECIFICATION Spec
INVARIANTS
  TypeOK
  WallShowsImage
  StaysOneLine
