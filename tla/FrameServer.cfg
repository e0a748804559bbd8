\* Interleavings of the five threads, fractions of seconds, a full table and the
\* order of three of four sources.
CONSTANTS
  a = a
  b = b
  c = c
  red = red
  green = green
  Endpoint = {a, b, c}
  NoEndpoint = none
  Frame = {red}
  Unset = unset
  Blank = blank
  NUMBUFS = 3
  BUFTIMEOUT = 0
  TicksPerSecond = 2
  MaxSecond = 1
SPECIFICATION Spec
INVARIANTS
  IInv
  TableAligned
  WriteHitsSender
  UnsetNeverShown
  SweepLeavesNoneBehind
PROPERTIES
  ImplementsSourceTable
  NoEarlyExpiry
  StableOrder
SYMMETRY Symmetric
