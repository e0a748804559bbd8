\* Keys against the five threads, under FairConsoleSpec.
CONSTANTS
  a = a
  red = red
  Endpoint = {a}
  NoEndpoint = none
  Frame = {red}
  Unset = unset
  Blank = blank
  NUMBUFS = 2
  BUFTIMEOUT = 0
  TicksPerSecond = 1
  MaxSecond = 1
SPECIFICATION FairConsoleSpec
INVARIANTS
  OnlyExpiryStrandsMark
PROPERTIES
  KeysAreServed
