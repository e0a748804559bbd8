\* Progress of frames and of the sweep, under FairSpec.
CONSTANTS
  a = a
  b = b
  c = c
  red = red
  green = green
  Endpoint = {a}
  NoEndpoint = none
  Frame = {red}
  Unset = unset
  Blank = blank
  NUMBUFS = 2
  BUFTIMEOUT = 0
  TicksPerSecond = 1
  MaxSecond = 1
SPECIFICATION FairSpec
PROPERTIES
  FrameReachesDisplay
  StaleSourceLeaves
