\* Two rows of two windows, two displays; one browser that comes and goes.
CONSTANTS
  WIDTH = 2
  HEIGHT = 2
  SEGWIDTH = 2
  SEGNUM = 1
  Colour <- MCColour
  HASH = HASH
  OtherHash = OtherHash
  b = b
  Browser = {b}
  MaxEdits = 1
  MaxNet = 2
  MaxQueue = 1
  ROWS = 3
  COLS = 3
  UDP_TX_PACKET_MAX_SIZE = 17
  Stray <- MCStray
SPECIFICATION FairDisplaySpec
INVARIANTS
  TypeOK
  ScreenIsDrawn
  LedsInPlace
PROPERTIES
  BrowserCatchesUp
