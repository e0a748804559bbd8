\* Bytes above 127, which the relay reads as UTF-8.
CONSTANTS
  WIDTH = 2
  HEIGHT = 2
  SEGWIDTH = 2
  SEGNUM = 1
  Colour <- MCBright
  HASH = HASH
  OtherHash = OtherHash
  b = b
  Browser = {b}
  MaxEdits = 1
  MaxNet = 1
  MaxQueue = 1
  ROWS = 3
  COLS = 3
  UDP_TX_PACKET_MAX_SIZE = 17
  Stray <- MCStray
SPECIFICATION DisplaySpec
INVARIANTS
  ScreenIsDrawn
