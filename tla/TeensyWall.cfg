\* A strip of three LEDs and three lines of any length.
CONSTANTS
  N = 3
  MaxLines = 3
  MaxWire = 2
SPECIFICATION FairSpec
INVARIANTS
  TypeOK
  LoopInv
  Resynchronised
PROPERTIES
  NoTearing
  EveryLineShown
\* The host may have nothing more to send.
CHECK_DEADLOCK FALSE
