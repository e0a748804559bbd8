\* Two clients of two lines each, a forwarder that dies and is started again.
CONSTANTS
  p = p
  q = q
  Client = {p, q}
  MaxSize = 1
  MaxRate = 2
  Ask <- MCAsk
  MaxLines = 2
  MaxStarts = 2
  None = None
SPECIFICATION FairSpec
INVARIANTS
  TypeOK
  RateWithinLimits
  NoMixing
  OnlyLastTorn
  OneLostPerDeath
PROPERTIES
  ImplementsLossyQueue
  LineIsWritten
  SentIsWritten
  RateCatchesUp
\* After the last start the forwarder may stay down.
CHECK_DEADLOCK FALSE
