\* The times of the code, in seconds, and a boot of up to two.
CONSTANTS
  RebootWait = 3
  ReadTimeout = 5
  SetupTimeout = 5
  Boot = 2
  Lag = 1
SPECIFICATION FairSpec
INVARIANTS
  IInv
  StreamsConfigured
  LinesReachLoop
PROPERTIES
  HandshakeEnds
