\* A reboot command read as a number of LEDs.
CONSTANTS
  RebootWait = 3
  ReadTimeout = 5
  SetupTimeout = 5
  Boot = 2
  Lag = 1
SPECIFICATION Spec
PROPERTIES
  CommandRestarts
