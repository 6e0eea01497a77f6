SPECIFICATION Spec
CONSTANTS
  MaxPresses = 3
  MaxViews = 1
  MaxDeaths = 1
  MaxNoise = 0
  MaxMissing = 0
INVARIANTS  \* or PROPERTIES BackendComesBack
  StopIsOffered
CHECK_DEADLOCK FALSE
