SPECIFICATION Spec
CONSTANTS
  MaxPresses = 3
  MaxViews = 2
  MaxDeaths = 1
  MaxNoise = 1
  MaxMissing = 1
INVARIANTS
  EditorIsTrue
  RepliesAreCurrent
PROPERTIES
  OperationsEnd
CHECK_DEADLOCK FALSE
