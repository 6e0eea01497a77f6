SPECIFICATION Spec
CONSTANTS
  N = 3
  Op <- OneOfEach
  D = 0
  Parent <- NoNewDir
  MaxApplies = 1
  MaxCrashes = 1
  MaxFaults = 0
  MaxEdits = 0
  MaxDiscards = 0
  TornWrites = TRUE
INVARIANTS PreparationIsHarmless
CHECK_DEADLOCK FALSE
