SPECIFICATION Spec
CONSTANTS
  N = 3
  Op <- OneOfEach
  D = 1
  Parent <- NewFileDir
  MaxApplies = 1
  MaxCrashes = 1
  MaxFaults = 0
  MaxEdits = 0
  MaxDiscards = 0
  TornWrites = FALSE
INVARIANTS CrashesAloneAreRecovered
CHECK_DEADLOCK FALSE
