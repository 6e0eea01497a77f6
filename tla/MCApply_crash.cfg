SPECIFICATION FairSpec
CONSTANTS
  N = 3
  Op <- OneOfEach
  D = 0
  Parent <- NoNewDir
  MaxApplies = 2
  MaxCrashes = 4
  MaxFaults = 0
  MaxEdits = 0
  MaxDiscards = 0
  TornWrites = FALSE
INVARIANTS
  CrashesAloneAreRecovered
PROPERTIES
  ApplySettles
CHECK_DEADLOCK FALSE
