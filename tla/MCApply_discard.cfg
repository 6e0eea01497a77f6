SPECIFICATION FairSpec
CONSTANTS
  N = 3
  Op <- OneOfEach
  D = 0
  Parent <- NoNewDir
  MaxApplies = 1
  MaxCrashes = 0
  MaxFaults = 1
  MaxEdits = 0
  MaxDiscards = 1
  TornWrites = FALSE
PROPERTIES SourceIsSettled
CHECK_DEADLOCK FALSE
