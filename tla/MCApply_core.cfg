SPECIFICATION Spec
CONSTANTS
  N = 3
  Op <- OneOfEach
  D = 1
  Parent <- NewFileDir
  MaxApplies = 2
  MaxCrashes = 2
  MaxFaults = 1
  MaxEdits = 1
  MaxDiscards = 1
  TornWrites = TRUE
INVARIANTS
  ProjectIsSafe
  ReportedOutcomeIsDurable
PROPERTIES
  JournalLeads
  PublishNeverClobbersNewFile
  ImplementsAtomicApply
CHECK_DEADLOCK FALSE
