SPECIFICATION Spec
CONSTANTS
  old = old
  new = new
  hidden = hidden
  Files <- Visible
  Ignored <- NoFiles
  Absent <- NoFile
  Baseline <- Project
  Direct = FALSE
  MaxAttempts = 2
  MaxRuns = 2
  MaxCrashes = 2
  MaxFaults = 2
  MaxDiscards = 1
INVARIANTS
  FilesAreSafe
  RecordsAgree
PROPERTIES
  DecisionsHold
CHECK_DEADLOCK FALSE
