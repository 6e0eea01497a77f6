SPECIFICATION Spec
CONSTANTS
  old = old
  new = new
  hidden = hidden
  Files <- Visible
  Ignored <- NoFiles
  Absent <- NoFile
  Baseline <- Project
  Direct = FALSE
  MaxAttempts = 2
  MaxRuns = 2
  MaxCrashes = 0
  MaxFaults = 2
  MaxDiscards = 0
INVARIANTS LaterCommitSurvives
CHECK_DEADLOCK FALSE
