SPECIFICATION Spec
CONSTANTS
  old = old
  new = new
  hidden = hidden
  Files <- Visible
  Ignored <- NoFiles
  Absent <- NoFile
  Baseline <- Project
  Direct = FALSE
  MaxAttempts = 1
  MaxRuns = 1
  MaxCrashes = 2
  MaxFaults = 0
  MaxDiscards = 0
INVARIANTS CrashesAloneAreRecovered
CHECK_DEADLOCK FALSE
