SPECIFICATION Spec
CONSTANTS
  old = old
  new = new
  hidden = hidden
  Files <- Visible
  Ignored <- NoFiles
  Absent <- NoFile
  Baseline <- Project
  Direct = FALSE
  MaxAttempts = 1
  MaxRuns = 1
  MaxCrashes = 0
  MaxFaults = 2
  MaxDiscards = 1
INVARIANTS DiscardLeavesNoStuckJournal
CHECK_DEADLOCK FALSE
