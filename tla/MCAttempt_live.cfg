SPECIFICATION FairSpec
CONSTANTS
  old = old
  new = new
  hidden = hidden
  Files <- WithHidden
  Ignored <- HiddenFiles
  Absent <- NoFile
  Baseline <- Project
  Direct = TRUE
  MaxAttempts = 2
  MaxRuns = 2
  MaxCrashes = 1
  MaxFaults = 0
  MaxDiscards = 0
INVARIANTS
  FilesAreSafe
PROPERTIES
  JournalIsSettled
CHECK_DEADLOCK FALSE
