SPECIFICATION MCSpec
CONSTANTS
  before = before
  check = check
  after = after
  other = other
  f = f
  image = image
  Calls = {before, check, after, other}
  Probes = {before, after}
  Before = before
  After = after
  Files = {f}
  Image = image
  Criteria <- Checked
  MaxRevision = 2
  MaxConcurrent = 1
  MaxOutput = 1
  MaxPrinted <- Printed
  OwnCodes <- Ends
  DockerFaults = TRUE
  SlowReaders = FALSE
INVARIANTS
  SlotsAreKept
  OutputIsTrue
  EvidenceIsCurrent
PROPERTIES
  CallsAreAnswered
