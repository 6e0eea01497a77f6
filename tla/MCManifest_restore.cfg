SPECIFICATION Spec
CONSTANTS
  Root = "root"
  Order <- OneOrder
  Parent <- OneParent
  Key <- OneKey
  Secret = {}
  Refused = {}
  Faulty = {}
  Contents = {"t", "u", "b", "h"}
  Size <- MCSize
  Text = {"t", "u"}
  Before <- OneBefore
  After <- OneAfter
  Puts <- OnePuts
  MaxFiles = 2
  MaxFileBytes = 2
  MaxBytes = 3
  MaxPatchBytes = 2
  Restores = TRUE
  MaxEdits = 6
  MaxRequests = 1
INVARIANTS
  ManifestOfOneMoment
