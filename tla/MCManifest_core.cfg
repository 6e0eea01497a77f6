SPECIFICATION Spec
CONSTANTS
  Root = "root"
  Order <- MCOrder
  Parent <- MCParent
  Key <- MCKey
  Secret = {"x"}
  Refused = {"r"}
  Faulty = {"root", "d"}
  Contents = {"t", "u", "b", "h"}
  Size <- MCSize
  Text = {"t", "u"}
  Before <- MCBefore
  After <- MCAfter
  Puts <- MCPuts
  MaxFiles = 2
  MaxFileBytes = 2
  MaxBytes = 3
  MaxPatchBytes = 2
  Restores = FALSE
  MaxEdits = 2
  MaxRequests = 2
INVARIANTS
  ManifestOfOneMoment
  LimitsAreExact
