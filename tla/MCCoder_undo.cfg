SPECIFICATION Spec
CONSTANTS
  Paths <- MCPaths
  Below <- MCBelow
  Scope <- MCScope
  MaxIterations = 5
  MaxEnvelopeRetries = 1
  MaxFilesRead = 3
  MaxObserved = 3
  MaxEntries = 3
  TornWrites = FALSE
INVARIANTS
  TransactionIsUndone
