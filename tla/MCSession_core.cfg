SPECIFICATION Spec
CONSTANTS
  Procs = {backend, terminal}
  backend = backend
  terminal = terminal
  MaxRuns = 2
  Budgets <- CoreBudgets
  ResetFaults = FALSE
SYMMETRY AnyOrder
INVARIANTS
  RowsAreTrue
PROPERTIES
  AppliedIsVerified
  RowsMoveLegally
  RepliesAreTrue
