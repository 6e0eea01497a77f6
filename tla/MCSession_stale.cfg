SPECIFICATION Spec
CONSTANTS
  Procs = {backend, terminal}
  backend = backend
  terminal = terminal
  MaxRuns = 2
  Budgets <- StaleBudgets
  ResetFaults = FALSE
PROPERTY VerifiedWorkIsKept
