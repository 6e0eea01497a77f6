SPECIFICATION Spec
CONSTANTS
  Procs = {backend}
  backend = backend
  terminal = terminal
  MaxRuns = 1
  Budgets <- ResetBudgets
  ResetFaults = TRUE
PROPERTY ResetIsTransactional
