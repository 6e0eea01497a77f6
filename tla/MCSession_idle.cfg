SPECIFICATION Spec
CONSTANTS
  Procs = {backend}
  backend = backend
  terminal = terminal
  MaxRuns = 1
  Budgets <- PlainBudgets
  ResetFaults = FALSE
INVARIANT IdleIsReady
