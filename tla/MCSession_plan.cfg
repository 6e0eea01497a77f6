SPECIFICATION Spec
CONSTANTS
  Procs = {backend}
  backend = backend
  terminal = terminal
  MaxRuns = 2
  Budgets <- PlanBudgets
  ResetFaults = FALSE
INVARIANT DonePlanStaysDone
