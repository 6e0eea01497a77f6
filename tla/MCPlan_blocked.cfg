SPECIFICATION Spec
CONSTANTS
  a = a
  b = b
  c = c
  Tasks <- PlanTasks
  Paths <- PlanFiles
  Drafts <- PlanDrafts
  Causes = {x}
  None = None
  MaxStepAttempts = 2
  MaxTaskAttempts = 3
PROPERTIES RepairIsUsable
