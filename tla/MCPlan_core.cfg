SPECIFICATION FairSpec
CONSTANTS
  a = a
  b = b
  c = c
  Tasks <- PlanTasks
  Paths <- PlanFiles
  Drafts <- PlanDrafts
  Causes = {x}
  None = None
  MaxStepAttempts = 3
  MaxTaskAttempts = 4
INVARIANTS
  RowsAgree
  DoneIsComplete
  BudgetsAreKept
  NoFailedApproachAgain
PROPERTIES
  RunEnds
