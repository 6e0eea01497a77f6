SPECIFICATION Spec
CONSTANTS
  Names <- MCNames
  Fold <- MCFold
  Squeeze <- MCSqueeze
  MaxTasks = 3
  MaxSteps = 2
  Files = {"p", "q"}
  Components <- MCComponents
  ModelGraph = {TRUE, FALSE}
  MaxRepairs = 1
  MaxPlanRepairs = 1
  MaxPlans = 2
  MaxCrashes = 1
INVARIANTS
  StoredPlansCanFinish
  StoredIsAPlan
  RevisionKeepsWork
  QuestionsAreBounded
PROPERTIES
  HistoryIsKept
