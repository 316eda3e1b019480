\* A host that selects only by yielding, with bounded budgets and deadlines.
SPECIFICATION FairFacadeSpec
INVARIANT BudgetAccounts
PROPERTY ReadyTaskRunsUnlessSpent
CONSTANTS
  MaxTasks = 3
  U8Max = 1
  U16Max = 20
  U64Max = 8
  AgeStep = 2
  DeadlineBoost = 1
  MaxBoost = 1
  Class <- MCClass
  Boost <- MCBoost
  SpawnArgs <- MCSpawnArgs
CHECK_DEADLOCK FALSE
