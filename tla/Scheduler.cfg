\* Every public method of the scheduler, in any order.
SPECIFICATION Spec
INVARIANTS TypeOK CurrentRuns SwitchesWithinTicks PriorityIsAged
PROPERTY LifecycleRespected
CONSTANTS
  MaxTasks = 2
  U8Max = 3
  U16Max = 20
  U64Max = 5
  AgeStep = 2
  DeadlineBoost = 2
  MaxBoost = 2
  Class <- MCClass
  Boost <- MCBoost
  SpawnArgs <- MCSpawnArgs
CHECK_DEADLOCK FALSE
