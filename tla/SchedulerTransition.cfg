\* transition makes a second task Running.
SPECIFICATION Spec
INVARIANT OnlyCurrentRuns
CONSTANTS
  MaxTasks = 2
  U8Max = 3
  U16Max = 20
  U64Max = 6
  AgeStep = 2
  DeadlineBoost = 2
  MaxBoost = 2
  Class <- MCClass
  Boost <- MCBoost
  SpawnArgs <- MCSpawnArgs
CHECK_DEADLOCK FALSE
