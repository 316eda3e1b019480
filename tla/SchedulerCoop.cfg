\* Three tasks under a host that schedules and yields: the worst case for a wait.
SPECIFICATION FairCoopSpec
INVARIANTS QueueCoherent OnlyCurrentRuns WaitBounded
PROPERTIES AgingNeverLowersPriority ReadyTaskRuns
CONSTANTS
  MaxTasks = 3
  U8Max = 1
  U16Max = 20
  U64Max = 7
  AgeStep = 3
  DeadlineBoost = 1
  MaxBoost = 1
  Class <- MCClass
  Boost <- MCBoost
  SpawnArgs <- MCCoopArgs
CHECK_DEADLOCK FALSE
