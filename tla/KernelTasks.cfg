\* Two task slots, ids up to 3, three ticks: callers spawn, yield, exit and cancel, and the host
\* schedules, spawns, cancels and moves tasks in between.
SPECIFICATION Spec
INVARIANT TypeOK
PROPERTIES AuthorityIsNeeded ChangesAreAudited CallsActAsAnswered UsesScheduler
CONSTANTS
  U8Max = 3
  U16Max = 12
  AgeStep = 1
  DeadlineBoost = 1
  Class = {"Runtime", "Audit"}
  Boost <- MCBoost
  MaxBoost = 1
  DefaultPriority = 2
  SeqSpace = 3
  MaxLen = 1
  AddrMax = 4
  Permission <- MCPermission
  Capability <- MCCapability
  Context <- MCContext
  InitBounds <- MCBounds
  Operation <- MCOperation
  MaxDevices = 1
  Task = {0, 1, 2}
  MaxTasks = 2
  TickMax = 3
  Priority = {0, 4}
  HostSpawn <- MCHostSpawn
  MaxShared = 1
  Range <- MCTwoRanges
  Descriptor = {}
  Callable <- MCTaskCalls
  HostState = {"Ready", "Blocked"}
  HostPhase = {}
  HostBoot = {}
  HostSchedules = TRUE
