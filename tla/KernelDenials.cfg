\* A denial inside the handler of sys_info leaves no audit record.
SPECIFICATION Spec
PROPERTY DenialsAreAudited
CONSTANTS
  U8Max = 3
  U16Max = 12
  AgeStep = 1
  DeadlineBoost = 1
  Class = {"Runtime", "Audit"}
  Boost <- MCBoost
  MaxBoost = 1
  DefaultPriority = 2
  SeqSpace = 3
  MaxLen = 1
  AddrMax = 4
  Permission <- MCPermission
  Capability <- MCCapability
  Context <- MCContext
  InitBounds <- MCBounds
  Operation <- MCOperation
  MaxDevices = 1
  Task = {0, 1, 2}
  MaxTasks = 1
  TickMax = 2
  Priority = {0}
  HostSpawn = {}
  MaxShared = 1
  Range <- MCOneRange
  Descriptor = {}
  Callable = {"SysInfo"}
  HostState = {}
  HostPhase = {}
  HostBoot = {}
  HostSchedules = FALSE
