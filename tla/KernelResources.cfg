\* Every call but four task calls, on one task slot, one device, one shared slot and all
\* kinds of ranges, with a host that boots, completes phases itself, registers a device,
\* moves the allocator and appends audit events.
SPECIFICATION Spec
PROPERTIES PrivilegedDenialsAreAudited FaultsMatchAnswers AnswersNameResults UsesMemory BootIsAllOrNothing
CONSTANTS
  U8Max = 3
  U16Max = 12
  AgeStep = 1
  DeadlineBoost = 1
  Class = {"Runtime", "Audit"}
  Boost <- MCBoost
  MaxBoost = 1
  DefaultPriority = 2
  SeqSpace = 3
  MaxLen = 1
  AddrMax = 4
  Permission <- MCPermission
  Capability <- MCCapability
  Context <- MCContext
  InitBounds <- MCBounds
  Operation <- MCOperation
  MaxDevices = 1
  Task = {0, 1, 2}
  MaxTasks = 1
  TickMax = 2
  Priority = {0}
  HostSpawn = {}
  MaxShared = 1
  Range <- MCRange
  Descriptor <- MCDescriptor
  Callable <- MCResourceCalls
  HostState = {}
  HostPhase <- MCPhases
  HostBoot <- MCHostBoot
  HostSchedules = FALSE
