\* Two slots for three ids: duplicates, evictions and every caller are tried.
SPECIFICATION Spec
INVARIANTS TypeOK AuthorityIsMonotone
PROPERTY AnswersAreStable
CONSTANTS
  MaxDevices = 2
  Descriptor <- MCDescriptor
  Capability <- MCCapability
  Operation <- MCOperation
  MaxLen = 1
CHECK_DEADLOCK FALSE
