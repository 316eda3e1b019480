\* Two slots, two owners, overlapping ranges, and a host that tries every bound, limit and alignment.
SPECIFICATION Spec
INVARIANTS TypeOK RangeCheckIsExact IdsNameSlots SealIsCoherent
PROPERTY SealIsPermanent
CONSTANTS
  MaxShared = 2
  U64Max = 6
  Task <- MCTask
  Permission <- MCPermission
  HostValue = {0, 1, 2, 3, 4, 5, 6}
  CallerRange <- MCRanges
  InitBounds <- MCBounds
