\* Three regions in an address space of 8 bytes: they touch, nest and reach its end.
SPECIFICATION Spec
INVARIANTS RegionsDisjoint FindIsExact TotalsAreBytes
CONSTANTS
  MaxRegions = 3
  U64Max = 7
  Kind <- MCKind
CHECK_DEADLOCK FALSE
