\* Two slots and four handles: slots are reused and the generation wraps twice.
SPECIFICATION Spec
INVARIANTS TypeOK HandlesAreFaithful OnlyAttenuated
PROPERTY ImplementsAuthority
CONSTANTS
  MaxRecords = 2
  IdMax = 5
  GenMax = 2
  r1 = r1
  r2 = r2
  reserved = reserved
  Right <- MCRight
  KnownRight <- MCKnownRight
SYMMETRY MCSymmetry
CHECK_DEADLOCK FALSE
