\* Three slots: the cursor passes the end of the array, and the counter wraps.
SPECIFICATION Spec
INVARIANTS LastIsNewest SequencesContiguous
PROPERTY ImplementsHistory
CONSTANTS
  Size = 3
  SeqSpace = 5
  e1 = e1
  e2 = e2
  Entry <- MCEntry
  EmptyEntry = EmptyEntry
  Nothing = Nothing
