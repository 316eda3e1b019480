-------------------------- MODULE MCMemoryManager --------------------------
EXTENDS MemoryManager

MCTask == {1, 2}
MCPermission == {"READ", "WRITE", "SEALED"}
MCBounds == [lower |-> 2, upper |-> U64Max - 1, max_len |-> 2]

\* Ranges that overlap, a range past any end, and an empty one.
MCRanges ==
  {[start |-> 2, len |-> 2], [start |-> 3, len |-> 2], [start |-> 3, len |-> 0],
   [start |-> U64Max, len |-> 1]}
============================================================================
