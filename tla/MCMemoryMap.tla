---------------------------- MODULE MCMemoryMap ----------------------------
EXTENDS MemoryMap
MCKind == {"Usable", "Reserved"}
============================================================================
