---------------------------- MODULE BootProgress ----------------------------
(***************************************************************************)
(* The boot progress tracker of src/src/boot.rs: which of the phases of    *)
(* the normative order have been completed.  The code also sets a flag for *)
(* each completed phase, which nothing reads.                              *)
(***************************************************************************)
EXTENDS Naturals, Sequences

VARIABLE next_index   \* completed_count(); BOOT_SEQUENCE[next_index + 1] is next

BOOT_SEQUENCE ==
  <<"LoaderHandoff", "EarlyConsole", "CpuFeatures", "MemoryMap", "Paging",
    "Interrupts", "Allocator", "Timer", "Scheduler", "Devices", "Security",
    "Audit", "Syscalls", "RuntimeSpawn">>

BootPhase == {BOOT_SEQUENCE[i] : i \in DOMAIN BOOT_SEQUENCE}

\* The phases that come before this one in the order.
PhasesBefore(phase) ==
  (CHOOSE i \in DOMAIN BOOT_SEQUENCE : BOOT_SEQUENCE[i] = phase) - 1

IsComplete == next_index = Len(BOOT_SEQUENCE)

\* next_expected() is Some(phase).
IsExpected(phase) == ~IsComplete /\ BOOT_SEQUENCE[next_index + 1] = phase

Init == next_index = 0

\* A phase out of order, or after the last, is refused and changes nothing.
Complete(phase) ==
  /\ IsExpected(phase)
  /\ next_index' = next_index + 1
=============================================================================
