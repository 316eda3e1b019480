----------------------------- MODULE MCKernel -----------------------------
(* Values of the kernel's constants for TLC: small sets of callers and of  *)
(* arguments, one selection of syscalls per run.                           *)
EXTENDS HostedKernel

MCCapability ==
  {"TaskSpawn", "TaskManage", "MemoryMap", "MemoryShare", "DeviceList", "DeviceOpen",
   "DeviceCall", "CognitionInfer", "CognitionMemory", "SecurityManage",
   "AuditAppend", "AuditQuery", "AuditVerify"}

Caller(task, capabilities, execution) ==
  [task |-> task, capabilities |-> capabilities, execution |-> execution]

\* A trusted task, a plain one, one with some authority, and the two other contexts.
MCContext ==
  {Caller(1, MCCapability, "Task"), Caller(2, {}, "Task"),
   Caller(2, {"TaskManage", "DeviceCall", "DeviceOpen"}, "Task"),
   Caller(1, MCCapability, "Interrupt"), Caller(0, MCCapability, "EarlyBoot")}

MCTaskCalls ==
  {"SysYield", "SysExit", "SysTaskSpawn", "SysTaskCancel", "SysTaskStatus",
   UnknownNumber}
MCResourceCalls == Number \ {"SysYield", "SysExit", "SysTaskCancel", "SysTaskStatus"}

MCBoost == [class \in {"Runtime", "Audit"} |-> IF class = "Runtime" THEN 1 ELSE 0]
\* A task of the host's own, which may run for one tick.
MCHostSpawn == {[class |-> "Audit", priority |-> 3, max_ticks |-> 1, deadline |-> 0]}

\* What the host may set itself; once past BootBump, initialize_host fails.
MCPhases == {"BootBump", "Frame"}
\* The boot phases the host completes itself: the first, after which initialize_host fails,
\* and the ones a boot leaves that fails at the allocator.
MCHostBoot ==
  {"LoaderHandoff", "Allocator", "Timer", "Scheduler", "Devices", "Security", "Audit",
   "Syscalls", "RuntimeSpawn"}
MCPermission == {"WRITE", "SEALED"}
MCBounds == [lower |-> 1, upper |-> AddrMax - 1, max_len |-> 2]

\* One range that is accepted, and one for each way to be refused.
MCRange ==
  {[start |-> 1, len |-> 2], [start |-> 1, len |-> 0], [start |-> 0, len |-> 2],
   [start |-> 1, len |-> 3], [start |-> 2, len |-> 2], [start |-> AddrMax, len |-> 2]}
MCOneRange == {[start |-> 1, len |-> 2]}
MCTwoRanges == {[start |-> 1, len |-> 2], [start |-> 0, len |-> 1]}
MCOperation == {"Read", "Write"}
MCDescriptor ==
  {[id |-> 1, lifecycle |-> lifecycle, required_capabilities |-> {"SecurityManage"},
    supported_operations |-> {"Read"}, max_input_len |-> 1, max_output_len |-> 0] :
     lifecycle \in {"Registered", "Suspended"}}
===========================================================================
