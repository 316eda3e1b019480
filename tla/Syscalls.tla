----------------------------- MODULE Syscalls -----------------------------
(***************************************************************************)
(* The syscall table and validator of src/src/syscall.rs, with the status  *)
(* values of src/src/error.rs.  A syscall number is the name of its        *)
(* SyscallNumber; the raw values are distinct and from_raw is their        *)
(* inverse.                                                                *)
(***************************************************************************)

KernelStatus ==
  {"Ok", "InvalidArgument", "PermissionDenied", "NotFound", "Busy",
   "DeadlineExceeded", "Internal"}

KernelError ==
  {"UnknownSyscall", "InvalidArgument", "InvalidUserBuffer", "BufferTooLarge",
   "BufferOutOfRange", "ReservedBits", "MissingCapability", "PermissionDenied",
   "NotFound", "CapacityExceeded", "Busy", "DeadlineExceeded", "InvalidState",
   "Overlap", "Sealed", "Duplicate", "Internal"}

\* KernelError::status, and Ok for a call without an error.
Status(error) ==
  CASE error = "Ok" -> "Ok"
    [] error \in {"UnknownSyscall", "InvalidArgument", "InvalidUserBuffer",
                  "BufferTooLarge", "BufferOutOfRange", "ReservedBits",
                  "InvalidState", "Overlap", "Sealed", "Duplicate"} -> "InvalidArgument"
    [] error \in {"MissingCapability", "PermissionDenied"} -> "PermissionDenied"
    [] error = "NotFound" -> "NotFound"
    [] error \in {"CapacityExceeded", "Busy"} -> "Busy"
    [] error = "DeadlineExceeded" -> "DeadlineExceeded"
    [] error = "Internal" -> "Internal"

-----------------------------------------------------------------------------
(* SYSCALL_DESCRIPTORS *)

Number ==
  {"SysInfo", "SysYield", "SysExit", "SysTime", "SysTraceContext",
   "SysTaskSpawn", "SysTaskJoin", "SysTaskCancel", "SysTaskStatus",
   "SysMemMap", "SysMemUnmap", "SysMemQuery", "SysMemShare", "SysMemSeal",
   "SysDeviceList", "SysDeviceOpen", "SysDeviceCall", "SysDeviceClose",
   "SysModelList", "SysModelOpen", "SysInfer", "SysMemoryQuery", "SysMemoryPut",
   "SysCapDerive", "SysCapRevoke", "SysAttest", "SysRandom",
   "SysAuditAppend", "SysAuditQuery", "SysAuditVerify"}

\* Any raw number outside the table.
UnknownNumber == "unknown"

\* required_capability, as the set of capabilities that are required.
Required(number) ==
  CASE number = "SysTaskSpawn" -> {"TaskSpawn"}
    [] number \in {"SysTaskJoin", "SysTaskCancel", "SysTaskStatus"} -> {"TaskManage"}
    [] number \in {"SysMemMap", "SysMemUnmap"} -> {"MemoryMap"}
    [] number \in {"SysMemShare", "SysMemSeal"} -> {"MemoryShare"}
    [] number = "SysDeviceList" -> {"DeviceList"}
    [] number = "SysDeviceOpen" -> {"DeviceOpen"}
    [] number \in {"SysDeviceCall", "SysDeviceClose"} -> {"DeviceCall"}
    [] number \in {"SysModelOpen", "SysInfer"} -> {"CognitionInfer"}
    [] number \in {"SysMemoryQuery", "SysMemoryPut"} -> {"CognitionMemory"}
    [] number \in {"SysCapDerive", "SysCapRevoke", "SysAttest"} -> {"SecurityManage"}
    [] number = "SysAuditAppend" -> {"AuditAppend"}
    [] number = "SysAuditQuery" -> {"AuditQuery"}
    [] number = "SysAuditVerify" -> {"AuditVerify"}
    [] OTHER -> {}

NoEvent == "None"

\* audit_event
AuditEvent(number) ==
  CASE number \in {"SysExit", "SysTaskJoin", "SysTaskCancel"} -> "TaskStateChanged"
    [] number = "SysTaskSpawn" -> "TaskSpawn"
    [] number \in {"SysMemMap", "SysMemUnmap"} -> "MemoryMap"
    [] number \in {"SysMemShare", "SysMemSeal"} -> "MemoryShare"
    [] number = "SysDeviceOpen" -> "DeviceOpen"
    [] number \in {"SysDeviceCall", "SysDeviceClose"} -> "DeviceCall"
    [] number \in {"SysModelOpen", "SysInfer"} -> "CognitionInfer"
    [] number \in {"SysMemoryQuery", "SysMemoryPut"} -> "CognitiveMemory"
    [] number \in {"SysCapDerive", "SysCapRevoke"} -> "CapabilityChanged"
    [] number = "SysAttest" -> "SecurityDecision"
    [] number = "SysAuditAppend" -> "AuditAppend"
    [] number = "SysAuditQuery" -> "AuditQuery"
    [] number = "SysAuditVerify" -> "AuditVerify"
    [] OTHER -> NoEvent

ExecutionContext == {"EarlyBoot", "Task", "Interrupt"}

\* early_boot_safe and interrupt_safe are set for the same three syscalls.
SafeAnywhere == {"SysInfo", "SysTime", "SysTraceContext"}

AllowsContext(number, execution) ==
  execution = "Task" \/ number \in SafeAnywhere

\* Fault: the execution context is checked for privileged calls only.
Validate_AnyContext(number, context) ==
  IF number \notin Number THEN "UnknownSyscall"
  ELSE IF Required(number) # {} /\ ~AllowsContext(number, context.execution) THEN "Busy"
  ELSE IF ~(Required(number) \subseteq context.capabilities) THEN "MissingCapability"
  ELSE "Ok"

\* SyscallDispatcher::validate
Validate(number, context) ==
  IF number \notin Number THEN "UnknownSyscall"
  ELSE IF ~AllowsContext(number, context.execution) THEN "Busy"
  ELSE IF ~(Required(number) \subseteq context.capabilities) THEN "MissingCapability"
  ELSE "Ok"
=============================================================================
