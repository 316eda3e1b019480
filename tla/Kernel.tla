------------------------------- MODULE Kernel -------------------------------
(***************************************************************************)
(* The Kernel facade of src/src/lib.rs: boot, and handle_syscall from      *)
(* validation over the subsystem handlers to audit and fault records.      *)
(* HostedKernel adds a host, the specification and its properties.         *)
(*                                                                         *)
(* handle_syscall takes &mut self, so a call is one step; the result it    *)
(* returns stays in answer until the caller takes it (Return).  answer     *)
(* also holds what the call appended to the two logs, which RingLog keeps; *)
(* here a log is its audit sequence counter and the entries of the running *)
(* call.  The arguments that decide a handler's course are its parameters; *)
(* a result value that no property is about is given as 0, as is detail.   *)
(***************************************************************************)
EXTENDS Integers, Sequences, Syscalls

CONSTANTS
  MaxTasks, U8Max, U16Max, AgeStep, DeadlineBoost,  \* see Scheduler
  Class, Boost, MaxBoost,
  TickMax,          \* u64::MAX, for ticks and task ids
  HostSpawn,        \* what the host passes to Scheduler::spawn itself
  DefaultPriority,  \* DEFAULT_PRIORITY
  Priority,         \* the priority arguments of sys_task_spawn
  MaxShared, InitBounds, Permission,                \* see MemoryManager
  AddrMax,          \* u64::MAX, for addresses and lengths
  Range,            \* the [start, len] tasks pass
  MaxDevices, Descriptor, Capability, Operation, MaxLen,   \* see DeviceRegistry
  SeqSpace,         \* 2^64, the number of audit sequence numbers
  Task,             \* task ids a context may name
  Context,          \* the DispatchContexts callers present
  Callable          \* the syscall numbers callers use

ASSUME KernelAssumption ==
  /\ Callable \subseteq Number \cup {UnknownNumber}
  /\ Context \subseteq [task : Task, capabilities : SUBSET Capability,
                        execution : ExecutionContext]
  /\ "Runtime" \in Class /\ DefaultPriority \in 0..U8Max /\ Priority \subseteq Nat
  /\ SeqSpace \in Nat \ {0, 1}

VARIABLES
  tasks, current_task, next_task_id, tick,                  \* scheduler
  allocator_phase, bounds, alignment, shared_regions, next_shared_id,  \* memory
  devices,                                                  \* devices
  boot_index,       \* boot.completed_count()
  next_sequence,    \* audit.next_sequence()
  answer            \* what handle_syscall returned, and the entries it logged

taskVars == <<tasks, current_task, next_task_id, tick>>
memoryVars == <<allocator_phase, bounds, alignment, shared_regions, next_shared_id>>
hostVars == <<devices, boot_index>>
vars == <<taskVars, memoryVars, hostVars, next_sequence, answer>>

RuntimeArg(priority) ==
  [class |-> "Runtime", priority |-> priority, max_ticks |-> 0, deadline |-> 0]

Tasks == INSTANCE Scheduler WITH
  slots <- tasks, U64Max <- TickMax,
  SpawnArgs <- {RuntimeArg(p) : p \in 0..U8Max} \cup HostSpawn

Memory == INSTANCE MemoryManager WITH U64Max <- AddrMax,
  CallerRange <- Range, HostValue <- {}

Boot == INSTANCE BootProgress WITH next_index <- boot_index

Devices == INSTANCE DeviceRegistry WITH slots <- devices

\* The constants of each part meet the part's own assumptions.
ASSUME PartsAssumption ==
  /\ Tasks!SizesAssumption /\ Tasks!ClassAssumption
  /\ Tasks!SpawnArgsAssumption /\ Tasks!AgeAssumption
  /\ Memory!ManagerAssumption /\ Devices!RegistryAssumption

-----------------------------------------------------------------------------
(* Audit and fault records *)

NoAnswer == [number |-> "None"]

AuditSeverity(status) ==
  CASE status = "Ok" -> "Notice"
    [] status = "PermissionDenied" -> "Critical"
    [] OTHER -> "Warning"

\* AuditLog::record_syscall
AuditRecord(kind, number, context, status) ==
  [sequence |-> next_sequence, kind |-> kind, severity |-> AuditSeverity(status),
   task |-> context.task, syscall |-> number, status |-> status]

\* FaultReporter::record_error
FaultRecord(kind, severity, context, error, phase) ==
  [kind |-> kind, severity |-> severity, task |-> context.task,
   status |-> Status(error), reason |-> error, phase |-> phase]

Answer(number, context, error, value, audited, faulted) ==
  /\ answer = NoAnswer
  /\ answer' = [number |-> number, context |-> context, status |-> Status(error),
                value |-> value, audited |-> audited, faulted |-> faulted]
  /\ next_sequence' = (next_sequence + Len(audited)) % SeqSpace

\* error_for_status; the status that dispatch returned has lost its error.
ErrorForStatus(status) == IF status = "Ok" THEN "Internal" ELSE status

FaultKindForStatus(status) ==
  IF status = "PermissionDenied" THEN "CapabilityDenied" ELSE "InvariantViolation"

\* Fault: failed calls are audited, successful ones are not.
Complete_FailuresOnly(number, context, error, value) ==
  LET status == Status(error)
  IN  Answer(number, context, error, value,
        IF AuditEvent(number) = NoEvent \/ status = "Ok" THEN << >>
        ELSE <<AuditRecord(AuditEvent(number), number, context, status)>>,
        IF status = "Ok" THEN << >>
        ELSE <<FaultRecord(FaultKindForStatus(status), "Warning", context,
                           ErrorForStatus(status), "Runtime")>>)

\* Fault: a call that finds nothing is not reported.
Complete_NotFoundSilent(number, context, error, value) ==
  LET status == Status(error)
  IN  Answer(number, context, error, value,
        IF AuditEvent(number) = NoEvent THEN << >>
        ELSE <<AuditRecord(AuditEvent(number), number, context, status)>>,
        IF status \in {"Ok", "NotFound"} THEN << >>
        ELSE <<FaultRecord(FaultKindForStatus(status), "Warning", context,
                           ErrorForStatus(status), "Runtime")>>)

\* The second half of handle_syscall, for a call that was dispatched.
Complete(number, context, error, value) ==
  LET status == Status(error)
  IN  Answer(number, context, error, value,
        IF AuditEvent(number) = NoEvent THEN << >>
        ELSE <<AuditRecord(AuditEvent(number), number, context, status)>>,
        IF status = "Ok" THEN << >>
        ELSE <<FaultRecord(FaultKindForStatus(status), "Warning", context,
                           ErrorForStatus(status), "Runtime")>>)

\* Fault: rejections of calls without an audit event of their own are dropped.
RejectedEvent_OwnOnly(number, error) ==
  IF number \notin Number THEN NoEvent ELSE AuditEvent(number)

\* The kind a rejected call is audited as.
RejectedEvent(number, error) ==
  IF number \notin Number THEN NoEvent
  ELSE IF AuditEvent(number) # NoEvent THEN AuditEvent(number)
  ELSE IF Status(error) = "PermissionDenied" THEN "SecurityDecision"
  ELSE NoEvent

RejectedFault(error) ==
  CASE error = "UnknownSyscall" -> "InvalidSyscall"
    [] error \in {"MissingCapability", "PermissionDenied"} -> "CapabilityDenied"
    [] OTHER -> "InvariantViolation"

\* record_rejected_syscall
Reject(number, context) ==
  LET error == Validate(number, context)
      event == RejectedEvent(number, error)
      denied == Status(error) = "PermissionDenied"
  IN  /\ number \in Callable /\ error # "Ok"
      /\ Answer(number, context, error, 0,
           IF event = NoEvent THEN << >>
           ELSE <<AuditRecord(event, number, context, Status(error))>>,
           <<FaultRecord(RejectedFault(error), IF denied THEN "Error" ELSE "Warning",
                         context, error,
                         IF context.execution = "EarlyBoot" THEN "Boot" ELSE "Runtime")>>)
      /\ UNCHANGED <<taskVars, memoryVars, hostVars>>

Dispatched(number, context) ==
  number \in Callable /\ Validate(number, context) = "Ok"

-----------------------------------------------------------------------------
(* Task calls *)

CancelResult(id) ==
  IF Tasks!SlotsOf(id) = {} THEN "NotFound"
  ELSE IF \E i \in Tasks!SlotsOf(id) : tasks[i].state \in {"Zombie", "Exiting"}
    THEN "InvalidState"
  ELSE "Ok"

CancelTask(number, context, id) ==
  LET error == CancelResult(id)
  IN  /\ Dispatched(number, context)
      /\ IF error = "Ok" THEN Tasks!Cancel(id) ELSE UNCHANGED taskVars
      /\ Complete(number, context, error, IF error = "Ok" THEN id ELSE 0)
      /\ UNCHANGED <<memoryVars, hostVars>>

\* sys_exit cancels the task the context names, running or not.
SysExit(context) == CancelTask("SysExit", context, context.task)

\* sys_task_cancel
SysTaskCancel(context, id) == CancelTask("SysTaskCancel", context, id)

\* Fault: schedule_next is called without charging the current task first.
SysYield_SchedulesOnly(context) ==
  /\ Dispatched("SysYield", context)
  /\ Tasks!ScheduleNext
  /\ Complete("SysYield", context, "Ok", current_task')
  /\ UNCHANGED <<memoryVars, hostVars>>

(***************************************************************************)
(* sys_yield yields the current task, whoever the caller says it is.  Only *)
(* a task that the host spawned itself can have used up its budget.        *)
(***************************************************************************)
SysYield(context) ==
  /\ Dispatched("SysYield", context)
  /\ \/ /\ Tasks!YieldIdle \/ Tasks!YieldCurrent
        /\ Complete("SysYield", context, "Ok", current_task')
     \/ /\ Tasks!BudgetSpent
        /\ UNCHANGED taskVars
        /\ Complete("SysYield", context, "DeadlineExceeded", 0)
     \/ /\ tick = TickMax
        /\ \/ current_task = Tasks!NoTask /\ UNCHANGED taskVars
           \/ Tasks!YieldAtLastTick
        /\ Complete("SysYield", context, "Internal", 0)
  /\ UNCHANGED <<memoryVars, hostVars>>

\* The validation of a manifest buffer, which is optional, and of the priority.
ManifestResult(range) ==
  IF range.len = 0 THEN "Ok"
  ELSE Memory!BufferResult(Memory!UserBuffer(range.start, range.len, {"READ"}), "Read")

\* Fault: the priority is not checked before it is narrowed to 8 bits.
SpawnArgsResult_AnyPriority(range, priority) == ManifestResult(range)

SpawnArgsResult(range, priority) ==
  IF ManifestResult(range) # "Ok" THEN ManifestResult(range)
  ELSE IF priority > U8Max THEN "InvalidArgument"
  ELSE "Ok"

SpawnResult ==
  IF next_task_id = TickMax THEN "Internal" ELSE Tasks!InsertResult(next_task_id)

\* Scheduler::spawn, with its result: a rejected spawn has used up an id.
Spawn(priority) ==
  \/ Tasks!SpawnInserted(RuntimeArg(priority))
  \/ Tasks!SpawnRejected
  \/ next_task_id = TickMax /\ UNCHANGED taskVars

\* Fault: the task is spawned before its priority is looked at.
SysTaskSpawn_LateCheck(context, range, priority) ==
  LET error == IF SpawnArgsResult(range, priority) # "Ok"
                 THEN SpawnArgsResult(range, priority) ELSE SpawnResult
  IN  /\ Dispatched("SysTaskSpawn", context)
      /\ IF ManifestResult(range) = "Ok"
           THEN Spawn(IF priority \in 1..U8Max THEN priority ELSE DefaultPriority)
           ELSE UNCHANGED taskVars
      /\ Complete("SysTaskSpawn", context, error, IF error = "Ok" THEN next_task_id ELSE 0)
      /\ UNCHANGED <<memoryVars, hostVars>>

SysTaskSpawn(context, range, priority) ==
  LET badArgs == SpawnArgsResult(range, priority)
      error == IF badArgs # "Ok" THEN badArgs ELSE SpawnResult
  IN  /\ Dispatched("SysTaskSpawn", context)
      /\ IF badArgs = "Ok"
           THEN Spawn(IF priority = 0 THEN DefaultPriority ELSE priority)
           ELSE UNCHANGED taskVars
      /\ Complete("SysTaskSpawn", context, error, IF error = "Ok" THEN next_task_id ELSE 0)
      /\ UNCHANGED <<memoryVars, hostVars>>

\* sys_task_status; the state's number and the counter it returns are left out.
SysTaskStatus(context, id) ==
  /\ Dispatched("SysTaskStatus", context)
  /\ Complete("SysTaskStatus", context,
              IF Tasks!SlotsOf(id) = {} THEN "NotFound" ELSE "Ok", 0)
  /\ UNCHANGED <<taskVars, memoryVars, hostVars>>

-----------------------------------------------------------------------------
(* Memory and device calls *)

\* sys_mem_range, for SysMemMap and SysMemUnmap: nothing is mapped.
SysMemRange(number, context, range) ==
  /\ Dispatched(number, context)
  /\ Complete(number, context, Memory!RangeResult(range.start, range.len), 0)
  /\ UNCHANGED <<taskVars, memoryVars, hostVars>>

\* sys_info and sys_random validate an output buffer, with the flags that the cast of the
\* argument to u32 leaves; sys_random sets the flag itself.
SysOutput(number, context, range, flags) ==
  /\ Dispatched(number, context)
  /\ Complete(number, context,
              Memory!BufferResult(Memory!UserBuffer(range.start, range.len, flags),
                                  "Write"), 0)
  /\ UNCHANGED <<taskVars, memoryVars, hostVars>>

SysMemShare(context, range, permissions) ==
  LET error == IF Memory!PermissionsResult(permissions) # "Ok"
                 THEN Memory!PermissionsResult(permissions)
               ELSE Memory!ShareResult(range.start, range.len, permissions)
  IN  /\ Dispatched("SysMemShare", context)
      /\ IF error = "Ok"
           THEN Memory!ShareRegion(context.task, range.start, range.len, permissions)
           ELSE UNCHANGED memoryVars
      /\ Complete("SysMemShare", context, error,
                  IF error = "Ok" THEN next_shared_id ELSE 0)
      /\ UNCHANGED <<taskVars, hostVars>>

\* Fault: the handler sets the flag itself.
SysMemSeal_Direct(context, id) ==
  LET error == Memory!SealResult(id)
  IN  /\ Dispatched("SysMemSeal", context)
      /\ shared_regions' = [i \in DOMAIN shared_regions |->
                              IF i \in Memory!Finds(id)
                                THEN [shared_regions[i] EXCEPT !.sealed = TRUE]
                                ELSE shared_regions[i]]
      /\ Complete("SysMemSeal", context, error, IF error = "Ok" THEN id ELSE 0)
      /\ UNCHANGED <<taskVars, hostVars, allocator_phase, bounds, alignment,
                     next_shared_id>>

SysMemSeal(context, id) ==
  LET error == Memory!SealResult(id)
  IN  /\ Dispatched("SysMemSeal", context)
      /\ IF error = "Ok" THEN Memory!SealSharedRegion(id) ELSE UNCHANGED memoryVars
      /\ Complete("SysMemSeal", context, error, IF error = "Ok" THEN id ELSE 0)
      /\ UNCHANGED <<taskVars, hostVars>>

SysDeviceOpen(context, id) ==
  LET error == Devices!OpenResult(id, context.capabilities)
  IN  /\ Dispatched("SysDeviceOpen", context)
      /\ Complete("SysDeviceOpen", context, error, IF error = "Ok" THEN id ELSE 0)
      /\ UNCHANGED <<taskVars, memoryVars, hostVars>>

\* sys_device_call; "unknown" stands for an operation code from_raw refuses.
SysDeviceCall(context, id, operation, input_len, output_len) ==
  LET error == IF operation = "unknown" THEN "InvalidArgument"
               ELSE Devices!CallResult(id, operation, context.capabilities,
                                       input_len, output_len)
  IN  /\ Dispatched("SysDeviceCall", context)
      /\ Complete("SysDeviceCall", context, error, 0)
      /\ UNCHANGED <<taskVars, memoryVars, hostVars>>

-----------------------------------------------------------------------------
(* The other calls *)

SysInfer(context, deadline) ==
  /\ Dispatched("SysInfer", context)
  /\ Complete("SysInfer", context, IF deadline = 0 THEN "DeadlineExceeded" ELSE "Ok", 0)
  /\ UNCHANGED <<taskVars, memoryVars, hostVars>>

\* The calls that are answered Ok without a look at their arguments.
AlwaysOk ==
  {"SysTime", "SysTraceContext", "SysTaskJoin", "SysMemQuery", "SysDeviceList",
   "SysDeviceClose", "SysModelList", "SysModelOpen", "SysMemoryQuery", "SysMemoryPut",
   "SysCapDerive", "SysCapRevoke", "SysAttest",
   "SysAuditAppend", "SysAuditQuery", "SysAuditVerify"}

\* Fault: the sequence of the newest event is returned, not of the next one.
Value_Newest(number) ==
  CASE number = "SysTime" -> tick
    [] number = "SysDeviceList" -> Devices!RegisteredCount
    [] number \in {"SysAuditAppend", "SysAuditVerify"} ->
         IF next_sequence = 0 THEN 0 ELSE next_sequence - 1
    [] OTHER -> 0

Value(number) ==
  CASE number = "SysTime" -> tick
    [] number = "SysDeviceList" -> Devices!RegisteredCount
    [] number = "SysAuditAppend" -> next_sequence
    [] number = "SysAuditVerify" -> IF next_sequence = 0 THEN 0 ELSE next_sequence - 1
    [] OTHER -> 0

SysAlwaysOk(number, context) ==
  /\ Dispatched(number, context)
  /\ Complete(number, context, "Ok", Value(number))
  /\ UNCHANGED <<taskVars, memoryVars, hostVars>>

-----------------------------------------------------------------------------
(* Boot *)

\* Fault: the result of the spawn is dropped.
InitializeHost_IgnoresSpawn ==
  /\ answer = NoAnswer /\ Boot!IsExpected("LoaderHandoff")
  /\ Memory!PhaseAllowed(allocator_phase, "BootBump")
  /\ allocator_phase' = "Heap"
  /\ Spawn(DefaultPriority)
  /\ boot_index' = Len(Boot!BOOT_SEQUENCE)
  /\ UNCHANGED <<bounds, alignment, shared_regions, next_shared_id, devices,
                 next_sequence, answer>>

(***************************************************************************)
(* initialize_host.  Its first boot.complete fails, with nothing done yet, *)
(* unless LoaderHandoff is the phase expected; a failure of the allocator  *)
(* or of the spawn leaves the phases before it completed.                  *)
(***************************************************************************)
InitializeHost ==
  /\ answer = NoAnswer /\ Boot!IsExpected("LoaderHandoff")
  /\ \/ /\ ~Memory!PhaseAllowed(allocator_phase, "BootBump")
        /\ boot_index' = Boot!PhasesBefore("Allocator")
        /\ UNCHANGED <<taskVars, allocator_phase>>
     \/ /\ Memory!PhaseAllowed(allocator_phase, "BootBump")
        /\ allocator_phase' = "Heap"
        /\ Spawn(DefaultPriority)
        /\ boot_index' = IF SpawnResult = "Ok" THEN Len(Boot!BOOT_SEQUENCE)
                         ELSE Boot!PhasesBefore("RuntimeSpawn")
  /\ UNCHANGED <<bounds, alignment, shared_regions, next_shared_id, devices,
                 next_sequence, answer>>

\* The caller takes the result.
Return ==
  /\ answer # NoAnswer
  /\ answer' = NoAnswer
  /\ UNCHANGED <<taskVars, memoryVars, hostVars, next_sequence>>

-----------------------------------------------------------------------------

\* Kernel::new
Init ==
  /\ Tasks!Init /\ Memory!Init /\ Devices!Init /\ Boot!Init
  /\ next_sequence = 1
  /\ answer = NoAnswer

TaskCall(context) ==
  \/ SysExit(context) \/ SysYield(context)
  \/ \E id \in Task : SysTaskCancel(context, id) \/ SysTaskStatus(context, id)
  \/ \E range \in Range, priority \in Priority : SysTaskSpawn(context, range, priority)

MemoryCall(context) ==
  \/ \E range \in Range :
       \/ \E number \in {"SysMemMap", "SysMemUnmap"} : SysMemRange(number, context, range)
       \/ \E flags \in SUBSET {"READ", "WRITE", "unknown"} :
            SysOutput("SysInfo", context, range, flags)
       \/ SysOutput("SysRandom", context, range, {"WRITE"})
       \/ \E permissions \in SUBSET (Permission \cup {"unknown"}) :
            SysMemShare(context, range, permissions)
  \/ \E id \in 0..(MaxShared + 1) : SysMemSeal(context, id)

DeviceCall(context) ==
  \E id \in Devices!DeviceId :
    \/ SysDeviceOpen(context, id)
    \/ \E operation \in Operation \cup {"unknown"}, in_len, out_len \in 0..MaxLen :
         SysDeviceCall(context, id, operation, in_len, out_len)

OtherCall(context) ==
  \/ \E deadline \in {0, 1} : SysInfer(context, deadline)
  \/ \E number \in AlwaysOk : SysAlwaysOk(number, context)

HandleSyscall(context) ==
  \/ \E number \in Callable : Reject(number, context)
  \/ TaskCall(context) \/ MemoryCall(context) \/ DeviceCall(context) \/ OtherCall(context)

\* What the two methods of Kernel may do.
KernelNext ==
  \/ \E context \in Context : HandleSyscall(context)
  \/ Return
  \/ InitializeHost
=============================================================================
