---------------------------- MODULE KernelProofs ----------------------------
(***************************************************************************)
(* The hosted kernel keeps what its parts promise, and answers, audits and *)
(* reports every call as HostedKernel says.                                *)
(***************************************************************************)
EXTENDS HostedKernel, TLAPS

\* The theorems about the parts, for the variables and constants the kernel gives them.
TaskProofs == INSTANCE SchedulerTaskProofs WITH
  slots <- tasks, U64Max <- TickMax,
  SpawnArgs <- {RuntimeArg(p) : p \in 0..U8Max} \cup HostSpawn

MemoryProofs == INSTANCE MemoryManagerProofs WITH
  U64Max <- AddrMax, CallerRange <- Range, HostValue <- {}

DevicesProofs == INSTANCE DeviceProofs WITH slots <- devices

-----------------------------------------------------------------------------
(* The instances above, and those of Kernel, are the same formulas *)

LEMMA TaskAssumptions ==
  /\ TaskProofs!SizesAssumption /\ TaskProofs!ClassAssumption
  /\ TaskProofs!SpawnArgsAssumption /\ TaskProofs!AgeAssumption
  BY PartsAssumption
  DEF Tasks!SizesAssumption, TaskProofs!SizesAssumption,
      Tasks!ClassAssumption, TaskProofs!ClassAssumption,
      Tasks!SpawnArgsAssumption, TaskProofs!SpawnArgsAssumption,
      Tasks!AgeAssumption, TaskProofs!AgeAssumption

LEMMA MemoryAssumption == MemoryProofs!ManagerAssumption
  BY PartsAssumption DEF Memory!ManagerAssumption, MemoryProofs!ManagerAssumption

LEMMA DeviceAssumption == DevicesProofs!RegistryAssumption
  BY PartsAssumption
  DEF Devices!RegistryAssumption, DevicesProofs!RegistryAssumption,
      Devices!DeviceOperation, DevicesProofs!DeviceOperation,
      Devices!DeviceDescriptor, DevicesProofs!DeviceDescriptor,
      Devices!DeviceLifecycle, DevicesProofs!DeviceLifecycle

(***************************************************************************)
(* Both instances of Scheduler expand to the same formulas over tasks, so  *)
(* what its proofs say of one holds of the other; likewise below.          *)
(***************************************************************************)
LEMMA SameScheduler ==
  /\ TaskProofs!Init <=> Tasks!Init
  /\ TaskProofs!Next <=> Tasks!Next
  /\ TaskProofs!TypeOK <=> Tasks!TypeOK
  /\ TaskProofs!QueueCoherent <=> Tasks!QueueCoherent
  /\ TaskProofs!CurrentRuns <=> Tasks!CurrentRuns
  /\ TaskProofs!SwitchesWithinTicks <=> Tasks!SwitchesWithinTicks
  /\ TaskProofs!PriorityIsAged <=> Tasks!PriorityIsAged
  /\ TaskProofs!ScheduleNext <=> Tasks!ScheduleNext
  /\ TaskProofs!YieldIdle <=> Tasks!YieldIdle
  /\ TaskProofs!YieldCurrent <=> Tasks!YieldCurrent
  /\ TaskProofs!YieldAtLastTick <=> Tasks!YieldAtLastTick
  /\ TaskProofs!vars = taskVars
  /\ TaskProofs!QueuedIds = Tasks!QueuedIds
  /\ TaskProofs!EndedIds = Ended
  /\ TaskProofs!QueuedIds' = Tasks!QueuedIds'
  /\ \A id : TaskProofs!Cancel(id) <=> Tasks!Cancel(id)
  /\ \A arg : TaskProofs!SpawnInserted(arg) <=> Tasks!SpawnInserted(arg)
  /\ TaskProofs!CoopNext <=> Tasks!CoopNext
  /\ TaskProofs!FacadeNext <=> Tasks!FacadeNext
  /\ TaskProofs!OnlyCurrentRuns <=> Tasks!OnlyCurrentRuns
  /\ TaskProofs!WaitBounded <=> Tasks!WaitBounded
  /\ TaskProofs!BudgetAccounts <=> Tasks!BudgetAccounts
  /\ TaskProofs!BudgetSpent <=> Tasks!BudgetSpent
<1> USE DEF
  TaskProofs!Slot, Tasks!Slot, TaskProofs!NoTask, Tasks!NoTask, TaskProofs!TaskState,
  Tasks!TaskState, TaskProofs!TaskControlBlock, Tasks!TaskControlBlock,
  TaskProofs!EmptySlot, Tasks!EmptySlot, TaskProofs!Occupied, Tasks!Occupied,
  TaskProofs!QueuedIds, Tasks!QueuedIds, TaskProofs!SlotsOf, Tasks!SlotsOf,
  TaskProofs!IsFirstFree, Tasks!IsFirstFree, TaskProofs!InsertResult, Tasks!InsertResult,
  TaskProofs!NewTask, Tasks!NewTask, TaskProofs!IsRunnable, Tasks!IsRunnable,
  TaskProofs!DeadlineExpired, Tasks!DeadlineExpired, TaskProofs!Score, Tasks!Score,
  TaskProofs!IsBest, Tasks!IsBest, TaskProofs!AgedPriority, Tasks!AgedPriority,
  TaskProofs!Selected, Tasks!Selected, TaskProofs!Aged, Tasks!Aged, TaskProofs!PassedOver,
  Tasks!PassedOver, TaskProofs!Dispatch, Tasks!Dispatch, TaskProofs!ValidTransition,
  Tasks!ValidTransition, TaskProofs!CurrentWithout, Tasks!CurrentWithout,
  TaskProofs!CanConsumeTick, Tasks!CanConsumeTick, TaskProofs!Yielded, Tasks!Yielded,
  TaskProofs!Init, Tasks!Init, TaskProofs!SpawnInserted, Tasks!SpawnInserted,
  TaskProofs!SpawnRejected, Tasks!SpawnRejected, TaskProofs!Transition, Tasks!Transition,
  TaskProofs!Cancel, Tasks!Cancel, TaskProofs!ScheduleNext, Tasks!ScheduleNext,
  TaskProofs!YieldIdle, Tasks!YieldIdle, TaskProofs!YieldCurrent, Tasks!YieldCurrent,
  TaskProofs!YieldAtLastTick, Tasks!YieldAtLastTick, TaskProofs!FacadeNext,
  Tasks!FacadeNext, TaskProofs!CoopNext, Tasks!CoopNext, TaskProofs!Next, Tasks!Next,
  TaskProofs!vars, Tasks!vars, TaskProofs!TypeOK, Tasks!TypeOK, TaskProofs!CurrentRuns,
  Tasks!CurrentRuns, TaskProofs!QueueCoherent, Tasks!QueueCoherent,
  TaskProofs!SwitchesWithinTicks, Tasks!SwitchesWithinTicks, TaskProofs!PriorityIsAged,
  Tasks!PriorityIsAged, taskVars, TaskProofs!EndedIds, Ended, TaskProofs!OnlyCurrentRuns,
  Tasks!OnlyCurrentRuns, TaskProofs!MaxAdvantage, Tasks!MaxAdvantage, TaskProofs!WaitBound,
  Tasks!WaitBound, TaskProofs!WaitBounded, Tasks!WaitBounded, TaskProofs!BudgetAccounts,
  Tasks!BudgetAccounts, TaskProofs!BudgetSpent, Tasks!BudgetSpent
<1>1. TaskProofs!Init <=> Tasks!Init
  BY Zenon
<1>2. TaskProofs!Next <=> Tasks!Next
  BY Zenon
<1>3. TaskProofs!TypeOK <=> Tasks!TypeOK
  BY Zenon
<1>4. TaskProofs!QueueCoherent <=> Tasks!QueueCoherent
  BY Zenon
<1>5. TaskProofs!CurrentRuns <=> Tasks!CurrentRuns
  BY Zenon
<1>6. TaskProofs!SwitchesWithinTicks <=> Tasks!SwitchesWithinTicks
  BY Zenon
<1>7. TaskProofs!PriorityIsAged <=> Tasks!PriorityIsAged
  BY Zenon
<1>8. TaskProofs!ScheduleNext <=> Tasks!ScheduleNext
  BY Zenon
<1>9. TaskProofs!YieldIdle <=> Tasks!YieldIdle
  BY Zenon
<1>10. TaskProofs!YieldCurrent <=> Tasks!YieldCurrent
  BY Zenon
<1>11. TaskProofs!YieldAtLastTick <=> Tasks!YieldAtLastTick
  BY Zenon
<1>12. TaskProofs!vars = taskVars
  BY Zenon
<1>13. TaskProofs!QueuedIds = Tasks!QueuedIds
  BY Zenon
<1>14. TaskProofs!EndedIds = Ended
  BY Zenon
<1>15. TaskProofs!QueuedIds' = Tasks!QueuedIds'
  BY Zenon
<1>16. \A id : TaskProofs!Cancel(id) <=> Tasks!Cancel(id)
  BY Zenon
<1>17. \A arg : TaskProofs!SpawnInserted(arg) <=> Tasks!SpawnInserted(arg)
  BY Zenon
<1>18. TaskProofs!CoopNext <=> Tasks!CoopNext
  BY Zenon
<1>19. TaskProofs!FacadeNext <=> Tasks!FacadeNext
  BY Zenon
<1>20. TaskProofs!OnlyCurrentRuns <=> Tasks!OnlyCurrentRuns
  BY Zenon
<1>21. TaskProofs!WaitBounded <=> Tasks!WaitBounded
  BY Zenon
<1>22. TaskProofs!BudgetAccounts <=> Tasks!BudgetAccounts
  BY Zenon
<1>23. TaskProofs!BudgetSpent <=> Tasks!BudgetSpent
  BY Zenon
<1>24. QED
  BY Zenon, <1>1, <1>2, <1>3, <1>4, <1>5, <1>6, <1>7, <1>8, <1>9, <1>10, <1>11, <1>12,
     <1>13, <1>14, <1>15, <1>16, <1>17, <1>18, <1>19, <1>20, <1>21, <1>22, <1>23

LEMMA SameManager ==
  /\ MemoryProofs!Init <=> Memory!Init
  /\ MemoryProofs!Next <=> Memory!Next
  /\ MemoryProofs!TypeOK <=> Memory!TypeOK
  /\ MemoryProofs!RangeCheckIsExact <=> Memory!RangeCheckIsExact
  /\ MemoryProofs!IdsNameSlots <=> Memory!IdsNameSlots
  /\ MemoryProofs!SealIsCoherent <=> Memory!SealIsCoherent
  /\ MemoryProofs!vars = memoryVars
  /\ MemoryProofs!Phase = Memory!Phase
  /\ MemoryProofs!Slot = Memory!Slot /\ MemoryProofs!NoRegion = Memory!NoRegion
  /\ \A owner_task, start, len, permissions :
       MemoryProofs!ShareRegion(owner_task, start, len, permissions)
         <=> Memory!ShareRegion(owner_task, start, len, permissions)
  /\ \A id : MemoryProofs!SealSharedRegion(id) <=> Memory!SealSharedRegion(id)
<1> USE DEF
  MemoryProofs!Slot, Memory!Slot, MemoryProofs!Address, Memory!Address,
  MemoryProofs!NoRegion, Memory!NoRegion, MemoryProofs!Phase, Memory!Phase,
  MemoryProofs!PowerOfTwo, Memory!PowerOfTwo, MemoryProofs!SharedRegion,
  Memory!SharedRegion, MemoryProofs!EmptyRegion, Memory!EmptyRegion,
  MemoryProofs!RangeResult, Memory!RangeResult, MemoryProofs!IsFree, Memory!IsFree,
  MemoryProofs!IsFirstFree, Memory!IsFirstFree, MemoryProofs!Finds, Memory!Finds,
  MemoryProofs!ShareResult, Memory!ShareResult, MemoryProofs!Sealed, Memory!Sealed,
  MemoryProofs!Init, Memory!Init, MemoryProofs!PhaseAllowed, Memory!PhaseAllowed,
  MemoryProofs!SetAllocatorPhase, Memory!SetAllocatorPhase, MemoryProofs!SetUserBounds,
  Memory!SetUserBounds, MemoryProofs!SetMaxUserBufferLen, Memory!SetMaxUserBufferLen,
  MemoryProofs!AlignmentAllowed, Memory!AlignmentAllowed,
  MemoryProofs!SetMinimumUserAlignment, Memory!SetMinimumUserAlignment,
  MemoryProofs!ShareRegion, Memory!ShareRegion, MemoryProofs!SealSharedRegion,
  Memory!SealSharedRegion, MemoryProofs!Next, Memory!Next, MemoryProofs!vars, Memory!vars,
  MemoryProofs!TypeOK, Memory!TypeOK, MemoryProofs!Bytes, Memory!Bytes,
  MemoryProofs!RangeCheckIsExact, Memory!RangeCheckIsExact, MemoryProofs!IdsNameSlots,
  Memory!IdsNameSlots, MemoryProofs!SealIsCoherent, Memory!SealIsCoherent, memoryVars
<1>1. MemoryProofs!Init <=> Memory!Init
  BY Zenon
<1>2. MemoryProofs!Next <=> Memory!Next
  BY Zenon
<1>3. MemoryProofs!TypeOK <=> Memory!TypeOK
  BY Zenon
<1>4. MemoryProofs!RangeCheckIsExact <=> Memory!RangeCheckIsExact
  BY Zenon
<1>5. MemoryProofs!IdsNameSlots <=> Memory!IdsNameSlots
  BY Zenon
<1>6. MemoryProofs!SealIsCoherent <=> Memory!SealIsCoherent
  BY Zenon
<1>7. MemoryProofs!vars = memoryVars
  BY Zenon
<1>8. MemoryProofs!Phase = Memory!Phase
  BY Zenon
<1>9. MemoryProofs!Slot = Memory!Slot /\ MemoryProofs!NoRegion = Memory!NoRegion
  BY Zenon
<1>10. ASSUME NEW owner_task, NEW start, NEW len, NEW permissions
       PROVE  MemoryProofs!ShareRegion(owner_task, start, len, permissions)
                <=> Memory!ShareRegion(owner_task, start, len, permissions)
  BY Zenon
<1>11. \A id : MemoryProofs!SealSharedRegion(id) <=> Memory!SealSharedRegion(id)
  BY Zenon
<1>12. QED
  BY Zenon, <1>1, <1>2, <1>3, <1>4, <1>5, <1>6, <1>7, <1>8, <1>9, <1>10, <1>11

LEMMA SameRegistry ==
  /\ DevicesProofs!Init <=> Devices!Init
  /\ DevicesProofs!Next <=> Devices!Next
  /\ DevicesProofs!TypeOK <=> Devices!TypeOK
<1> USE DEF
  DevicesProofs!DeviceId, Devices!DeviceId, DevicesProofs!NoDevice, Devices!NoDevice,
  DevicesProofs!SlotsOf, Devices!SlotsOf, DevicesProofs!Get, Devices!Get,
  DevicesProofs!RegisterResult, Devices!RegisterResult, DevicesProofs!IsAvailable,
  Devices!IsAvailable, DevicesProofs!Supports, Devices!Supports,
  DevicesProofs!HoldsRequired, Devices!HoldsRequired, DevicesProofs!OpenResult,
  Devices!OpenResult, DevicesProofs!CallResult, Devices!CallResult, DevicesProofs!Init,
  Devices!Init, DevicesProofs!Register, Devices!Register, DevicesProofs!Next,
  Devices!Next, DevicesProofs!TypeOK, Devices!TypeOK, DevicesProofs!AuthorityIsMonotone,
  Devices!AuthorityIsMonotone
<1>1. DevicesProofs!Init <=> Devices!Init
  BY Zenon
<1>2. DevicesProofs!Next <=> Devices!Next
  BY Zenon
<1>3. DevicesProofs!TypeOK <=> Devices!TypeOK
  BY Zenon
<1>4. QED
  BY Zenon, <1>1, <1>2, <1>3

-----------------------------------------------------------------------------
(* Statuses and results *)

LEMMA StatusOfError ==
  ASSUME NEW error \in KernelError \cup {"Ok"}
  PROVE  /\ Status(error) \in KernelStatus
         /\ Status(error) = "Ok" <=> error = "Ok"
         /\ error # "Ok" => Status(ErrorForStatus(Status(error))) = Status(error)
         /\ error # "Ok" => ErrorForStatus(Status(error)) \in KernelError
  BY DEF KernelError, KernelStatus, Status, ErrorForStatus

LEMMA NumberIsNoNone ==
  ASSUME NEW number \in Number \cup {UnknownNumber}
  PROVE  number # "None"
  BY DEF Number, UnknownNumber

LEMMA ValidateResult ==
  ASSUME NEW number, NEW context
  PROVE  /\ Validate(number, context) \in {"UnknownSyscall", "Busy", "MissingCapability", "Ok"}
         /\ Validate(number, context) = "Ok" =>
              /\ number \in Number
              /\ AllowsContext(number, context.execution)
              /\ Required(number) \subseteq context.capabilities
  BY DEF Validate

LEMMA RangeError ==
  ASSUME NEW ptr, NEW len
  PROVE  Memory!RangeResult(ptr, len) \in
           {"InvalidUserBuffer", "BufferTooLarge", "BufferOutOfRange", "Ok"}
  BY DEF Memory!RangeResult

LEMMA BufferError ==
  ASSUME NEW buffer, NEW access
  PROVE  /\ Memory!BufferResult(buffer, access) \in
              {"ReservedBits", "PermissionDenied", "InvalidUserBuffer", "BufferTooLarge",
               "BufferOutOfRange", "Ok"}
         /\ Memory!AccessFlags(access) \subseteq buffer.flags =>
              Memory!BufferResult(buffer, access) # "PermissionDenied"
  BY RangeError DEF Memory!BufferResult

LEMMA DeviceError ==
  ASSUME NEW id, NEW caller, NEW operation, NEW input_len, NEW output_len
  PROVE  /\ Devices!OpenResult(id, caller) \in {"MissingCapability", "NotFound", "Busy", "Ok"}
         /\ Devices!CallResult(id, operation, caller, input_len, output_len) \in
              {"MissingCapability", "NotFound", "Busy", "InvalidArgument",
               "BufferTooLarge", "Ok"}
  BY DEF Devices!OpenResult, Devices!CallResult

LEMMA SpawnError ==
  /\ SpawnResult \in {"Internal", "InvalidArgument", "Duplicate", "CapacityExceeded", "Ok"}
  /\ \A range, priority :
       SpawnArgsResult(range, priority) \in
         {"ReservedBits", "PermissionDenied", "InvalidUserBuffer", "BufferTooLarge",
          "BufferOutOfRange", "InvalidArgument", "Ok"}
  BY BufferError DEF SpawnResult, Tasks!InsertResult, SpawnArgsResult, ManifestResult

\* Which calls have an audit event, and what the calls that change something require.
LEMMA SyscallTable ==
  /\ \A number \in {"SysExit", "SysTaskCancel", "SysTaskSpawn", "SysMemShare", "SysMemSeal",
                    "SysMemMap", "SysMemUnmap", "SysDeviceOpen", "SysDeviceCall",
                    "SysInfer", "SysAuditAppend", "SysAuditVerify"} :
       AuditEvent(number) # NoEvent
  /\ \A number \in Number : AuditEvent(number) # NoEvent => number \notin SafeAnywhere
  /\ Required("SysTaskSpawn") = {"TaskSpawn"} /\ Required("SysTaskCancel") = {"TaskManage"}
  /\ Required("SysMemShare") = {"MemoryShare"} /\ Required("SysMemSeal") = {"MemoryShare"}
  BY DEF AuditEvent, NoEvent, Required, Number, SafeAnywhere

-----------------------------------------------------------------------------
(* What a call leaves in answer *)

\* The audit record of a dispatched call, if it has one, and its fault, if it failed.
AuditOf(number, context, status) ==
  IF AuditEvent(number) = NoEvent THEN << >>
  ELSE <<AuditRecord(AuditEvent(number), number, context, status)>>

FaultOf(context, status) ==
  IF status = "Ok" THEN << >>
  ELSE <<FaultRecord(FaultKindForStatus(status), "Warning", context,
                     ErrorForStatus(status), "Runtime")>>

LEMMA AnswerFields ==
  ASSUME NEW number \in Number \cup {UnknownNumber}, NEW context, NEW error, NEW value,
         NEW audited, NEW faulted, Answer(number, context, error, value, audited, faulted)
  PROVE  /\ answer = NoAnswer /\ answer' # NoAnswer
         /\ answer'.number = number /\ answer'.context = context
         /\ answer'.status = Status(error) /\ answer'.value = value
         /\ answer'.audited = audited /\ answer'.faulted = faulted
         /\ next_sequence' = (next_sequence + Len(audited)) % SeqSpace
<1>1. /\ answer'.number = number /\ answer'.context = context
      /\ answer'.status = Status(error) /\ answer'.value = value
      /\ answer'.audited = audited /\ answer'.faulted = faulted
  BY DEF Answer
<1>2. number # "None" /\ NoAnswer.number = "None"
  BY NumberIsNoNone DEF NoAnswer
<1>3. QED
  BY <1>1, <1>2 DEF Answer

LEMMA CompleteAnswers ==
  ASSUME NEW number \in Number, NEW context, NEW error, NEW value,
         Complete(number, context, error, value)
  PROVE  /\ answer = NoAnswer /\ answer' # NoAnswer
         /\ answer'.number = number /\ answer'.context = context
         /\ answer'.status = Status(error) /\ answer'.value = value
         /\ answer'.audited = AuditOf(number, context, Status(error))
         /\ answer'.faulted = FaultOf(context, Status(error))
         /\ next_sequence' =
              (next_sequence + Len(AuditOf(number, context, Status(error)))) % SeqSpace
<1>1. Answer(number, context, error, value,
             AuditOf(number, context, Status(error)), FaultOf(context, Status(error)))
  BY Zenon DEF Complete, AuditOf, FaultOf
<1>2. QED
  BY <1>1, AnswerFields

\* What record_rejected_syscall writes.
RejectAudit(number, context, error) ==
  IF RejectedEvent(number, error) = NoEvent THEN << >>
  ELSE <<AuditRecord(RejectedEvent(number, error), number, context, Status(error))>>

RejectFault(context, error) ==
  <<FaultRecord(RejectedFault(error),
                IF Status(error) = "PermissionDenied" THEN "Error" ELSE "Warning",
                context, error,
                IF context.execution = "EarlyBoot" THEN "Boot" ELSE "Runtime")>>

LEMMA RejectAnswers ==
  ASSUME NEW number \in Callable, NEW context, Reject(number, context),
         NEW error, error = Validate(number, context)
  PROVE  /\ number \in Number \cup {UnknownNumber}
         /\ error \in {"UnknownSyscall", "Busy", "MissingCapability"}
         /\ answer = NoAnswer /\ answer' # NoAnswer
         /\ answer'.number = number /\ answer'.context = context
         /\ answer'.status = Status(error) /\ answer'.value = 0
         /\ answer'.audited = RejectAudit(number, context, error)
         /\ answer'.faulted = RejectFault(context, error)
         /\ next_sequence' =
              (next_sequence + Len(RejectAudit(number, context, error))) % SeqSpace
         /\ UNCHANGED <<taskVars, memoryVars, hostVars>>
<1>1. number \in Number \cup {UnknownNumber}
  BY KernelAssumption
<1>2. error \in {"UnknownSyscall", "Busy", "MissingCapability"}
  BY ValidateResult DEF Reject
<1>3. /\ Answer(number, context, error, 0, RejectAudit(number, context, error),
                RejectFault(context, error))
      /\ UNCHANGED <<taskVars, memoryVars, hostVars>>
  BY DEF Reject, RejectAudit, RejectFault
<1>4. QED
  BY <1>1, <1>2, <1>3, AnswerFields

-----------------------------------------------------------------------------
(* What a dispatched call changes *)

TaskEffect(number, context, error) ==
  \/ UNCHANGED taskVars
  \/ /\ number = "SysExit" /\ error = "Ok"
     /\ Tasks!Cancel(context.task)
  \/ /\ number = "SysTaskCancel" /\ error = "Ok"
     /\ \E id : Tasks!Cancel(id)
  \/ /\ number = "SysYield" /\ error = "Ok"
     /\ Tasks!YieldIdle \/ Tasks!YieldCurrent
  \/ /\ number = "SysYield" /\ error = "Internal"
     /\ Tasks!YieldAtLastTick
  \/ /\ number = "SysTaskSpawn" /\ error = "Ok"
     /\ \E p \in 0..U8Max : Tasks!SpawnInserted(RuntimeArg(p))
  \/ /\ number = "SysTaskSpawn" /\ error # "Ok"
     /\ Tasks!SpawnRejected

MemoryEffect(number, context, error) ==
  \/ UNCHANGED memoryVars
  \/ /\ number = "SysMemShare" /\ error = "Ok"
     /\ \E range \in Range, permissions \in SUBSET Permission :
          Memory!ShareRegion(context.task, range.start, range.len, permissions)
  \/ /\ number = "SysMemSeal" /\ error = "Ok"
     /\ \E id \in 0..AddrMax : Memory!SealSharedRegion(id)

\* What a call has done, and the value it returns, when it succeeded.
Done(number, context, value) ==
  /\ number = "SysTaskSpawn" =>
       value = next_task_id /\ \E p \in 0..U8Max : Tasks!SpawnInserted(RuntimeArg(p))
  /\ number = "SysTaskCancel" => Tasks!Cancel(value)
  /\ number = "SysExit" => Tasks!Cancel(context.task)
  /\ number = "SysMemShare" =>
       /\ value = next_shared_id
       /\ \E range \in Range, permissions \in SUBSET Permission :
            Memory!ShareRegion(context.task, range.start, range.len, permissions)
  /\ number = "SysMemSeal" => value \in 0..AddrMax /\ Memory!SealSharedRegion(value)
  /\ number \in {"SysAuditAppend", "SysAuditVerify"} => value = Value(number)

\* Why a yield may fail.
YieldAnswers(error) ==
  \/ error = "Ok"
  \/ error = "DeadlineExceeded" /\ Tasks!BudgetSpent
  \/ error = "Internal" /\ tick = TickMax

(***************************************************************************)
(* A call that was dispatched: what it answers, what it changes, and that  *)
(* only a call with an audit event, or sys_info, can be denied by its      *)
(* handler.                                                                *)
(***************************************************************************)
Completed(number, context, error, value) ==
  /\ number \in Number /\ error \in KernelError \cup {"Ok"}
  /\ Validate(number, context) = "Ok"
  /\ Complete(number, context, error, value)
  /\ TaskEffect(number, context, error)
  /\ MemoryEffect(number, context, error)
  /\ UNCHANGED hostVars
  /\ Status(error) = "PermissionDenied" /\ number # "SysInfo" => AuditEvent(number) # NoEvent
  /\ error = "Ok" => Done(number, context, value)
  /\ number = "SysYield" => YieldAnswers(error)

IsCompleted(context) ==
  \E number, error, value : Completed(number, context, error, value)

\* A call that changes nothing.
LEMMA QuietCall ==
  ASSUME NEW number, NEW context, NEW error \in KernelError \cup {"Ok"}, NEW value,
         Dispatched(number, context), Complete(number, context, error, value),
         UNCHANGED <<taskVars, memoryVars, hostVars>>,
         Status(error) = "PermissionDenied" /\ number # "SysInfo" =>
           AuditEvent(number) # NoEvent,
         error = "Ok" => Done(number, context, value), number # "SysYield"
  PROVE  IsCompleted(context)
<1>1. Completed(number, context, error, value)
  BY ValidateResult DEF Completed, Dispatched, TaskEffect, MemoryEffect
<1>2. QED
  BY <1>1, Zenon DEF IsCompleted

LEMMA ExitOrCancelCompletes ==
  ASSUME NEW context \in Context, NEW number \in {"SysExit", "SysTaskCancel"}, NEW id,
         number = "SysExit" => id = context.task, CancelTask(number, context, id)
  PROVE  IsCompleted(context)
<1> DEFINE error == CancelResult(id)
           value == IF error = "Ok" THEN id ELSE 0
<1>1. /\ Dispatched(number, context) /\ Complete(number, context, error, value)
      /\ UNCHANGED <<memoryVars, hostVars>>
      /\ IF error = "Ok" THEN Tasks!Cancel(id) ELSE UNCHANGED taskVars
  BY DEF CancelTask
<1>2. error \in {"NotFound", "InvalidState", "Ok"}
  BY DEF CancelResult
<1>3. AuditEvent(number) # NoEvent /\ (error = "Ok" => value = id)
  BY SyscallTable
<1> HIDE DEF error, value
<1>4. Validate(number, context) = "Ok" /\ number \in Number
  BY <1>1, ValidateResult DEF Dispatched
<1>5. TaskEffect(number, context, error) /\ (error = "Ok" => Done(number, context, value))
  BY <1>1, <1>3 DEF TaskEffect, Done
<1>6. Completed(number, context, error, value)
  BY <1>1, <1>2, <1>3, <1>4, <1>5 DEF Completed, MemoryEffect, KernelError
<1>7. QED
  BY <1>6, Zenon DEF IsCompleted

LEMMA YieldCompletes ==
  ASSUME NEW context \in Context, SysYield(context)
  PROVE  IsCompleted(context)
<1>1. PICK error, value :
        /\ error \in {"Ok", "DeadlineExceeded", "Internal"}
        /\ Complete("SysYield", context, error, value)
        /\ \/ error = "Ok" /\ (Tasks!YieldIdle \/ Tasks!YieldCurrent)
           \/ error = "Internal" /\ Tasks!YieldAtLastTick
           \/ UNCHANGED taskVars
        /\ YieldAnswers(error)
  BY DEF SysYield, YieldAnswers
<1>2. Dispatched("SysYield", context) /\ UNCHANGED <<memoryVars, hostVars>>
  BY DEF SysYield
<1>3. Validate("SysYield", context) = "Ok" /\ "SysYield" \in Number
  BY <1>2, ValidateResult DEF Dispatched
<1>4. Status(error) # "PermissionDenied"
  BY <1>1 DEF Status
<1>5. TaskEffect("SysYield", context, error)
  BY <1>1 DEF TaskEffect
<1>6. Completed("SysYield", context, error, value)
  BY <1>1, <1>2, <1>3, <1>4, <1>5 DEF Completed, MemoryEffect, KernelError, Done
<1>7. QED
  BY <1>6, Zenon DEF IsCompleted

\* Scheduler::spawn, as the facade calls it, by its result.
LEMMA SpawnShape ==
  ASSUME NEW priority, Spawn(priority)
  PROVE  \/ SpawnResult = "Ok" /\ Tasks!SpawnInserted(RuntimeArg(priority))
         \/ SpawnResult # "Ok" /\ (Tasks!SpawnRejected \/ UNCHANGED taskVars)
<1>1. TickMax \in Nat
  BY PartsAssumption DEF Tasks!SizesAssumption
<1>2. CASE Tasks!SpawnInserted(RuntimeArg(priority))
  <2>1. next_task_id < TickMax /\ Tasks!InsertResult(next_task_id) = "Ok"
    BY <1>2 DEF Tasks!SpawnInserted
  <2>2. SpawnResult = "Ok"
    BY <1>1, <2>1 DEF SpawnResult
  <2>3. QED
    BY <1>2, <2>2
<1>3. CASE Tasks!SpawnRejected
  BY <1>1, <1>3 DEF Tasks!SpawnRejected, SpawnResult
<1>4. CASE next_task_id = TickMax /\ UNCHANGED taskVars
  BY <1>4 DEF SpawnResult
<1>5. QED
  BY <1>2, <1>3, <1>4 DEF Spawn

LEMMA SpawnCompletes ==
  ASSUME NEW context \in Context, NEW range \in Range, NEW priority \in Priority,
         SysTaskSpawn(context, range, priority)
  PROVE  IsCompleted(context)
<1> DEFINE badArgs == SpawnArgsResult(range, priority)
           error == IF badArgs # "Ok" THEN badArgs ELSE SpawnResult
           value == IF error = "Ok" THEN next_task_id ELSE 0
           p == IF priority = 0 THEN DefaultPriority ELSE priority
<1>1. /\ Dispatched("SysTaskSpawn", context) /\ Complete("SysTaskSpawn", context, error, value)
      /\ UNCHANGED <<memoryVars, hostVars>>
      /\ IF badArgs = "Ok" THEN Spawn(p) ELSE UNCHANGED taskVars
  BY DEF SysTaskSpawn
<1>2. error \in KernelError \cup {"Ok"}
  BY SpawnError DEF KernelError
<1>3. badArgs = "Ok" => p \in 0..U8Max
  BY KernelAssumption, PartsAssumption DEF SpawnArgsResult, Tasks!SizesAssumption
<1>4. badArgs = "Ok" => error = SpawnResult
  OBVIOUS
<1>5. badArgs # "Ok" => error # "Ok"
  OBVIOUS
<1>6. error = "Ok" => value = next_task_id
  OBVIOUS
<1> HIDE DEF error, value, badArgs, p
<1>7. /\ TaskEffect("SysTaskSpawn", context, error)
      /\ error = "Ok" => Done("SysTaskSpawn", context, value)
  BY <1>1, <1>3, <1>4, <1>5, <1>6, SpawnShape DEF TaskEffect, Done
<1>8. Validate("SysTaskSpawn", context) = "Ok" /\ "SysTaskSpawn" \in Number
  BY <1>1, ValidateResult DEF Dispatched
<1>9. Completed("SysTaskSpawn", context, error, value)
  BY <1>1, <1>2, <1>7, <1>8, SyscallTable DEF Completed, MemoryEffect
<1>10. QED
  BY <1>9, Zenon DEF IsCompleted

LEMMA ShareCompletes ==
  ASSUME NEW context \in Context, NEW range \in Range,
         NEW permissions \in SUBSET (Permission \cup {"unknown"}),
         SysMemShare(context, range, permissions)
  PROVE  IsCompleted(context)
<1> DEFINE error == IF Memory!PermissionsResult(permissions) # "Ok"
                      THEN Memory!PermissionsResult(permissions)
                    ELSE Memory!ShareResult(range.start, range.len, permissions)
           value == IF error = "Ok" THEN next_shared_id ELSE 0
<1>1. /\ Dispatched("SysMemShare", context) /\ Complete("SysMemShare", context, error, value)
      /\ UNCHANGED <<taskVars, hostVars>>
      /\ IF error = "Ok"
           THEN Memory!ShareRegion(context.task, range.start, range.len, permissions)
           ELSE UNCHANGED memoryVars
  BY DEF SysMemShare
<1>2. error \in KernelError \cup {"Ok"}
  BY RangeError DEF Memory!PermissionsResult, Memory!ShareResult, KernelError
<1>3. error = "Ok" => permissions \in SUBSET Permission /\ value = next_shared_id
  BY DEF Memory!PermissionsResult
<1> HIDE DEF error, value
<1>4. /\ MemoryEffect("SysMemShare", context, error)
      /\ error = "Ok" => Done("SysMemShare", context, value)
  BY <1>1, <1>3 DEF MemoryEffect, Done
<1>5. Validate("SysMemShare", context) = "Ok" /\ "SysMemShare" \in Number
  BY <1>1, ValidateResult DEF Dispatched
<1>6. Completed("SysMemShare", context, error, value)
  BY <1>1, <1>2, <1>4, <1>5, SyscallTable DEF Completed, TaskEffect
<1>7. QED
  BY <1>6, Zenon DEF IsCompleted

LEMMA SealCompletes ==
  ASSUME NEW context \in Context, NEW id \in 0..(MaxShared + 1), SysMemSeal(context, id)
  PROVE  IsCompleted(context)
<1> DEFINE error == Memory!SealResult(id)
           value == IF error = "Ok" THEN id ELSE 0
<1>1. /\ Dispatched("SysMemSeal", context) /\ Complete("SysMemSeal", context, error, value)
      /\ UNCHANGED <<taskVars, hostVars>>
      /\ IF error = "Ok" THEN Memory!SealSharedRegion(id) ELSE UNCHANGED memoryVars
  BY DEF SysMemSeal
<1>2. error \in {"NotFound", "Ok"}
  BY DEF Memory!SealResult
<1>3. id \in 0..AddrMax /\ (error = "Ok" => value = id)
  BY PartsAssumption DEF Memory!ManagerAssumption
<1> HIDE DEF error, value
<1>4. /\ MemoryEffect("SysMemSeal", context, error)
      /\ error = "Ok" => Done("SysMemSeal", context, value)
  BY <1>1, <1>3 DEF MemoryEffect, Done
<1>5. Validate("SysMemSeal", context) = "Ok" /\ "SysMemSeal" \in Number
  BY <1>1, ValidateResult DEF Dispatched
<1>6. Completed("SysMemSeal", context, error, value)
  BY <1>1, <1>2, <1>4, <1>5, SyscallTable DEF Completed, TaskEffect, KernelError
<1>7. QED
  BY <1>6, Zenon DEF IsCompleted

\* The calls of TaskCall, MemoryCall, DeviceCall and OtherCall that change nothing.
LEMMA StatusCompletes ==
  ASSUME NEW context \in Context, NEW id, SysTaskStatus(context, id)
  PROVE  IsCompleted(context)
<1> DEFINE error == IF Tasks!SlotsOf(id) = {} THEN "NotFound" ELSE "Ok"
<1>1. error \in KernelError \cup {"Ok"} /\ Status(error) # "PermissionDenied"
  BY DEF KernelError, Status
<1> HIDE DEF error
<1>2. /\ Dispatched("SysTaskStatus", context) /\ Complete("SysTaskStatus", context, error, 0)
      /\ UNCHANGED <<taskVars, memoryVars, hostVars>>
  BY DEF SysTaskStatus, error
<1>3. QED
  BY <1>1, <1>2, QuietCall DEF Done

LEMMA MapCompletes ==
  ASSUME NEW context \in Context, NEW number \in {"SysMemMap", "SysMemUnmap"}, NEW range,
         SysMemRange(number, context, range)
  PROVE  IsCompleted(context)
<1> DEFINE error == Memory!RangeResult(range.start, range.len)
<1>1. error \in KernelError \cup {"Ok"} /\ AuditEvent(number) # NoEvent
  BY RangeError, SyscallTable DEF KernelError
<1> HIDE DEF error
<1>2. /\ Dispatched(number, context) /\ Complete(number, context, error, 0)
      /\ UNCHANGED <<taskVars, memoryVars, hostVars>>
  BY DEF SysMemRange, error
<1>3. QED
  BY <1>1, <1>2, QuietCall DEF Done

\* sys_random asks for a buffer it has made writable itself, and is never denied it.
LEMMA OutputCompletes ==
  ASSUME NEW context \in Context, NEW number \in {"SysInfo", "SysRandom"}, NEW range,
         NEW flags, number = "SysRandom" => flags = {"WRITE"},
         SysOutput(number, context, range, flags)
  PROVE  IsCompleted(context)
<1> DEFINE buffer == Memory!UserBuffer(range.start, range.len, flags)
           error == Memory!BufferResult(buffer, "Write")
<1>1. error \in KernelError \cup {"Ok"}
  BY BufferError DEF KernelError
<1>2. number # "SysInfo" => error # "PermissionDenied"
  <2>1. buffer.flags = flags /\ Memory!AccessFlags("Write") = {"WRITE"}
    BY DEF Memory!UserBuffer, Memory!AccessFlags
  <2>2. QED
    BY <2>1, BufferError
<1>3. error # "MissingCapability"
  BY BufferError
<1> HIDE DEF error
<1>4. Status(error) = "PermissionDenied" => number = "SysInfo"
  BY <1>1, <1>2, <1>3 DEF Status, KernelError
<1>5. /\ Dispatched(number, context) /\ Complete(number, context, error, 0)
      /\ UNCHANGED <<taskVars, memoryVars, hostVars>>
  BY DEF SysOutput, error
<1>6. QED
  BY <1>1, <1>4, <1>5, QuietCall DEF Done

LEMMA OpenCompletes ==
  ASSUME NEW context \in Context, NEW id, SysDeviceOpen(context, id)
  PROVE  IsCompleted(context)
<1> DEFINE error == Devices!OpenResult(id, context.capabilities)
           value == IF error = "Ok" THEN id ELSE 0
<1>1. error \in KernelError \cup {"Ok"} /\ AuditEvent("SysDeviceOpen") # NoEvent
  BY DeviceError, SyscallTable DEF KernelError
<1> HIDE DEF error, value
<1>2. /\ Dispatched("SysDeviceOpen", context) /\ Complete("SysDeviceOpen", context, error, value)
      /\ UNCHANGED <<taskVars, memoryVars, hostVars>>
  BY DEF SysDeviceOpen, error, value
<1>3. QED
  BY <1>1, <1>2, QuietCall DEF Done

LEMMA DeviceCallCompletes ==
  ASSUME NEW context \in Context, NEW id, NEW operation, NEW input_len, NEW output_len,
         SysDeviceCall(context, id, operation, input_len, output_len)
  PROVE  IsCompleted(context)
<1> DEFINE error == IF operation = "unknown" THEN "InvalidArgument"
                    ELSE Devices!CallResult(id, operation, context.capabilities,
                                            input_len, output_len)
<1>1. error \in KernelError \cup {"Ok"} /\ AuditEvent("SysDeviceCall") # NoEvent
  BY DeviceError, SyscallTable DEF KernelError
<1> HIDE DEF error
<1>2. /\ Dispatched("SysDeviceCall", context) /\ Complete("SysDeviceCall", context, error, 0)
      /\ UNCHANGED <<taskVars, memoryVars, hostVars>>
  BY DEF SysDeviceCall, error
<1>3. QED
  BY <1>1, <1>2, QuietCall DEF Done

LEMMA OtherCompletes ==
  ASSUME NEW context \in Context, OtherCall(context)
  PROVE  IsCompleted(context)
<1>1. ASSUME NEW deadline, SysInfer(context, deadline)
      PROVE  IsCompleted(context)
  <2> DEFINE error == IF deadline = 0 THEN "DeadlineExceeded" ELSE "Ok"
  <2>1. error \in KernelError \cup {"Ok"} /\ AuditEvent("SysInfer") # NoEvent
    BY SyscallTable DEF KernelError
  <2> HIDE DEF error
  <2>2. /\ Dispatched("SysInfer", context) /\ Complete("SysInfer", context, error, 0)
        /\ UNCHANGED <<taskVars, memoryVars, hostVars>>
    BY <1>1 DEF SysInfer, error
  <2>3. QED
    BY <2>1, <2>2, QuietCall DEF Done
<1>2. ASSUME NEW number \in AlwaysOk, SysAlwaysOk(number, context)
      PROVE  IsCompleted(context)
  BY <1>2, QuietCall, StatusOfError DEF SysAlwaysOk, AlwaysOk, Done
<1>3. QED
  BY <1>1, <1>2 DEF OtherCall

(***************************************************************************)
(* Every call either is rejected by the validator, or was dispatched and   *)
(* completed.  All that follows about calls is derived from this.          *)
(***************************************************************************)
LEMMA CallShape ==
  ASSUME NEW context \in Context, HandleSyscall(context)
  PROVE  (\E number \in Callable : Reject(number, context)) \/ IsCompleted(context)
<1>1. CASE TaskCall(context)
  <2>1. ASSUME SysExit(context) PROVE IsCompleted(context)
    BY <2>1, ExitOrCancelCompletes DEF SysExit
  <2>2. ASSUME NEW id, SysTaskCancel(context, id) PROVE IsCompleted(context)
    BY <2>2, ExitOrCancelCompletes DEF SysTaskCancel
  <2>3. QED
    BY <1>1, <2>1, <2>2, YieldCompletes, StatusCompletes, SpawnCompletes DEF TaskCall
<1>2. CASE MemoryCall(context)
  BY <1>2, MapCompletes, OutputCompletes, ShareCompletes, SealCompletes DEF MemoryCall
<1>3. CASE DeviceCall(context)
  BY <1>3, OpenCompletes, DeviceCallCompletes DEF DeviceCall
<1>4. QED
  BY <1>1, <1>2, <1>3, OtherCompletes DEF HandleSyscall

-----------------------------------------------------------------------------
(* Boot *)

BootType == boot_index \in 0..Len(Boot!BOOT_SEQUENCE)

LEMMA BootOrder ==
  /\ Len(Boot!BOOT_SEQUENCE) = 14
  /\ \A i \in 1..14 : Boot!BOOT_SEQUENCE[i] = "LoaderHandoff" <=> i = 1
  /\ Boot!PhasesBefore("Allocator") = 6 /\ Boot!PhasesBefore("RuntimeSpawn") = 13
<1>1. /\ Len(Boot!BOOT_SEQUENCE) = 14 /\ DOMAIN Boot!BOOT_SEQUENCE = 1..14
      /\ \A i \in 1..14 : Boot!BOOT_SEQUENCE[i] = "LoaderHandoff" <=> i = 1
      /\ \A i \in 1..14 : Boot!BOOT_SEQUENCE[i] = "Allocator" <=> i = 7
      /\ \A i \in 1..14 : Boot!BOOT_SEQUENCE[i] = "RuntimeSpawn" <=> i = 14
  BY DEF Boot!BOOT_SEQUENCE
<1>2. (CHOOSE i \in DOMAIN Boot!BOOT_SEQUENCE : Boot!BOOT_SEQUENCE[i] = "Allocator") = 7
  BY <1>1
<1>3. (CHOOSE i \in DOMAIN Boot!BOOT_SEQUENCE : Boot!BOOT_SEQUENCE[i] = "RuntimeSpawn") = 14
  BY <1>1
<1>4. QED
  BY <1>1, <1>2, <1>3 DEF Boot!PhasesBefore

LEMMA BootSteps ==
  ASSUME BootType
  PROVE  /\ Boot!IsExpected("LoaderHandoff") => boot_index = 0
         /\ \A phase : Boot!Complete(phase) =>
              boot_index \in 0..13 /\ boot_index' = boot_index + 1
<1>1. boot_index \in 0..14
  BY BootOrder DEF BootType
<1>2. Boot!IsExpected("LoaderHandoff") => boot_index = 0
  BY <1>1, BootOrder DEF Boot!IsExpected, Boot!IsComplete
<1>3. \A phase : Boot!Complete(phase) => boot_index \in 0..13 /\ boot_index' = boot_index + 1
  BY <1>1, BootOrder DEF Boot!Complete, Boot!IsExpected, Boot!IsComplete
<1>4. QED
  BY <1>2, <1>3

\* How far initialize_host gets.
LEMMA BootStep ==
  ASSUME BootType, InitializeHost
  PROVE  /\ boot_index = 0 /\ boot_index' \in {6, 13, 14}
         /\ \/ boot_index' = 6 /\ UNCHANGED <<taskVars, allocator_phase>>
            \/ /\ Memory!PhaseAllowed(allocator_phase, "BootBump")
               /\ allocator_phase' = "Heap" /\ Spawn(DefaultPriority)
               /\ boot_index' = IF SpawnResult = "Ok" THEN 14 ELSE 13
  BY BootSteps, BootOrder DEF InitializeHost

-----------------------------------------------------------------------------
(* Every step of the kernel is a step of its parts *)

LEMMA RuntimeTasksSpawn ==
  /\ \A p \in 0..U8Max : RuntimeArg(p) \in {RuntimeArg(q) : q \in 0..U8Max} \cup HostSpawn
  /\ DefaultPriority \in 0..U8Max
  BY KernelAssumption

LEMMA CancelNames ==
  ASSUME NEW id, Tasks!Cancel(id)
  PROVE  id \in Tasks!QueuedIds
  BY DEF Tasks!Cancel, Tasks!SlotsOf, Tasks!QueuedIds

\* A spawn of the facade, at boot or for a task.
LEMMA SpawnIsFacadeStep ==
  ASSUME NEW priority \in 0..U8Max, Spawn(priority)
  PROVE  Tasks!FacadeNext \/ UNCHANGED taskVars
  BY RuntimeTasksSpawn DEF Spawn, Tasks!FacadeNext

LEMMA CallIsFacadeStep ==
  ASSUME NEW number, NEW context, NEW error, TaskEffect(number, context, error)
  PROVE  Tasks!FacadeNext \/ UNCHANGED taskVars
  BY RuntimeTasksSpawn, CancelNames DEF TaskEffect, Tasks!FacadeNext

\* Every call leaves an answer.
LEMMA CallAnswers ==
  ASSUME NEW context \in Context, HandleSyscall(context)
  PROVE  answer = NoAnswer /\ answer' # NoAnswer
  BY CallShape, RejectAnswers, CompleteAnswers DEF IsCompleted, Completed

LEMMA HostStepsAreHostSteps ==
  ASSUME BootType, HostCall
  PROVE  IsHostStep
<1>1. answer = NoAnswer /\ answer' = NoAnswer
  BY DEF HostCall, HostDrivesScheduler, HostMovesAllocator, HostAppends, HostRegisters,
         HostCompletes
<1>2. boot_index' = boot_index \/ boot_index' = boot_index + 1
  BY BootSteps DEF HostCall, HostDrivesScheduler, HostMovesAllocator, HostAppends,
                   HostRegisters, HostCompletes, hostVars
<1>3. boot_index \in Nat
  BY BootOrder DEF BootType
<1>4. QED
  BY <1>1, <1>2, <1>3 DEF IsHostStep

\* The host's own calls make steps of the scheduler's whole interface.
LEMMA HostSchedulerStep ==
  ASSUME HostCall
  PROVE  Tasks!Next \/ UNCHANGED taskVars
<1>1. CASE HostDrivesScheduler
  <2>1. ASSUME NEW arg \in HostSpawn, Tasks!SpawnInserted(arg)
        PROVE  Tasks!Next
    BY <2>1 DEF Tasks!Next, Tasks!CoopNext, Tasks!FacadeNext
  <2>2. ASSUME NEW id \in Tasks!QueuedIds, Tasks!Cancel(id)
        PROVE  Tasks!Next
    BY <2>2 DEF Tasks!Next, Tasks!CoopNext, Tasks!FacadeNext
  <2>3. ASSUME NEW id \in Tasks!QueuedIds, NEW to \in HostState, Tasks!Transition(id, to)
        PROVE  Tasks!Next
    BY <2>3, HostAssumption DEF Tasks!Next
  <2>4. ASSUME \/ Tasks!ScheduleNext \/ Tasks!YieldIdle \/ Tasks!YieldCurrent
               \/ Tasks!YieldAtLastTick \/ Tasks!SpawnRejected
        PROVE  Tasks!Next
    BY <2>4 DEF Tasks!Next, Tasks!CoopNext, Tasks!FacadeNext
  <2>5. QED
    BY <1>1, <2>1, <2>2, <2>3, <2>4 DEF HostDrivesScheduler
<1>2. CASE ~HostDrivesScheduler
  BY <1>2 DEF HostCall, HostMovesAllocator, HostAppends, HostRegisters, HostCompletes
<1>3. QED
  BY <1>1, <1>2

\* What UsesScheduler says of a step.
LEMMA SchedulerStep ==
  ASSUME BootType, [Next]_vars
  PROVE  [IF IsHostStep THEN Tasks!Next ELSE Tasks!FacadeNext]_taskVars
<1>1. ASSUME NEW context \in Context, HandleSyscall(context)
      PROVE  ~IsHostStep /\ (Tasks!FacadeNext \/ UNCHANGED taskVars)
  <2>1. ~IsHostStep
    BY <1>1, CallAnswers DEF IsHostStep
  <2>2. Tasks!FacadeNext \/ UNCHANGED taskVars
    BY <1>1, CallShape, CallIsFacadeStep, RejectAnswers DEF IsCompleted, Completed
  <2>3. QED
    BY <2>1, <2>2
<1>2. CASE InitializeHost
  BY <1>2, BootStep, SpawnIsFacadeStep, RuntimeTasksSpawn DEF IsHostStep
<1>3. CASE HostCall
  BY <1>3, HostStepsAreHostSteps, HostSchedulerStep
<1>4. CASE Return \/ UNCHANGED vars
  BY <1>4 DEF Return, vars
<1>5. QED
  BY <1>1, <1>2, <1>3, <1>4 DEF Next, KernelNext

LEMMA CallIsManagerStep ==
  ASSUME NEW number, NEW context \in Context, NEW error, MemoryEffect(number, context, error)
  PROVE  Memory!Next \/ UNCHANGED memoryVars
<1>1. context.task \in Task
  BY KernelAssumption
<1>2. ASSUME NEW range \in Range, NEW permissions \in SUBSET Permission,
             Memory!ShareRegion(context.task, range.start, range.len, permissions)
      PROVE  Memory!Next
  BY <1>1, <1>2 DEF Memory!Next
<1>3. ASSUME NEW id \in 0..AddrMax, Memory!SealSharedRegion(id)
      PROVE  Memory!Next
  BY <1>3 DEF Memory!Next, Memory!Address
<1>4. QED
  BY <1>2, <1>3 DEF MemoryEffect

LEMMA ManagerStep ==
  ASSUME BootType, [Next]_vars
  PROVE  [Memory!Next \/ BootMovesAllocator]_memoryVars
<1>1. ASSUME NEW context \in Context, HandleSyscall(context)
      PROVE  Memory!Next \/ UNCHANGED memoryVars
  BY <1>1, CallShape, CallIsManagerStep, RejectAnswers DEF IsCompleted, Completed
<1>2. CASE InitializeHost
  <2>1. boot_index = 0 /\ boot_index' > 1
    BY <1>2, BootStep
  <2>2. UNCHANGED <<bounds, alignment, shared_regions, next_shared_id>>
    BY <1>2 DEF InitializeHost
  <2>3. CASE allocator_phase' = allocator_phase
    BY <2>2, <2>3 DEF memoryVars
  <2>4. CASE /\ Memory!PhaseAllowed(allocator_phase, "BootBump")
             /\ allocator_phase' = "Heap"
    <3>1. allocator_phase \in {"Uninitialized", "BootBump"}
      BY <2>4 DEF Memory!PhaseAllowed
    <3>2. QED
      BY <2>1, <2>2, <2>4, <3>1 DEF BootMovesAllocator
  <2>5. QED
    BY <1>2, <2>3, <2>4, BootStep
<1>3. ASSUME NEW phase \in HostPhase, Memory!SetAllocatorPhase(phase)
      PROVE  Memory!Next
  BY <1>3, HostAssumption DEF Memory!Next
<1>4. CASE HostCall
  BY <1>3, <1>4 DEF HostCall, HostDrivesScheduler, HostMovesAllocator, HostAppends,
                    HostRegisters, HostCompletes
<1>5. CASE Return \/ UNCHANGED vars
  BY <1>5 DEF Return, vars
<1>6. QED
  BY <1>1, <1>2, <1>4, <1>5 DEF Next, KernelNext

LEMMA RegistryStep ==
  ASSUME [Next]_vars
  PROVE  [Devices!Next]_devices
<1>1. ASSUME NEW context \in Context, HandleSyscall(context)
      PROVE  UNCHANGED devices
  BY <1>1, CallShape, RejectAnswers DEF IsCompleted, Completed, hostVars
<1>2. CASE InitializeHost \/ Return \/ UNCHANGED vars
  BY <1>2 DEF InitializeHost, Return, vars, hostVars
<1>3. CASE HostCall
  BY <1>3 DEF HostCall, HostDrivesScheduler, HostMovesAllocator, HostAppends, HostRegisters,
              HostCompletes, hostVars, Devices!Next
<1>4. QED
  BY <1>1, <1>2, <1>3 DEF Next, KernelNext

-----------------------------------------------------------------------------
(* The inductive invariant *)

\* What TypeOK says of the entries of a call.
IsAnswer(a) ==
  /\ a.number \in Number \cup {UnknownNumber}
  /\ a.context \in Context
  /\ a.status \in KernelStatus
  /\ a.audited \in Seq(AuditEntry) /\ Len(a.audited) <= 1
  /\ a.faulted \in Seq(FaultEntry) /\ Len(a.faulted) <= 1

RecordsType ==
  /\ next_sequence \in 0..(SeqSpace - 1)
  /\ answer # NoAnswer => IsAnswer(answer)

(***************************************************************************)
(* Each part's own invariant, as its steps need it, and the types of the   *)
(* rest.  The parts do not constrain each other: what joins them is which  *)
(* of their steps one call makes, and that is a matter of single steps.    *)
(***************************************************************************)
Inv ==
  /\ TaskProofs!IInv
  /\ MemoryProofs!IInv /\ MemoryProofs!Limits
  /\ DevicesProofs!TypeOK
  /\ BootType
  /\ RecordsType

LEMMA InvIsTypeOK == Inv => TypeOK
<1> SUFFICES ASSUME Inv PROVE TypeOK
  OBVIOUS
<1>1. Tasks!TypeOK
  BY SameScheduler DEF Inv, TaskProofs!IInv
<1>2. MemoryProofs!TypeOK
  BY DEF Inv, MemoryProofs!IInv, MemoryProofs!TableType, MemoryProofs!Limits,
         MemoryProofs!TypeOK
<1>3. Memory!TypeOK /\ Devices!TypeOK
  BY <1>2, SameManager, SameRegistry DEF Inv
<1>4. QED
  BY <1>1, <1>3 DEF Inv, TypeOK, BootType, RecordsType, IsAnswer

LEMMA NextNumber ==
  ASSUME NEW m \in Int, NEW n \in Nat \ {0}
  PROVE  m % n \in 0..(n - 1)
  OBVIOUS

LEMMA RecordsNumber ==
  ASSUME RecordsType, NEW n \in 0..1
  PROVE  (next_sequence + n) % SeqSpace \in 0..(SeqSpace - 1)
  BY NextNumber, KernelAssumption DEF RecordsType

LEMMA AuditRecordType ==
  ASSUME RecordsType, NEW number \in Number, NEW kind \in {AuditEvent(n) : n \in Number},
         kind # NoEvent, NEW context \in Context, NEW status \in KernelStatus
  PROVE  AuditRecord(kind, number, context, status) \in AuditEntry
<1>1. context.task \in Task
  BY KernelAssumption
<1>2. AuditSeverity(status) \in {"Notice", "Warning", "Critical"}
  BY DEF AuditSeverity
<1>3. QED
  BY <1>1, <1>2 DEF AuditRecord, AuditEntry, RecordsType

LEMMA FaultRecordType ==
  ASSUME NEW kind \in {"InvalidSyscall", "CapabilityDenied", "InvariantViolation"},
         NEW severity \in {"Warning", "Error"}, NEW context \in Context,
         NEW error \in KernelError, NEW phase \in {"Boot", "Runtime"}
  PROVE  FaultRecord(kind, severity, context, error, phase) \in FaultEntry
<1>1. context.task \in Task
  BY KernelAssumption
<1>2. Status(error) \in KernelStatus \ {"Ok"}
  BY StatusOfError DEF KernelError
<1>3. QED
  BY <1>1, <1>2 DEF FaultRecord, FaultEntry

LEMMA CompletedRecords ==
  ASSUME RecordsType, NEW context \in Context, NEW number, NEW error, NEW value,
         Completed(number, context, error, value)
  PROVE  RecordsType'
<1> DEFINE status == Status(error)
           audited == AuditOf(number, context, status)
           faulted == FaultOf(context, status)
<1>1. number \in Number /\ error \in KernelError \cup {"Ok"}
  BY DEF Completed
<1>2. /\ status \in KernelStatus
      /\ status # "Ok" => ErrorForStatus(status) \in KernelError
  BY <1>1, StatusOfError
<1>3. audited \in Seq(AuditEntry) /\ Len(audited) \in 0..1 /\ Len(audited) <= 1
  <2>1. CASE AuditEvent(number) = NoEvent
    BY <2>1 DEF AuditOf
  <2>2. CASE AuditEvent(number) # NoEvent
    BY <1>1, <1>2, <2>2, AuditRecordType DEF AuditOf
  <2>3. QED
    BY <2>1, <2>2
<1>4. faulted \in Seq(FaultEntry) /\ Len(faulted) \in 0..1 /\ Len(faulted) <= 1
  <2>1. FaultKindForStatus(status) \in {"CapabilityDenied", "InvariantViolation"}
    BY DEF FaultKindForStatus
  <2>2. CASE status = "Ok"
    BY <2>2 DEF FaultOf
  <2>3. CASE status # "Ok"
    BY <1>2, <2>1, <2>3, FaultRecordType DEF FaultOf
  <2>4. QED
    BY <2>2, <2>3
<1>5. /\ answer'.number = number /\ answer'.context = context /\ answer'.status = status
      /\ answer'.audited = audited /\ answer'.faulted = faulted
      /\ next_sequence' = (next_sequence + Len(audited)) % SeqSpace
  BY <1>1, CompleteAnswers DEF Completed
<1> HIDE DEF status, audited, faulted
<1>6. next_sequence' \in 0..(SeqSpace - 1)
  BY <1>3, <1>5, RecordsNumber
<1>7. IsAnswer(answer')
  BY <1>1, <1>2, <1>3, <1>4, <1>5, Zenon DEF IsAnswer
<1>8. QED
  BY <1>6, <1>7 DEF RecordsType

LEMMA RejectedRecords ==
  ASSUME RecordsType, NEW context \in Context, NEW number \in Callable,
         Reject(number, context)
  PROVE  RecordsType'
<1> DEFINE error == Validate(number, context)
           audited == RejectAudit(number, context, error)
           faulted == RejectFault(context, error)
<1>1. /\ number \in Number \cup {UnknownNumber}
      /\ error \in {"UnknownSyscall", "Busy", "MissingCapability"}
      /\ answer'.number = number /\ answer'.context = context
      /\ answer'.status = Status(error)
      /\ answer'.audited = audited /\ answer'.faulted = faulted
      /\ next_sequence' = (next_sequence + Len(audited)) % SeqSpace
  BY RejectAnswers
<1> HIDE DEF error, audited, faulted
<1>2. error \in KernelError /\ Status(error) \in KernelStatus
  BY <1>1, StatusOfError DEF KernelError
<1>3. audited \in Seq(AuditEntry) /\ Len(audited) \in 0..1 /\ Len(audited) <= 1
  <2> USE DEF audited
  <2>1. CASE RejectedEvent(number, error) = NoEvent
    BY <2>1 DEF RejectAudit
  <2>2. CASE RejectedEvent(number, error) # NoEvent
    <3>1. "SysAttest" \in Number /\ AuditEvent("SysAttest") = "SecurityDecision"
      BY DEF Number, AuditEvent
    <3>2. /\ number \in Number
          /\ RejectedEvent(number, error) \in {AuditEvent(n) : n \in Number}
      BY <2>2, <3>1 DEF RejectedEvent
    <3>3. QED
      BY <1>2, <2>2, <3>2, AuditRecordType DEF RejectAudit
  <2>3. QED
    BY <2>1, <2>2
<1>4. faulted \in Seq(FaultEntry) /\ Len(faulted) \in 0..1 /\ Len(faulted) <= 1
  <2> USE DEF faulted
  <2>1. RejectedFault(error) \in {"InvalidSyscall", "CapabilityDenied", "InvariantViolation"}
    BY DEF RejectedFault
  <2>2. QED
    BY <1>2, <2>1, FaultRecordType DEF RejectFault
<1>5. next_sequence' \in 0..(SeqSpace - 1)
  BY <1>1, <1>3, RecordsNumber
<1>6. IsAnswer(answer')
  BY <1>1, <1>2, <1>3, <1>4, Zenon DEF IsAnswer
<1>7. QED
  BY <1>5, <1>6 DEF RecordsType

LEMMA InitInv == Init => Inv
<1> SUFFICES ASSUME Init PROVE Inv
  OBVIOUS
<1>1. TaskProofs!IInv
  BY SameScheduler, TaskAssumptions, TaskProofs!InitIInv DEF Init
<1>2. MemoryProofs!IInv /\ MemoryProofs!Limits
  BY SameManager, MemoryAssumption, MemoryProofs!InitIInv, MemoryProofs!InitLimits DEF Init
<1>3. DevicesProofs!TypeOK
  BY SameRegistry, DeviceAssumption, DevicesProofs!InitType DEF Init
<1>4. BootType
  BY BootOrder DEF Init, Boot!Init, BootType
<1>5. RecordsType
  BY KernelAssumption DEF Init, RecordsType
<1>6. QED
  BY <1>1, <1>2, <1>3, <1>4, <1>5 DEF Inv

LEMMA NextTasks ==
  ASSUME Inv, [Next]_vars
  PROVE  TaskProofs!IInv'
<1>1. [Tasks!Next]_taskVars
  BY SchedulerStep DEF Inv, Tasks!Next, Tasks!CoopNext
<1>2. [TaskProofs!Next]_(TaskProofs!vars)
  BY <1>1, SameScheduler DEF TaskProofs!vars, taskVars
<1>3. QED
  BY <1>2, TaskAssumptions, TaskProofs!NextIInv DEF Inv

LEMMA NextMemory ==
  ASSUME Inv, [Next]_vars
  PROVE  MemoryProofs!IInv' /\ MemoryProofs!Limits'
<1>1. MemoryProofs!IInv /\ MemoryProofs!Limits
  BY DEF Inv
<1>2. CASE [Memory!Next]_memoryVars
  <2>1. [MemoryProofs!Next]_(MemoryProofs!vars)
    BY <1>2, SameManager DEF MemoryProofs!vars, memoryVars
  <2>2. QED
    BY <1>1, <2>1, MemoryAssumption, MemoryProofs!NextIInv, MemoryProofs!NextLimits
<1>3. CASE BootMovesAllocator
  <2>1. UNCHANGED <<bounds, alignment, shared_regions, next_shared_id>>
    BY <1>3 DEF BootMovesAllocator
  <2>2. MemoryProofs!IInv'
    BY <1>1, <2>1, MemoryAssumption, MemoryProofs!QuietStep
  <2>3. allocator_phase' \in MemoryProofs!Phase
    BY <1>3 DEF BootMovesAllocator, MemoryProofs!Phase
  <2>4. MemoryProofs!Limits'
    BY <1>1, <2>1, <2>3 DEF MemoryProofs!Limits
  <2>5. QED
    BY <2>2, <2>4
<1>4. QED
  BY <1>2, <1>3, ManagerStep DEF Inv

LEMMA NextDevices ==
  ASSUME Inv, [Next]_vars
  PROVE  DevicesProofs!TypeOK'
<1>1. [DevicesProofs!Next]_devices
  BY RegistryStep, SameRegistry
<1>2. QED
  BY <1>1, DeviceAssumption, DevicesProofs!NextType DEF Inv

LEMMA NextBoot ==
  ASSUME Inv, [Next]_vars
  PROVE  BootType'
<1>1. boot_index \in 0..14 /\ BootType
  BY BootOrder DEF Inv, BootType
<1>2. boot_index' \in 0..14
  <2>1. ASSUME NEW context \in Context, HandleSyscall(context)
        PROVE  boot_index' = boot_index
    BY <2>1, CallShape, RejectAnswers DEF IsCompleted, Completed, hostVars
  <2>2. CASE InitializeHost
    BY <1>1, <2>2, BootStep
  <2>3. CASE HostCall
    BY <1>1, <2>3, BootSteps DEF HostCall, HostDrivesScheduler, HostMovesAllocator,
       HostAppends, HostRegisters, HostCompletes, hostVars
  <2>4. CASE Return \/ UNCHANGED vars
    BY <1>1, <2>4 DEF Return, vars, hostVars
  <2>5. QED
    BY <1>1, <2>1, <2>2, <2>3, <2>4 DEF Next, KernelNext
<1>3. QED
  BY <1>2, BootOrder DEF BootType, Boot!BOOT_SEQUENCE

LEMMA NextRecords ==
  ASSUME Inv, [Next]_vars
  PROVE  RecordsType'
<1>1. RecordsType
  BY DEF Inv
<1>2. ASSUME NEW context \in Context, HandleSyscall(context)
      PROVE  RecordsType'
  BY <1>1, <1>2, CallShape, RejectedRecords, CompletedRecords DEF IsCompleted
<1>3. CASE InitializeHost \/ UNCHANGED vars
  BY <1>1, <1>3 DEF RecordsType, InitializeHost, vars
<1>4. CASE Return
  BY <1>1, <1>4 DEF RecordsType, Return
<1>5. CASE HostCall
  <2>1. answer' = NoAnswer
    BY <1>5 DEF HostCall, HostDrivesScheduler, HostMovesAllocator, HostAppends,
                HostRegisters, HostCompletes
  <2>2. next_sequence' = next_sequence \/ next_sequence' = (next_sequence + 1) % SeqSpace
    BY <1>5 DEF HostCall, HostDrivesScheduler, HostMovesAllocator, HostAppends,
                HostRegisters, HostCompletes
  <2>3. next_sequence' \in 0..(SeqSpace - 1)
    BY <1>1, <2>2, RecordsNumber DEF RecordsType
  <2>4. QED
    BY <2>1, <2>3 DEF RecordsType, NoAnswer
<1>6. QED
  BY <1>2, <1>3, <1>4, <1>5 DEF Next, KernelNext

LEMMA NextInv == Inv /\ [Next]_vars => Inv'
  BY NextTasks, NextMemory, NextDevices, NextBoot, NextRecords DEF Inv

THEOREM Invariance == Spec => []Inv
  BY InitInv, NextInv, PTL DEF Spec

\* Whatever the host and the tasks do, each part keeps its types, and what a call answers
\* and logs has the types the log and the fault ring expect.
THEOREM TypeCorrect == Spec => []TypeOK
  BY Invariance, InvIsTypeOK, PTL

-----------------------------------------------------------------------------
(* The kernel implements its parts *)

\* Boot and every call use the scheduler as FacadeSpec describes, and a host that drives
\* it in between makes no step that its interface does not offer.
THEOREM SchedulerIsUsed == Spec => UsesScheduler
<1>1. Inv /\ [Next]_vars => [IF IsHostStep THEN Tasks!Next ELSE Tasks!FacadeNext]_taskVars
  BY SchedulerStep DEF Inv
<1>2. Init => Tasks!Init
  BY DEF Init
<1>3. QED
  BY <1>1, <1>2, Invariance, PTL DEF Spec, UsesScheduler

\* The memory manager is used through its public methods; boot takes the allocator to its
\* last phase in one step, from one of the first two, and changes nothing else of it.
THEOREM ManagerIsUsed == Spec => UsesMemory
<1>1. Inv /\ [Next]_vars => [Memory!Next \/ BootMovesAllocator]_memoryVars
  BY ManagerStep DEF Inv
<1>2. Init => Memory!Init
  BY DEF Init
<1>3. QED
  BY <1>1, <1>2, Invariance, PTL DEF Spec, UsesMemory

\* So everything proved of the scheduler alone holds of it in the kernel.
LEMMA ImplementsScheduler == Spec => TaskProofs!Spec
<1>1. Init => TaskProofs!Init
  BY SameScheduler DEF Init
<1>2. Inv /\ [Next]_vars => [TaskProofs!Next]_(TaskProofs!vars)
  <2>1. ASSUME Inv, [Next]_vars PROVE [Tasks!Next]_taskVars
    BY <2>1, SchedulerStep DEF Inv, Tasks!Next, Tasks!CoopNext
  <2>2. QED
    BY <2>1, SameScheduler DEF TaskProofs!vars, taskVars
<1>3. QED
  BY <1>1, <1>2, Invariance, PTL DEF Spec, TaskProofs!Spec

\* The run queue is coherent, the current task runs and no counter overflows, whatever
\* tasks ask for and whatever the host does to the scheduler between two calls.
THEOREM SchedulerKeepsItsPromises ==
  Spec => [](/\ Tasks!QueueCoherent /\ Tasks!CurrentRuns
             /\ Tasks!SwitchesWithinTicks /\ Tasks!PriorityIsAged)
<1>1. Inv => Tasks!QueueCoherent /\ Tasks!CurrentRuns /\ Tasks!SwitchesWithinTicks
  BY SameScheduler DEF Inv, TaskProofs!IInv
<1>2. Spec => []TaskProofs!PriorityIsAged
  BY ImplementsScheduler, TaskAssumptions, TaskProofs!PriorityStaysAged, PTL
<1>3. TaskProofs!PriorityIsAged => Tasks!PriorityIsAged
  BY SameScheduler
<1>4. QED
  BY <1>1, <1>2, <1>3, Invariance, PTL

\* Ids of shared ranges name one slot each, seals are coherent, and exactly the ranges
\* that are user memory pass validation, in the running kernel.
THEOREM ManagerKeepsItsPromises ==
  Spec => [](Memory!IdsNameSlots /\ Memory!SealIsCoherent /\ Memory!RangeCheckIsExact)
<1>1. Inv => Memory!IdsNameSlots /\ Memory!SealIsCoherent
  BY SameManager DEF Inv, MemoryProofs!IInv
<1>2. Inv => Memory!RangeCheckIsExact
  BY SameManager, MemoryAssumption, MemoryProofs!LimitsMakeExact DEF Inv
<1>3. QED
  BY <1>1, <1>2, Invariance, PTL

-----------------------------------------------------------------------------
(* Authority *)

LEMMA QuietTasks ==
  ASSUME UNCHANGED taskVars
  PROVE  Spawned = {} /\ Ended = {} /\ current_task' = current_task
<1>1. tasks' = tasks /\ current_task' = current_task
  BY DEF taskVars
<1>2. Spawned = {}
  BY <1>1, Zenon DEF Spawned, Tasks!QueuedIds, Tasks!Occupied
<1>3. Ended = {}
  BY <1>1 DEF Ended
<1>4. QED
  BY <1>1, <1>2, <1>3

\* The facts of SchedulerTaskProofs about one step, for the kernel's run queue.
LEMMA SelectionEffect ==
  ASSUME Inv, Tasks!YieldIdle \/ Tasks!YieldCurrent \/ Tasks!YieldAtLastTick
  PROVE  Spawned = {} /\ Ended = {}
<1>1. TaskProofs!ScheduleNext \/ TaskProofs!YieldCurrent \/ TaskProofs!YieldAtLastTick
  BY SameScheduler DEF Tasks!YieldIdle
<1>2. TaskProofs!QueuedIds' = TaskProofs!QueuedIds /\ TaskProofs!EndedIds = {}
  BY <1>1, TaskAssumptions, TaskProofs!SelectionKeepsQueue DEF Inv
<1>3. QED
  BY <1>2, SameScheduler DEF Spawned

LEMMA CancelEffect ==
  ASSUME Inv, NEW id, Tasks!Cancel(id)
  PROVE  /\ Spawned = {} /\ Ended = {id}
         /\ current_task' # current_task => current_task = id
<1>1. TaskProofs!Cancel(id)
  BY SameScheduler
<1>2. TaskProofs!QueuedIds' = TaskProofs!QueuedIds /\ TaskProofs!EndedIds = {id}
  BY <1>1, TaskAssumptions, TaskProofs!CancelEndsOne DEF Inv
<1>3. current_task' # current_task => current_task = id
  BY DEF Tasks!Cancel, Tasks!CurrentWithout
<1>4. QED
  BY <1>2, <1>3, SameScheduler DEF Spawned

LEMMA SpawnEffect ==
  ASSUME Inv, NEW arg, Tasks!SpawnInserted(arg)
  PROVE  Spawned = {next_task_id} /\ Ended = {} /\ current_task' = current_task
<1>1. TaskProofs!SpawnInserted(arg)
  BY SameScheduler
<1>2. /\ TaskProofs!QueuedIds' = TaskProofs!QueuedIds \cup {next_task_id}
      /\ next_task_id \notin TaskProofs!QueuedIds
      /\ TaskProofs!EndedIds = {}
  BY <1>1, TaskAssumptions, TaskProofs!SpawnAddsOne DEF Inv
<1>3. current_task' = current_task
  BY DEF Tasks!SpawnInserted
<1>4. QED
  BY <1>2, <1>3, SameScheduler DEF Spawned

LEMMA RejectedSpawnEffect ==
  ASSUME Tasks!SpawnRejected
  PROVE  Spawned = {} /\ Ended = {} /\ UNCHANGED <<tasks, current_task, tick>>
<1>1. UNCHANGED <<tasks, current_task, tick>>
  BY DEF Tasks!SpawnRejected
<1>2. Spawned = {}
  BY <1>1, Zenon DEF Spawned, Tasks!QueuedIds, Tasks!Occupied
<1>3. Ended = {}
  BY <1>1 DEF Ended
<1>4. QED
  BY <1>1, <1>2, <1>3

\* Which calls create a task, end one, or take the processor from one.
LEMMA TaskEffects ==
  ASSUME Inv, NEW number, NEW context, NEW error, TaskEffect(number, context, error)
  PROVE  /\ Spawned # {} => number = "SysTaskSpawn" /\ error = "Ok"
         /\ Ended # {} =>
              /\ error = "Ok"
              /\ number = "SysTaskCancel" \/ (number = "SysExit" /\ Ended = {context.task})
         /\ current_task' # current_task => number = "SysYield" \/ current_task \in Ended
<1>1. CASE UNCHANGED taskVars
  BY <1>1, QuietTasks
<1>2. CASE number = "SysExit" /\ error = "Ok" /\ Tasks!Cancel(context.task)
  BY <1>2, CancelEffect
<1>3. CASE number = "SysTaskCancel" /\ error = "Ok" /\ \E id : Tasks!Cancel(id)
  BY <1>3, CancelEffect
<1>4. CASE number = "SysYield" /\
           (Tasks!YieldIdle \/ Tasks!YieldCurrent \/ Tasks!YieldAtLastTick)
  BY <1>4, SelectionEffect
<1>5. CASE /\ number = "SysTaskSpawn" /\ error = "Ok"
           /\ \E p \in 0..U8Max : Tasks!SpawnInserted(RuntimeArg(p))
  BY <1>5, SpawnEffect
<1>6. CASE Tasks!SpawnRejected
  BY <1>6, RejectedSpawnEffect
<1>7. QED
  BY <1>1, <1>2, <1>3, <1>4, <1>5, <1>6 DEF TaskEffect
\* A step that ends with an answer is a call, rejected or completed.
LEMMA CallCases ==
  ASSUME [Next]_vars, IsCall, ~UNCHANGED vars
  PROVE  \E context \in Context :
           (\E number \in Callable : Reject(number, context)) \/ IsCompleted(context)
<1>1. CASE InitializeHost \/ Return \/ HostCall
  BY <1>1 DEF IsCall, InitializeHost, Return, HostCall, HostDrivesScheduler,
     HostMovesAllocator, HostAppends, HostRegisters, HostCompletes
<1>2. QED
  BY <1>1, CallShape DEF Next, KernelNext

\* A call that was dispatched: what its caller had to present.
LEMMA AuthorityOfCompleted ==
  ASSUME Inv, NEW context \in Context, NEW number, NEW error, NEW value,
         Completed(number, context, error, value)
  PROVE  /\ answer'.number = number /\ answer'.context = context
         /\ UNCHANGED <<taskVars, memoryVars>> \/ context.execution = "Task"
         /\ Spawned # {} => "TaskSpawn" \in context.capabilities
         /\ Ended \subseteq {context.task} \/ "TaskManage" \in context.capabilities
         /\ current_task' # current_task => number = "SysYield" \/ current_task \in Ended
         /\ shared_regions' # shared_regions => "MemoryShare" \in context.capabilities
<1>1. /\ number \in Number /\ TaskEffect(number, context, error)
      /\ MemoryEffect(number, context, error)
      /\ AllowsContext(number, context.execution)
      /\ Required(number) \subseteq context.capabilities
  BY ValidateResult DEF Completed
<1>2. answer'.number = number /\ answer'.context = context
  BY CompleteAnswers DEF Completed
<1>3. \/ UNCHANGED taskVars
      \/ number \in {"SysExit", "SysTaskCancel", "SysYield", "SysTaskSpawn"}
  BY <1>1 DEF TaskEffect
<1>4. UNCHANGED memoryVars \/ number \in {"SysMemShare", "SysMemSeal"}
  BY <1>1 DEF MemoryEffect
<1>5. UNCHANGED <<taskVars, memoryVars>> \/ context.execution = "Task"
  BY <1>1, <1>3, <1>4 DEF AllowsContext, SafeAnywhere
<1>6. shared_regions' # shared_regions => "MemoryShare" \in context.capabilities
  BY <1>1, <1>4, SyscallTable DEF memoryVars
<1>7. QED
  BY <1>1, <1>2, <1>5, <1>6, TaskEffects, SyscallTable

\* Deny by default: whoever calls, and whatever capabilities a context carries, tasks and
\* shared memory are changed only from task context and with the capability of the change.
THEOREM ChangesNeedAuthority == Spec => AuthorityIsNeeded
<1> DEFINE capabilities == answer'.context.capabilities
<1>1. Inv /\ [Next]_vars =>
        [IsCall =>
           /\ UNCHANGED <<taskVars, memoryVars>> \/ answer'.context.execution = "Task"
           /\ Spawned # {} => "TaskSpawn" \in capabilities
           /\ Ended \subseteq {answer'.context.task} \/ "TaskManage" \in capabilities
           /\ current_task' # current_task =>
                answer'.number = "SysYield" \/ current_task \in Ended
           /\ shared_regions' # shared_regions => "MemoryShare" \in capabilities]_vars
  <2> SUFFICES ASSUME Inv, [Next]_vars, IsCall, ~UNCHANGED vars
               PROVE  /\ UNCHANGED <<taskVars, memoryVars>>
                           \/ answer'.context.execution = "Task"
                      /\ Spawned # {} => "TaskSpawn" \in capabilities
                      /\ Ended \subseteq {answer'.context.task} \/ "TaskManage" \in capabilities
                      /\ current_task' # current_task =>
                           answer'.number = "SysYield" \/ current_task \in Ended
                      /\ shared_regions' # shared_regions => "MemoryShare" \in capabilities
    OBVIOUS
  <2>1. PICK context \in Context :
          (\E number \in Callable : Reject(number, context)) \/ IsCompleted(context)
    BY CallCases
  <2>2. CASE IsCompleted(context)
    BY <2>2, AuthorityOfCompleted DEF IsCompleted
  <2>3. CASE \E number \in Callable : Reject(number, context)
    <3>1. UNCHANGED <<taskVars, memoryVars>>
      BY <2>3, RejectAnswers
    <3>2. QED
      BY <3>1, QuietTasks DEF memoryVars
  <2>4. QED
    BY <2>1, <2>2, <2>3
<1>2. QED
  BY <1>1, Invariance, PTL DEF Spec, AuthorityIsNeeded

-----------------------------------------------------------------------------
(* Audit and fault records *)

\* Only a success changes the run queue or shared memory, and it is a call that is audited.
LEMMA AuditOfCompleted ==
  ASSUME Inv, NEW context \in Context, NEW number, NEW error, NEW value,
         Completed(number, context, error, value)
  PROVE  Spawned # {} \/ Ended # {} \/ shared_regions' # shared_regions =>
           /\ answer'.audited =
                <<AuditRecord(AuditEvent(number), number, context, "Ok")>>
           /\ answer'.number = number /\ answer'.context = context
<1> SUFFICES ASSUME Spawned # {} \/ Ended # {} \/ shared_regions' # shared_regions
             PROVE  /\ answer'.audited =
                         <<AuditRecord(AuditEvent(number), number, context, "Ok")>>
                    /\ answer'.number = number /\ answer'.context = context
  OBVIOUS
<1>1. /\ error = "Ok"
      /\ number \in {"SysTaskSpawn", "SysTaskCancel", "SysExit", "SysMemShare", "SysMemSeal"}
  BY TaskEffects DEF Completed, MemoryEffect, memoryVars
<1>2. AuditEvent(number) # NoEvent /\ Status(error) = "Ok"
  BY <1>1, SyscallTable DEF Status
<1>3. QED
  BY <1>2, CompleteAnswers DEF Completed, AuditOf

\* A call that creates or ends a task, or changes shared memory, leaves one audit record
\* of a success, under its caller's task and its own number.
THEOREM EveryChangeIsAudited == Spec => ChangesAreAudited
<1>1. Inv /\ [Next]_vars =>
        [IsCall /\ (Spawned # {} \/ Ended # {} \/ shared_regions' # shared_regions) =>
           /\ Len(answer'.audited) = 1
           /\ answer'.audited[1].task = answer'.context.task
           /\ answer'.audited[1].syscall = answer'.number
           /\ answer'.audited[1].status = "Ok"]_vars
  <2> SUFFICES ASSUME Inv, [Next]_vars, IsCall, ~UNCHANGED vars,
                      Spawned # {} \/ Ended # {} \/ shared_regions' # shared_regions
               PROVE  /\ Len(answer'.audited) = 1
                      /\ answer'.audited[1].task = answer'.context.task
                      /\ answer'.audited[1].syscall = answer'.number
                      /\ answer'.audited[1].status = "Ok"
    OBVIOUS
  <2>1. PICK context \in Context :
          (\E number \in Callable : Reject(number, context)) \/ IsCompleted(context)
    BY CallCases
  <2>2. CASE IsCompleted(context)
    <3>1. PICK number :
            /\ answer'.audited =
                 <<AuditRecord(AuditEvent(number), number, context, "Ok")>>
            /\ answer'.number = number /\ answer'.context = context
      BY <2>2, AuditOfCompleted DEF IsCompleted
    <3>2. QED
      BY <3>1 DEF AuditRecord
  <2>3. CASE \E number \in Callable : Reject(number, context)
    BY <2>3, RejectAnswers, QuietTasks DEF memoryVars
  <2>4. QED
    BY <2>1, <2>2, <2>3
<1>2. QED
  BY <1>1, Invariance, PTL DEF Spec, ChangesAreAudited

\* Validation denies a call only for a missing capability, and then always audits it.
LEMMA DenialOfRejected ==
  ASSUME NEW context \in Context, NEW number \in Callable, Reject(number, context)
  PROVE  IsAuditedDenial
<1> DEFINE error == Validate(number, context)
<1>1. /\ error \in {"UnknownSyscall", "Busy", "MissingCapability"}
      /\ answer'.status = Status(error)
      /\ answer'.audited = RejectAudit(number, context, error)
  BY RejectAnswers
<1>2. error = "MissingCapability" => number \in Number
  BY DEF Validate
<1> HIDE DEF error
<1>3. SUFFICES ASSUME Status(error) = "PermissionDenied" PROVE IsAuditedDenial
  BY <1>1 DEF IsAuditedDenial
<1>4. number \in Number
  BY <1>1, <1>2, <1>3 DEF Status
<1>5. RejectedEvent(number, error) # NoEvent
  BY <1>3, <1>4 DEF RejectedEvent, NoEvent
<1>6. answer'.audited =
        <<AuditRecord(RejectedEvent(number, error), number, context, "PermissionDenied")>>
  BY <1>1, <1>3, <1>5 DEF RejectAudit
<1>7. QED
  BY <1>1, <1>3, <1>6 DEF IsAuditedDenial, AuditRecord, AuditSeverity

LEMMA DenialOfCompleted ==
  ASSUME NEW context \in Context, NEW number, NEW error, NEW value,
         Completed(number, context, error, value), answer'.number # "SysInfo"
  PROVE  IsAuditedDenial
<1>1. /\ number # "SysInfo" /\ answer'.status = Status(error)
      /\ answer'.audited = AuditOf(number, context, Status(error))
  BY CompleteAnswers DEF Completed
<1>2. SUFFICES ASSUME Status(error) = "PermissionDenied" PROVE IsAuditedDenial
  BY <1>1 DEF IsAuditedDenial
<1>3. AuditEvent(number) # NoEvent
  BY <1>1, <1>2 DEF Completed
<1>4. answer'.audited =
        <<AuditRecord(AuditEvent(number), number, context, "PermissionDenied")>>
  BY <1>1, <1>2, <1>3 DEF AuditOf
<1>5. QED
  BY <1>1, <1>2, <1>4 DEF IsAuditedDenial, AuditRecord, AuditSeverity

\* A denial of any call but sys_info, by the validator or by the handler that looks at a
\* device or a buffer, leaves a critical audit record.
THEOREM DenialsOfPrivilegedCalls == Spec => PrivilegedDenialsAreAudited
<1>1. [Next]_vars => [IsCall /\ answer'.number # "SysInfo" => IsAuditedDenial]_vars
  BY CallCases, DenialOfRejected, DenialOfCompleted DEF IsCompleted
<1>2. QED
  BY <1>1, PTL DEF Spec, PrivilegedDenialsAreAudited

\* The handlers' path derives the fault's error from a status; what is recorded has that
\* status again, and only a rejected call is reported under the boot phase.
THEOREM EveryFailureIsReported == Spec => FaultsMatchAnswers
<1>1. [Next]_vars =>
        [IsCall =>
           IF answer'.status = "Ok" THEN answer'.faulted = << >>
           ELSE /\ Len(answer'.faulted) = 1
                /\ answer'.faulted[1].status = answer'.status
                /\ answer'.faulted[1].task = answer'.context.task
                /\ answer'.faulted[1].phase = "Boot" =>
                     answer'.context.execution = "EarlyBoot"]_vars
  <2> SUFFICES ASSUME [Next]_vars, IsCall, ~UNCHANGED vars
               PROVE  IF answer'.status = "Ok" THEN answer'.faulted = << >>
                      ELSE /\ Len(answer'.faulted) = 1
                           /\ answer'.faulted[1].status = answer'.status
                           /\ answer'.faulted[1].task = answer'.context.task
                           /\ answer'.faulted[1].phase = "Boot" =>
                                answer'.context.execution = "EarlyBoot"
    OBVIOUS
  <2>1. PICK context \in Context :
          (\E number \in Callable : Reject(number, context)) \/ IsCompleted(context)
    BY CallCases
  <2>2. ASSUME NEW number, NEW error, NEW value, Completed(number, context, error, value)
        PROVE  /\ answer'.context = context /\ answer'.status = Status(error)
               /\ answer'.faulted = FaultOf(context, Status(error))
               /\ Status(error) # "Ok" =>
                    Status(ErrorForStatus(Status(error))) = Status(error)
    BY <2>2, CompleteAnswers, StatusOfError DEF Completed
  <2>3. CASE IsCompleted(context)
    <3>1. PICK status :
            /\ answer'.context = context /\ answer'.status = status
            /\ answer'.faulted = FaultOf(context, status)
            /\ status # "Ok" => Status(ErrorForStatus(status)) = status
      BY <2>2, <2>3 DEF IsCompleted
    <3>2. CASE status = "Ok"
      BY <3>1, <3>2 DEF FaultOf
    <3>3. CASE status # "Ok"
      BY <3>1, <3>3 DEF FaultOf, FaultRecord
    <3>4. QED
      BY <3>2, <3>3
  <2>4. ASSUME NEW number \in Callable, Reject(number, context)
        PROVE  \E error :
                 /\ answer'.context = context /\ answer'.status = Status(error)
                 /\ answer'.faulted = RejectFault(context, error) /\ Status(error) # "Ok"
    BY <2>4, RejectAnswers, StatusOfError DEF KernelError
  <2>5. CASE \E number \in Callable : Reject(number, context)
    <3>1. PICK error :
            /\ answer'.context = context /\ answer'.status = Status(error)
            /\ answer'.faulted = RejectFault(context, error) /\ Status(error) # "Ok"
      BY <2>4, <2>5
    <3>2. QED
      BY <3>1 DEF RejectFault, FaultRecord
  <2>6. QED
    BY <2>1, <2>3, <2>5
<1>2. QED
  BY <1>1, PTL DEF Spec, FaultsMatchAnswers

-----------------------------------------------------------------------------
(* Failed calls, returned sequence numbers, boot *)

\* What CallsActAsAnswered says of a failed call.
FailsQuietly ==
  /\ tasks' = tasks \/ ChargedForNothing
  /\ \/ next_task_id' = next_task_id
     \/ /\ answer'.number = "SysTaskSpawn" /\ Tasks!Occupied = Tasks!Slot
        /\ next_task_id' = next_task_id + 1
  /\ UNCHANGED <<current_task, tick, memoryVars, hostVars>>

\* A yield that finds no tick left: by CurrentRuns the current task is Running, or Ready
\* after such a yield before, so it is Ready now whatever it was.
LEMMA LastYieldCharges ==
  ASSUME Inv, Tasks!YieldAtLastTick,
         answer'.number = "SysYield", answer'.status = "Internal"
  PROVE  ChargedForNothing
<1>1. tick = TickMax
  BY DEF Tasks!YieldAtLastTick
<1>2. PICK i \in Tasks!SlotsOf(current_task) :
        /\ Tasks!CanConsumeTick(tasks[i])
        /\ tasks' = [tasks EXCEPT ![i] = Tasks!Yielded(tasks[i])]
  BY DEF Tasks!YieldAtLastTick
<1>3. Tasks!TypeOK /\ Tasks!QueueCoherent /\ Tasks!CurrentRuns
  BY SameScheduler DEF Inv, TaskProofs!IInv
<1>4. /\ i \in Tasks!Slot /\ tasks[i].id = current_task /\ current_task # Tasks!NoTask
      /\ tasks[i] \in Tasks!TaskControlBlock
  BY <1>3 DEF Tasks!SlotsOf, Tasks!Occupied, Tasks!TypeOK
<1>5. \A j \in Tasks!SlotsOf(current_task) : j = i
  BY <1>4, TaskAssumptions, TaskProofs!SlotOfId
     DEF Inv, TaskProofs!IInv, Tasks!SlotsOf, TaskProofs!SlotsOf, Tasks!Occupied,
         TaskProofs!Occupied, Tasks!Slot, TaskProofs!Slot, Tasks!NoTask, TaskProofs!NoTask
<1>6. tasks[i].state \in {"Running", "Ready"}
  BY <1>3, <1>4, <1>5 DEF Tasks!CurrentRuns
<1> DEFINE left == IF tasks[i].max_ticks = 0 THEN tasks[i].remaining_ticks
                                            ELSE tasks[i].remaining_ticks - 1
<1>7. Tasks!Yielded(tasks[i]) =
        [tasks[i] EXCEPT !.state = "Ready", !.remaining_ticks = left]
  BY <1>4, <1>6 DEF Tasks!Yielded, Tasks!TaskControlBlock
<1>8. tasks' = [tasks EXCEPT ![i].state = "Ready", ![i].remaining_ticks = left]
  BY <1>2, <1>3, <1>4, <1>7 DEF Tasks!TypeOK, Tasks!TaskControlBlock
<1>9. tasks[i].max_ticks # 0 => tasks[i].remaining_ticks # 0
  BY <1>2, <1>4, PartsAssumption
     DEF Tasks!CanConsumeTick, Tasks!TaskControlBlock, Tasks!SizesAssumption
<1>10. QED
  BY <1>1, <1>8, <1>9 DEF ChargedForNothing

\* A rejected spawn found the queue full, for a new id is neither 0 nor a duplicate.
LEMMA RejectedSpawnIsFull ==
  ASSUME Inv, Tasks!SpawnRejected
  PROVE  Tasks!Occupied = Tasks!Slot /\ next_task_id' = next_task_id + 1
<1>1. Tasks!InsertResult(next_task_id) = "CapacityExceeded"
  BY SameScheduler DEF Inv, TaskProofs!IInv, Tasks!QueueCoherent, Tasks!SpawnRejected
<1>2. QED
  BY <1>1 DEF Tasks!InsertResult, Tasks!SpawnRejected

LEMMA FailureOfCompleted ==
  ASSUME Inv, NEW context \in Context, NEW number, NEW error, NEW value,
         Completed(number, context, error, value), answer'.status # "Ok"
  PROVE  FailsQuietly
<1>1. /\ error # "Ok" /\ answer'.number = number
      /\ error = "Internal" => answer'.status = "Internal"
  BY CompleteAnswers, StatusOfError DEF Completed, Status
<1>2. UNCHANGED <<memoryVars, hostVars>>
  BY <1>1 DEF Completed, MemoryEffect
<1>3. \/ UNCHANGED taskVars
      \/ number = "SysYield" /\ error = "Internal" /\ Tasks!YieldAtLastTick
      \/ number = "SysTaskSpawn" /\ Tasks!SpawnRejected
  BY <1>1 DEF Completed, TaskEffect
<1>4. CASE UNCHANGED taskVars
  BY <1>2, <1>4 DEF FailsQuietly, taskVars
<1>5. CASE number = "SysYield" /\ error = "Internal" /\ Tasks!YieldAtLastTick
  <2>1. ChargedForNothing
    BY <1>1, <1>5, LastYieldCharges
  <2>2. UNCHANGED <<current_task, next_task_id, tick>>
    BY <1>5 DEF Tasks!YieldAtLastTick
  <2>3. QED
    BY <1>2, <2>1, <2>2 DEF FailsQuietly
<1>6. CASE number = "SysTaskSpawn" /\ Tasks!SpawnRejected
  <2>1. UNCHANGED <<tasks, current_task, tick>>
    BY <1>6 DEF Tasks!SpawnRejected
  <2>2. QED
    BY <1>1, <1>2, <1>6, <2>1, RejectedSpawnIsFull DEF FailsQuietly
<1>7. QED
  BY <1>3, <1>4, <1>5, <1>6

\* A rejected call is answered with an error.
LEMMA RejectedStatus ==
  ASSUME NEW context \in Context, NEW number \in Callable, Reject(number, context)
  PROVE  answer'.status # "Ok"
  BY RejectAnswers, StatusOfError DEF KernelError

\* A call that is answered Ok was completed, and has done what it says.
LEMMA SuccessIsDone ==
  ASSUME [Next]_vars, IsCall, ~UNCHANGED vars, answer'.status = "Ok"
  PROVE  /\ answer'.context \in Context
         /\ Done(answer'.number, answer'.context, answer'.value)
         /\ answer'.audited = AuditOf(answer'.number, answer'.context, "Ok")
<1>1. PICK context \in Context : IsCompleted(context)
  BY CallCases, RejectedStatus
<1>2. PICK number, error, value : Completed(number, context, error, value)
  BY <1>1 DEF IsCompleted
<1>3. error = "Ok"
  BY <1>2, CompleteAnswers, StatusOfError DEF Completed
<1>4. QED
  BY <1>2, <1>3, CompleteAnswers DEF Completed, Status

LEMMA SuccessesOnTasks ==
  ASSUME Inv, NEW number, NEW context, NEW value, Done(number, context, value)
  PROVE  /\ number = "SysTaskSpawn" => Spawned = {value}
         /\ number = "SysTaskCancel" => Ended = {value}
         /\ number = "SysExit" => Ended = {context.task}
  BY SpawnEffect, CancelEffect DEF Done

\* A call acts exactly when it is answered Ok: a failed one leaves queue, current task,
\* memory and devices as they were, but that a yield that finds no tick left has charged
\* the current task and made it ready, and a spawn that finds the queue full has used up
\* an id; a successful one has made or ended the task it names.
THEOREM CallsDoAsAnswered == Spec => CallsActAsAnswered
<1> DEFINE succeeds(number) == answer'.status = "Ok" /\ answer'.number = number
<1>1. Inv /\ [Next]_vars =>
        [IsCall =>
           /\ answer'.status # "Ok" => FailsQuietly
           /\ succeeds("SysTaskSpawn") => Spawned = {answer'.value}
           /\ succeeds("SysTaskCancel") => Ended = {answer'.value}
           /\ succeeds("SysExit") => Ended = {answer'.context.task}]_vars
  <2> SUFFICES ASSUME Inv, [Next]_vars, IsCall, ~UNCHANGED vars
               PROVE  /\ answer'.status # "Ok" => FailsQuietly
                      /\ succeeds("SysTaskSpawn") => Spawned = {answer'.value}
                      /\ succeeds("SysTaskCancel") => Ended = {answer'.value}
                      /\ succeeds("SysExit") => Ended = {answer'.context.task}
    OBVIOUS
  <2>1. ASSUME answer'.status = "Ok"
        PROVE  /\ answer'.number = "SysTaskSpawn" => Spawned = {answer'.value}
               /\ answer'.number = "SysTaskCancel" => Ended = {answer'.value}
               /\ answer'.number = "SysExit" => Ended = {answer'.context.task}
    BY <2>1, SuccessIsDone, SuccessesOnTasks
  <2>2. ASSUME answer'.status # "Ok"
        PROVE  FailsQuietly
    <3>1. PICK context \in Context :
            (\E number \in Callable : Reject(number, context)) \/ IsCompleted(context)
      BY CallCases
    <3>2. CASE IsCompleted(context)
      BY <2>2, <3>2, FailureOfCompleted DEF IsCompleted
    <3>3. CASE \E number \in Callable : Reject(number, context)
      <4>1. UNCHANGED <<taskVars, memoryVars, hostVars>>
        BY <3>3, RejectAnswers
      <4>2. QED
        BY <4>1 DEF FailsQuietly, taskVars
    <3>4. QED
      BY <3>1, <3>2, <3>3
  <2>3. QED
    BY <2>1, <2>2
<1>2. QED
  BY <1>1, Invariance, PTL DEF Spec, CallsActAsAnswered, FailsQuietly

\* share_region fills the slot its id names; seal_shared_region seals the region it finds.
LEMMA SuccessesOnMemory ==
  ASSUME Inv, NEW number, NEW context \in Context, NEW value, Done(number, context, value)
  PROVE  /\ number = "SysMemShare" =>
              \E i \in Memory!Slot :
                /\ shared_regions[i].id = Memory!NoRegion
                /\ shared_regions'[i].id = value
                /\ shared_regions'[i].owner_task = context.task
         /\ number = "SysMemSeal" =>
              \E i \in Memory!Slot :
                shared_regions'[i].id = value /\ shared_regions'[i].sealed
<1>1. CASE number = "SysMemShare"
  <2>1. PICK range \in Range, permissions \in SUBSET Permission :
          Memory!ShareRegion(context.task, range.start, range.len, permissions)
    BY <1>1 DEF Done
  <2>2. MemoryProofs!ShareRegion(context.task, range.start, range.len, permissions)
    BY <2>1, SameManager
  <2>3. value = next_shared_id /\ context.task \in Task
    BY <1>1, KernelAssumption DEF Done
  <2>4. /\ next_shared_id \in MemoryProofs!Slot
        /\ shared_regions[next_shared_id].id = MemoryProofs!NoRegion
        /\ shared_regions'[next_shared_id].id = next_shared_id
        /\ shared_regions'[next_shared_id].owner_task = context.task
    BY <2>2, <2>3, MemoryAssumption, MemoryProofs!ShareNames DEF Inv
  <2>5. QED
    BY <1>1, <2>3, <2>4, SameManager
<1>2. CASE number = "SysMemSeal"
  <2>1. value \in MemoryProofs!Address /\ MemoryProofs!SealSharedRegion(value)
    BY <1>2, SameManager DEF Done, MemoryProofs!Address
  <2>2. \E i \in MemoryProofs!Slot :
          shared_regions'[i].id = value /\ shared_regions'[i].sealed
    BY <2>1, MemoryAssumption, MemoryProofs!SealNames DEF Inv
  <2>3. QED
    BY <1>2, <2>2, SameManager
<1>3. QED
  BY <1>1, <1>2

\* sys_mem_share returns the id of the caller's new region, sys_mem_seal that of a region
\* that is sealed by now, and the audit calls, which read the counter before their own
\* event is appended, the number of this event and of the one before it.
THEOREM ReturnedNumbersNameResults == Spec => AnswersNameResults
<1>1. Inv /\ [Next]_vars =>
        [IsCall /\ answer'.status = "Ok" =>
           /\ answer'.number = "SysMemShare" =>
                \E i \in Memory!Slot :
                  /\ shared_regions[i].id = Memory!NoRegion
                  /\ shared_regions'[i].id = answer'.value
                  /\ shared_regions'[i].owner_task = answer'.context.task
           /\ answer'.number = "SysMemSeal" =>
                \E i \in Memory!Slot :
                  shared_regions'[i].id = answer'.value /\ shared_regions'[i].sealed
           /\ answer'.number \in {"SysAuditAppend", "SysAuditVerify"} =>
                /\ Len(answer'.audited) = 1
                /\ LET own == answer'.audited[1].sequence
                   IN  CASE answer'.number = "SysAuditAppend" -> answer'.value = own
                         [] answer'.number = "SysAuditVerify" /\ own # 0 ->
                              answer'.value = own - 1
                         [] OTHER -> answer'.value = 0]_vars
  <2> SUFFICES ASSUME Inv, [Next]_vars, IsCall, ~UNCHANGED vars, answer'.status = "Ok"
               PROVE  /\ answer'.number = "SysMemShare" =>
                           \E i \in Memory!Slot :
                             /\ shared_regions[i].id = Memory!NoRegion
                             /\ shared_regions'[i].id = answer'.value
                             /\ shared_regions'[i].owner_task = answer'.context.task
                      /\ answer'.number = "SysMemSeal" =>
                           \E i \in Memory!Slot :
                             shared_regions'[i].id = answer'.value /\ shared_regions'[i].sealed
                      /\ answer'.number \in {"SysAuditAppend", "SysAuditVerify"} =>
                           /\ Len(answer'.audited) = 1
                           /\ LET own == answer'.audited[1].sequence
                              IN  CASE answer'.number = "SysAuditAppend" -> answer'.value = own
                                    [] answer'.number = "SysAuditVerify" /\ own # 0 ->
                                         answer'.value = own - 1
                                    [] OTHER -> answer'.value = 0
    OBVIOUS
  <2>1. /\ answer'.context \in Context
        /\ Done(answer'.number, answer'.context, answer'.value)
        /\ answer'.audited = AuditOf(answer'.number, answer'.context, "Ok")
    BY SuccessIsDone
  <2>2. ASSUME answer'.number \in {"SysAuditAppend", "SysAuditVerify"}
        PROVE  /\ Len(answer'.audited) = 1
               /\ answer'.audited[1].sequence = next_sequence
               /\ answer'.value = Value(answer'.number)
    <3>1. AuditEvent(answer'.number) # NoEvent
      BY <2>2, SyscallTable
    <3>2. QED
      BY <2>1, <2>2, <3>1 DEF AuditOf, AuditRecord, Done
  <2>3. CASE answer'.number = "SysAuditAppend"
    BY <2>2, <2>3 DEF Value
  <2>4. CASE answer'.number = "SysAuditVerify"
    BY <2>2, <2>4 DEF Value
  <2>5. CASE answer'.number \notin {"SysAuditAppend", "SysAuditVerify"}
    BY <2>1, <2>5, SuccessesOnMemory
  <2>6. QED
    BY <2>3, <2>4, <2>5
<1>2. QED
  BY <1>1, Invariance, PTL DEF Spec, AnswersNameResults

\* initialize_host ends with all phases complete exactly when the allocator is up and the
\* spawn of the runtime task succeeded.
LEMMA BootOutcome ==
  ASSUME Inv, InitializeHost
  PROVE  /\ ~IsHostStep /\ boot_index = 0
         /\ Boot!IsComplete' <=> allocator_phase' = "Heap" /\ Spawned = {next_task_id}
<1>1. boot_index = 0 /\ boot_index' \in {6, 13, 14}
  BY BootStep DEF Inv
<1>2. ~IsHostStep
  BY <1>1 DEF IsHostStep
<1>3. Boot!IsComplete' <=> boot_index' = 14
  BY BootOrder DEF Boot!IsComplete, Boot!BOOT_SEQUENCE
<1>4. SUFFICES boot_index' = 14 <=> allocator_phase' = "Heap" /\ Spawned = {next_task_id}
  BY <1>1, <1>2, <1>3
<1>5. CASE boot_index' = 6 /\ UNCHANGED <<taskVars, allocator_phase>>
  BY <1>5, QuietTasks
<1>6. CASE /\ allocator_phase' = "Heap" /\ Spawn(DefaultPriority)
           /\ boot_index' = IF SpawnResult = "Ok" THEN 14 ELSE 13
  <2>1. CASE SpawnResult = "Ok" /\ Tasks!SpawnInserted(RuntimeArg(DefaultPriority))
    BY <1>6, <2>1, SpawnEffect
  <2>2. CASE SpawnResult # "Ok" /\ (Tasks!SpawnRejected \/ UNCHANGED taskVars)
    BY <1>6, <2>2, QuietTasks, RejectedSpawnEffect
  <2>3. QED
    BY <1>6, <2>1, <2>2, SpawnShape
<1>7. QED
  BY <1>5, <1>6, BootStep DEF Inv

\* Boot progress moves only by initialize_host, from nothing and to the end exactly when
\* it did all its work, or by the host, one phase at a time and touching nothing else.
THEOREM BootWorksOnce == Spec => BootIsAllOrNothing
<1>1. Inv /\ [Next]_vars =>
        [boot_index' # boot_index =>
           \/ /\ ~IsHostStep /\ boot_index = 0
              /\ Boot!IsComplete' <=> allocator_phase' = "Heap" /\ Spawned = {next_task_id}
           \/ /\ IsHostStep /\ boot_index' = boot_index + 1
              /\ UNCHANGED <<taskVars, memoryVars>>]_vars
  <2> SUFFICES ASSUME Inv, Next, boot_index' # boot_index
               PROVE  \/ /\ ~IsHostStep /\ boot_index = 0
                         /\ Boot!IsComplete' <=>
                              allocator_phase' = "Heap" /\ Spawned = {next_task_id}
                      \/ /\ IsHostStep /\ boot_index' = boot_index + 1
                         /\ UNCHANGED <<taskVars, memoryVars>>
    OBVIOUS
  <2>1. ASSUME NEW context \in Context, HandleSyscall(context)
        PROVE  FALSE
    BY <2>1, CallShape, RejectAnswers DEF IsCompleted, Completed, hostVars
  <2>2. CASE InitializeHost
    BY <2>2, BootOutcome
  <2>3. CASE HostCall
    <3>1. PICK phase \in HostBoot : HostCompletes(phase)
      BY <2>3 DEF HostCall, HostDrivesScheduler, HostMovesAllocator, HostAppends,
         HostRegisters, hostVars
    <3>2. boot_index' = boot_index + 1 /\ UNCHANGED <<taskVars, memoryVars>>
      BY <3>1, BootSteps DEF HostCompletes, Inv
    <3>3. IsHostStep
      BY <2>3, HostStepsAreHostSteps DEF Inv
    <3>4. QED
      BY <3>2, <3>3
  <2>4. CASE Return
    BY <2>4 DEF Return, hostVars
  <2>5. QED
    BY <2>1, <2>2, <2>3, <2>4 DEF Next, KernelNext
<1>2. QED
  BY <1>1, Invariance, PTL DEF Spec, BootIsAllOrNothing

(***************************************************************************)
(* Complete progress can be taken for a kernel that is up: the allocator   *)
(* in its last phase, and a Runtime task in the queue, where it keeps its  *)
(* slot when it has ended.                                                 *)
(***************************************************************************)
CompleteIsUp ==
  Boot!IsComplete =>
    /\ allocator_phase = "Heap"
    /\ \E i \in Tasks!Slot : tasks[i].id # Tasks!NoTask /\ tasks[i].class = "Runtime"

\* The allocator never leaves its last phase.
LEMMA HeapStays ==
  ASSUME Inv, [Next]_vars, allocator_phase = "Heap"
  PROVE  allocator_phase' = "Heap"
<1>1. ASSUME NEW phase, Memory!SetAllocatorPhase(phase)
      PROVE  allocator_phase' = "Heap"
  BY <1>1 DEF Memory!SetAllocatorPhase, Memory!PhaseAllowed
<1>2. CASE Memory!Next
  BY <1>1, <1>2 DEF Memory!Next, Memory!SetUserBounds,
     Memory!SetMaxUserBufferLen, Memory!SetMinimumUserAlignment, Memory!ShareRegion,
     Memory!SealSharedRegion
<1>3. CASE BootMovesAllocator \/ UNCHANGED memoryVars
  BY <1>3 DEF BootMovesAllocator, memoryVars
<1>4. QED
  BY <1>2, <1>3, ManagerStep DEF Inv

\* A task in the queue keeps its slot, id and class.
LEMMA TasksStay ==
  ASSUME Inv, [Next]_vars, NEW i \in Tasks!Slot, tasks[i].id # Tasks!NoTask
  PROVE  tasks'[i].id = tasks[i].id /\ tasks'[i].class = tasks[i].class
<1>1. [TaskProofs!Next]_(TaskProofs!vars)
  BY SchedulerStep, SameScheduler DEF Inv, Tasks!Next, Tasks!CoopNext, TaskProofs!vars,
     taskVars
<1>2. i \in TaskProofs!Slot /\ i \in TaskProofs!Occupied
  BY DEF Tasks!Slot, TaskProofs!Slot, TaskProofs!Occupied, Tasks!NoTask, TaskProofs!NoTask
<1>3. TaskProofs!Evolves(tasks[i], tasks'[i])
  BY <1>1, <1>2, TaskAssumptions, TaskProofs!StepEvolves DEF Inv, TaskProofs!IsNewTask
<1>4. QED
  BY <1>3 DEF TaskProofs!Evolves

\* A host may complete what a failed boot left, whether or not the work was done.  Where
\* it leaves the phases to initialize_host, complete progress means a kernel that is up.
THEOREM CompleteBootIsUp ==
  ASSUME HostBoot = {}
  PROVE  Spec => []CompleteIsUp
<1>1. Init => CompleteIsUp
  BY BootOrder DEF Init, Boot!Init, Boot!IsComplete, CompleteIsUp
<1>2. Inv /\ CompleteIsUp /\ [Next]_vars => CompleteIsUp'
  <2> SUFFICES ASSUME Inv, CompleteIsUp, [Next]_vars, Boot!IsComplete'
               PROVE  /\ allocator_phase' = "Heap"
                      /\ \E i \in Tasks!Slot : /\ tasks'[i].id # Tasks!NoTask
                                               /\ tasks'[i].class = "Runtime"
    BY DEF CompleteIsUp
  <2>1. CASE Boot!IsComplete
    BY <2>1, HeapStays, TasksStay DEF CompleteIsUp
  <2>2. CASE InitializeHost
    <3>1. boot_index' = 14
      BY BootOrder DEF Boot!IsComplete
    <3>2. /\ allocator_phase' = "Heap" /\ Spawn(DefaultPriority) /\ SpawnResult = "Ok"
      BY <2>2, <3>1, BootStep DEF Inv
    <3>3. PICK i \in Tasks!Slot :
            tasks' = [tasks EXCEPT
                        ![i] = Tasks!NewTask(next_task_id, RuntimeArg(DefaultPriority))]
      BY <3>2, SpawnShape DEF Tasks!SpawnInserted
    <3>4. tasks'[i].id = next_task_id /\ tasks'[i].class = "Runtime"
      BY <3>3, SameScheduler
         DEF Inv, TaskProofs!IInv, Tasks!TypeOK, Tasks!NewTask, RuntimeArg
    <3>5. next_task_id # Tasks!NoTask
      BY SameScheduler, PartsAssumption
         DEF Inv, TaskProofs!IInv, Tasks!TypeOK, Tasks!NoTask, Tasks!SizesAssumption
    <3>6. QED
      BY <3>2, <3>4, <3>5
  <2>3. CASE boot_index' = boot_index
    BY <2>1, <2>3 DEF Boot!IsComplete
  <2>4. boot_index' # boot_index => InitializeHost
    <3>1. ASSUME NEW context \in Context, HandleSyscall(context)
          PROVE  boot_index' = boot_index
      BY <3>1, CallShape, RejectAnswers DEF IsCompleted, Completed, hostVars
    <3>2. CASE HostCall \/ Return \/ UNCHANGED vars
      BY <3>2 DEF HostCall, HostDrivesScheduler, HostMovesAllocator, HostAppends,
         HostRegisters, Return, hostVars, vars
    <3>3. QED
      BY <3>1, <3>2 DEF Next, KernelNext
  <2>5. QED
    BY <2>2, <2>3, <2>4
<1>3. QED
  BY <1>1, <1>2, Invariance, PTL DEF Spec

-----------------------------------------------------------------------------
(* What the parts promise about steps, and to hosts that keep to some calls *)

\* Whatever is called, no task in the kernel's queue is replaced, and none changes state
\* along an edge that valid_transition forbids.
THEOREM TasksKeepTheirLifecycle == Spec => Tasks!LifecycleRespected
<1>1. Spec => TaskProofs!LifecycleRespected
  BY ImplementsScheduler, TaskAssumptions, TaskProofs!LifecycleIsRespected, PTL
<1>2. [\A i \in TaskProofs!Occupied :
         /\ tasks'[i].id = tasks[i].id
         /\ \/ tasks'[i].state = tasks[i].state
            \/ TaskProofs!ValidTransition(tasks[i].state, tasks'[i].state)]_(TaskProofs!vars)
      => [\A i \in Tasks!Occupied :
            /\ tasks'[i].id = tasks[i].id
            /\ \/ tasks'[i].state = tasks[i].state
               \/ Tasks!ValidTransition(tasks[i].state, tasks'[i].state)]_(Tasks!vars)
  BY Zenon DEF TaskProofs!Occupied, Tasks!Occupied, TaskProofs!Slot, Tasks!Slot,
     TaskProofs!NoTask, Tasks!NoTask, TaskProofs!ValidTransition, Tasks!ValidTransition,
     TaskProofs!vars, Tasks!vars
<1>3. QED
  BY <1>1, <1>2, PTL DEF TaskProofs!LifecycleRespected, Tasks!LifecycleRespected

\* A range a task has sealed stays sealed, whatever calls follow, and a boot, which moves
\* the allocator without a call of the manager, touches no range.
THEOREM SharedRangesStaySealed == Spec => Memory!SealIsPermanent
<1> DEFINE Kept(i) ==
      /\ shared_regions[i].sealed => shared_regions'[i] = shared_regions[i]
      /\ shared_regions'[i].id = shared_regions[i].id
      /\ shared_regions'[i].owner_task = shared_regions[i].owner_task
      /\ shared_regions'[i].start = shared_regions[i].start
      /\ shared_regions'[i].len = shared_regions[i].len
      /\ shared_regions'[i].permissions \subseteq shared_regions[i].permissions \cup {"SEALED"}
<1>1. Inv /\ [Next]_vars =>
        [\A i \in Memory!Slot : shared_regions[i].id # Memory!NoRegion => Kept(i)]_(Memory!vars)
  <2> SUFFICES ASSUME Inv, [Next]_vars, NEW i \in Memory!Slot,
                      shared_regions[i].id # Memory!NoRegion
               PROVE  Kept(i)
    OBVIOUS
  <2>1. CASE [Memory!Next]_memoryVars
    <3>1. [MemoryProofs!Next]_(MemoryProofs!vars)
      BY <2>1, SameManager DEF MemoryProofs!vars, memoryVars
    <3>2. MemoryProofs!Permanent(shared_regions[i], shared_regions'[i])
      BY <3>1, MemoryAssumption, MemoryProofs!NextPermanent
         DEF Inv, Memory!Slot, MemoryProofs!Slot, Memory!NoRegion, MemoryProofs!NoRegion
    <3>3. QED
      BY <3>2 DEF MemoryProofs!Permanent
  <2>2. CASE BootMovesAllocator
    BY <2>2 DEF BootMovesAllocator
  <2>3. QED
    BY <2>1, <2>2, ManagerStep DEF Inv
<1>2. QED
  BY <1>1, Invariance, PTL DEF Spec, Memory!SealIsPermanent

\* Registering a device, between whatever calls, changes no answer about another one.
THEOREM DeviceAnswersStay == Spec => Devices!AnswersAreStable
<1>1. Init => DevicesProofs!Init
  BY SameRegistry DEF Init
<1>2. [Next]_vars => [DevicesProofs!Next]_devices
  BY RegistryStep, SameRegistry
<1>3. Spec => DevicesProofs!AnswersAreStable
  BY <1>1, <1>2, DeviceAssumption, DevicesProofs!AnswersStay, PTL
     DEF Spec, DevicesProofs!Spec
<1>4. [\A id \in {devices[i].id : i \in DOMAIN devices}, caller \in SUBSET Capability :
         /\ DevicesProofs!OpenResult(id, caller)' = DevicesProofs!OpenResult(id, caller)
         /\ \A op \in Operation, in_len, out_len \in 0..MaxLen :
              DevicesProofs!CallResult(id, op, caller, in_len, out_len)'
                = DevicesProofs!CallResult(id, op, caller, in_len, out_len)]_devices
      => [\A id \in {devices[i].id : i \in DOMAIN devices}, caller \in SUBSET Capability :
            /\ Devices!OpenResult(id, caller)' = Devices!OpenResult(id, caller)
            /\ \A op \in Operation, in_len, out_len \in 0..MaxLen :
                 Devices!CallResult(id, op, caller, in_len, out_len)'
                   = Devices!CallResult(id, op, caller, in_len, out_len)]_devices
  BY Zenon DEF DevicesProofs!OpenResult, Devices!OpenResult, DevicesProofs!CallResult,
     Devices!CallResult, DevicesProofs!SlotsOf, Devices!SlotsOf, DevicesProofs!Get,
     Devices!Get, DevicesProofs!IsAvailable, Devices!IsAvailable, DevicesProofs!Supports,
     Devices!Supports, DevicesProofs!HoldsRequired, Devices!HoldsRequired
<1>5. QED
  BY <1>3, <1>4, PTL DEF DevicesProofs!AnswersAreStable, Devices!AnswersAreStable

\* A cooperative host: it schedules, spawns and cancels, but leaves transition alone.
LEMMA ImplementsCooperation ==
  ASSUME HostState = {}
  PROVE  Spec => TaskProofs!CoopSpec
<1>1. Init => TaskProofs!Init
  BY SameScheduler DEF Init
<1>2. Inv /\ [Next]_vars => [TaskProofs!CoopNext]_(TaskProofs!vars)
  <2> SUFFICES ASSUME Inv, [Next]_vars
               PROVE  [Tasks!CoopNext]_taskVars
    BY SameScheduler DEF TaskProofs!vars, taskVars
  <2>1. CASE HostDrivesScheduler
    BY <2>1 DEF HostDrivesScheduler, Tasks!CoopNext, Tasks!FacadeNext
  <2>2. CASE HostCall /\ ~HostDrivesScheduler
    BY <2>2 DEF HostCall, HostMovesAllocator, HostAppends, HostRegisters, HostCompletes
  <2>3. CASE UNCHANGED vars
    BY <2>3 DEF vars
  <2>4. CASE KernelNext
    <3>1. ~IsHostStep \/ UNCHANGED taskVars
      <4>1. ASSUME NEW context \in Context, HandleSyscall(context) PROVE ~IsHostStep
        BY <4>1, CallAnswers DEF IsHostStep
      <4>2. CASE InitializeHost
        BY <4>2, BootStep DEF Inv, IsHostStep
      <4>3. QED
        BY <2>4, <4>1, <4>2 DEF KernelNext, Return
    <3>2. QED
      BY <3>1, SchedulerStep DEF Inv, Tasks!CoopNext
  <2>5. QED
    BY <2>1, <2>2, <2>3, <2>4 DEF Next
<1>3. QED
  BY <1>1, <1>2, Invariance, PTL DEF Spec, TaskProofs!CoopSpec

\* Under a host that never calls transition, one task of the kernel runs at a time, and
\* whatever calls are made a ready task is passed over a bounded number of times in a row.
THEOREM NobodyStarvesInKernel ==
  ASSUME HostState = {}
  PROVE  Spec => [](Tasks!OnlyCurrentRuns /\ Tasks!WaitBounded)
<1>1. Spec => []TaskProofs!OnlyCurrentRuns
  BY ImplementsCooperation, TaskAssumptions, TaskProofs!OneTaskRuns, PTL
<1>2. Spec => []TaskProofs!WaitBounded
  BY ImplementsCooperation, TaskAssumptions, TaskProofs!NobodyStarves, PTL
<1>3. /\ TaskProofs!OnlyCurrentRuns <=> Tasks!OnlyCurrentRuns
      /\ TaskProofs!WaitBounded <=> Tasks!WaitBounded
  BY SameScheduler
<1>4. QED
  BY <1>1, <1>2, <1>3, PTL

\* There too an age counts the rounds a task has been passed over, also across the calls
\* that other tasks make in between.
THEOREM AgesCountRoundsInKernel ==
  ASSUME HostState = {}
  PROVE  Spec => [][\A i \in Tasks!Occupied :
                      tasks[i].state = "Ready" /\ tasks'[i].state = "Ready" =>
                        tasks'[i].age = tasks[i].age + (tick' - tick)]_taskVars
<1>1. Spec => TaskProofs!AgeCountsRounds
  BY ImplementsCooperation, TaskAssumptions, TaskProofs!AgesCountRounds, PTL
<1>2. [\A i \in TaskProofs!Occupied :
         tasks[i].state = "Ready" /\ tasks'[i].state = "Ready" =>
           tasks'[i].age = tasks[i].age + (tick' - tick)]_(TaskProofs!vars)
      => [\A i \in Tasks!Occupied :
            tasks[i].state = "Ready" /\ tasks'[i].state = "Ready" =>
              tasks'[i].age = tasks[i].age + (tick' - tick)]_taskVars
  BY Zenon DEF TaskProofs!Occupied, Tasks!Occupied, TaskProofs!Slot, Tasks!Slot,
     TaskProofs!NoTask, Tasks!NoTask, TaskProofs!vars, taskVars
<1>3. QED
  BY <1>1, <1>2, PTL DEF TaskProofs!AgeCountsRounds

\* Under such a host, with the code's relation of widths (a wait of at most 542 rounds
\* against a cast that wraps at 1024), waiting costs no task of the kernel its priority.
THEOREM WaitingKeepsPriorityInKernel ==
  ASSUME HostState = {}, TaskProofs!NoWrap
  PROVE  Spec => Tasks!AgingNeverLowersPriority
<1>1. Spec => TaskProofs!AgingNeverLowersPriority
  BY ImplementsCooperation, TaskAssumptions, TaskProofs!WaitingKeepsPriority, PTL
<1>2. [\A i \in TaskProofs!Occupied :
         tasks'[i].age > tasks[i].age =>
           tasks'[i].dynamic_priority >= tasks[i].dynamic_priority]_(TaskProofs!vars)
      => [\A i \in Tasks!Occupied :
            tasks'[i].age > tasks[i].age =>
              tasks'[i].dynamic_priority >= tasks[i].dynamic_priority]_(Tasks!vars)
  BY Zenon DEF TaskProofs!Occupied, Tasks!Occupied, TaskProofs!Slot, Tasks!Slot,
     TaskProofs!NoTask, Tasks!NoTask, TaskProofs!vars, Tasks!vars
<1>3. QED
  BY <1>1, <1>2, PTL DEF TaskProofs!AgingNeverLowersPriority, Tasks!AgingNeverLowersPriority

-----------------------------------------------------------------------------
(* Yields *)

\* A task that yields is not turned away by the validator, whatever it may do otherwise.
LEMMA YieldIsDispatched ==
  ASSUME NEW context, context.execution = "Task", NEW number, Reject(number, context)
  PROVE  number # "SysYield"
<1>1. Required("SysYield") = {} /\ "SysYield" \in Number
  BY DEF Required, Number
<1>2. Validate("SysYield", context) = "Ok"
  BY <1>1 DEF Validate, AllowsContext
<1>3. QED
  BY <1>2 DEF Reject

\* How sys_yield may be answered, before its step is taken.
YieldIsAnswered ==
  \/ answer'.status = "Ok"
  \/ answer'.status = "DeadlineExceeded" /\ Tasks!BudgetSpent
  \/ answer'.status = "Internal" /\ tick = TickMax

IsYield ==
  IsCall /\ answer'.number = "SysYield" /\ answer'.context.execution = "Task"

LEMMA YieldStep ==
  ASSUME Inv, [Next]_vars, ~UNCHANGED vars, IsYield
  PROVE  YieldIsAnswered
<1>1. PICK context \in Context :
        (\E number \in Callable : Reject(number, context)) \/ IsCompleted(context)
  BY CallCases DEF IsYield
<1>2. ASSUME NEW number \in Callable, Reject(number, context)
      PROVE  FALSE
  BY <1>2, RejectAnswers, YieldIsDispatched DEF IsYield
<1>3. PICK number, error, value : Completed(number, context, error, value)
  BY <1>1, <1>2 DEF IsCompleted
<1>4. answer'.number = number /\ answer'.status = Status(error)
  BY <1>3, CompleteAnswers DEF Completed
<1>5. YieldAnswers(error)
  BY <1>3, <1>4 DEF Completed, IsYield
<1>6. QED
  BY <1>4, <1>5 DEF YieldAnswers, YieldIsAnswered, Status

\* sys_yield by a task fails for two reasons only, the end of time and the current task's
\* budget: capabilities, a full queue or an id that is gone do not come into it.
THEOREM YieldsFailForReason == Spec => [][IsYield => YieldIsAnswered]_vars
<1>1. Inv /\ [Next]_vars => [IsYield => YieldIsAnswered]_vars
  BY YieldStep
<1>2. QED
  BY <1>1, Invariance, PTL DEF Spec

\* The facade spawns tasks without budgets.  Under a host that does so too, whatever else
\* it calls, a task that yields is never refused with DeadlineExceeded.
THEOREM YieldsSucceed ==
  ASSUME \A arg \in HostSpawn : arg.max_ticks = 0
  PROVE  Spec => [][IsYield => \/ answer'.status = "Ok"
                               \/ answer'.status = "Internal" /\ tick = TickMax]_vars
<1>1. TaskProofs!Unlimited
  BY DEF TaskProofs!Unlimited, RuntimeArg
<1>2. Spec => []~Tasks!BudgetSpent
  <2>1. Spec => []~TaskProofs!BudgetSpent
    BY <1>1, ImplementsScheduler, TaskAssumptions, TaskProofs!UnlimitedTasksYield, PTL
  <2>2. TaskProofs!BudgetSpent <=> Tasks!BudgetSpent
    BY SameScheduler
  <2>3. QED
    BY <2>1, <2>2, PTL
<1>3. ~Tasks!BudgetSpent /\ [IsYield => YieldIsAnswered]_vars
      => [IsYield => \/ answer'.status = "Ok"
                     \/ answer'.status = "Internal" /\ tick = TickMax]_vars
  BY DEF YieldIsAnswered
<1>4. QED
  BY <1>2, <1>3, YieldsFailForReason, PTL

-----------------------------------------------------------------------------
(* Calls that pass their checks are carried out *)

\* In the kernel too every search that a call relies on has one result: no call that its
\* checks let through is stuck, whatever was called before.
THEOREM CallsAreNeverStuck ==
  Spec => [](/\ TaskProofs!SearchesSucceed
             /\ MemoryProofs!SearchesSucceed
             /\ DevicesProofs!SearchesSucceed)
<1>1. Spec => []TaskProofs!SearchesSucceed
  BY ImplementsScheduler, TaskAssumptions, TaskProofs!MethodsAreNeverStuck, PTL
<1>2. Inv => MemoryProofs!SearchesSucceed
  BY MemoryAssumption, MemoryProofs!SearchesFollow DEF Inv
<1>3. Inv => DevicesProofs!SearchesSucceed
  BY DeviceAssumption, DevicesProofs!SearchesFollow DEF Inv
<1>4. QED
  BY <1>1, <1>2, <1>3, Invariance, PTL
=============================================================================
