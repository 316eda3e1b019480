---------------------------- MODULE HostedKernel ----------------------------
(***************************************************************************)
(* The kernel of Kernel together with its host.  The fields of Kernel in   *)
(* src/src/lib.rs are public: between two syscalls a host may call any     *)
(* method of the subsystems itself, as tests/smoke.rs does.  What it may   *)
(* pass is bounded by the constants below and by HostSpawn and Descriptor; *)
(* an empty set keeps it from such calls.  The limits for user buffers are *)
(* the ones Kernel::new sets; MemoryManager's own run also moves them.     *)
(***************************************************************************)
EXTENDS Kernel

CONSTANTS
  HostSchedules, \* whether the host calls methods of the scheduler
  HostState,   \* task states the host passes to Scheduler::transition
  HostPhase,   \* allocator phases it sets
  HostBoot     \* boot phases it completes

ASSUME HostAssumption ==
  HostState \subseteq Tasks!TaskState /\ HostPhase \subseteq Memory!Phase

\* A step of the host that does not go through a method of Kernel.
IsHostStep ==
  /\ answer = NoAnswer /\ answer' = NoAnswer
  /\ ~(boot_index = 0 /\ boot_index' > 1)

-----------------------------------------------------------------------------

HostDrivesScheduler ==
  /\ HostSchedules /\ answer = NoAnswer
  /\ \/ Tasks!ScheduleNext
     \/ Tasks!YieldIdle \/ Tasks!YieldCurrent \/ Tasks!YieldAtLastTick
     \/ \E arg \in HostSpawn : Tasks!SpawnInserted(arg) \/ Tasks!SpawnRejected
     \/ \E id \in Tasks!QueuedIds :
          Tasks!Cancel(id) \/ \E to \in HostState : Tasks!Transition(id, to)
  /\ UNCHANGED <<memoryVars, hostVars, next_sequence, answer>>

HostMovesAllocator ==
  /\ answer = NoAnswer
  /\ \E phase \in HostPhase : Memory!SetAllocatorPhase(phase)
  /\ UNCHANGED <<taskVars, hostVars, next_sequence, answer>>

HostRegisters(descriptor) ==
  /\ answer = NoAnswer
  /\ Devices!Register(descriptor)
  /\ UNCHANGED <<taskVars, memoryVars, boot_index, next_sequence, answer>>

HostCompletes(phase) ==
  /\ answer = NoAnswer
  /\ Boot!Complete(phase)
  /\ UNCHANGED <<taskVars, memoryVars, devices, next_sequence, answer>>

\* The host appends an audit event of its own.
HostAppends ==
  /\ answer = NoAnswer
  /\ next_sequence' = (next_sequence + 1) % SeqSpace
  /\ UNCHANGED <<taskVars, memoryVars, hostVars, answer>>

HostCall ==
  \/ HostDrivesScheduler \/ HostMovesAllocator \/ HostAppends
  \/ \E descriptor \in Descriptor : HostRegisters(descriptor)
  \/ \E phase \in HostBoot : HostCompletes(phase)

Next == KernelNext \/ HostCall

Spec == Init /\ [][Next]_vars

-----------------------------------------------------------------------------
(* Properties; a step is a call of handle_syscall exactly when it ends with *)
(* an answer.                                                               *)

IsCall == answer' # NoAnswer

AuditEntry ==
  [sequence : 0..(SeqSpace - 1),
   kind : {AuditEvent(n) : n \in Number} \ {NoEvent},
   severity : {"Notice", "Warning", "Critical"}, task : Task, syscall : Number,
   status : KernelStatus]

FaultEntry ==
  [kind : {"InvalidSyscall", "CapabilityDenied", "InvariantViolation"},
   severity : {"Warning", "Error"}, task : Task, status : KernelStatus \ {"Ok"},
   reason : KernelError, phase : {"Boot", "Runtime"}]

\* Every variable has its type; the subsystems keep theirs.
TypeOK ==
  /\ Tasks!TypeOK /\ Memory!TypeOK /\ Devices!TypeOK
  /\ boot_index \in 0..Len(Boot!BOOT_SEQUENCE)
  /\ next_sequence \in 0..(SeqSpace - 1)
  /\ answer # NoAnswer =>
       /\ answer.number \in Number \cup {UnknownNumber}
       /\ answer.context \in Context
       /\ answer.status \in KernelStatus
       /\ answer.audited \in Seq(AuditEntry) /\ Len(answer.audited) <= 1
       /\ answer.faulted \in Seq(FaultEntry) /\ Len(answer.faulted) <= 1

\* The tasks that a step adds to the queue, and those it ends.
Spawned == Tasks!QueuedIds' \ Tasks!QueuedIds
Ended ==
  {tasks[i].id : i \in {j \in Tasks!Slot : tasks[j].id # Tasks!NoTask
                          /\ tasks[j].state # "Zombie" /\ tasks'[j].state = "Zombie"}}

(***************************************************************************)
(* Deny by default (README.md, scope): whatever a caller presents, tasks   *)
(* and shared memory are changed from task context only; a task is created *)
(* only with TaskSpawn, ended only by itself or with TaskManage, and       *)
(* memory is shared or sealed only with MemoryShare.  The task a caller    *)
(* names is not compared with the current one; still, a call takes the     *)
(* processor from the current task only by yielding or by ending it.       *)
(***************************************************************************)
AuthorityIsNeeded ==
  [][IsCall =>
       LET capabilities == answer'.context.capabilities
       IN  /\ UNCHANGED <<taskVars, memoryVars>> \/ answer'.context.execution = "Task"
           /\ Spawned # {} => "TaskSpawn" \in capabilities
           /\ Ended \subseteq {answer'.context.task} \/ "TaskManage" \in capabilities
           /\ current_task' # current_task =>
                answer'.number = "SysYield" \/ current_task \in Ended
           /\ shared_regions' # shared_regions => "MemoryShare" \in capabilities]_vars

(***************************************************************************)
(* Authority changes are never sampled away (audit.rs, module comment):    *)
(* a call that creates or ends a task, or changes shared memory, leaves    *)
(* one audit record of a success, with the caller's task and this call.    *)
(***************************************************************************)
ChangesAreAudited ==
  [][IsCall /\ (Spawned # {} \/ Ended # {} \/ shared_regions' # shared_regions) =>
       /\ Len(answer'.audited) = 1
       /\ answer'.audited[1].task = answer'.context.task
       /\ answer'.audited[1].syscall = answer'.number
       /\ answer'.audited[1].status = "Ok"]_vars

(***************************************************************************)
(* Security denials are never sampled away (audit.rs, module comment): a   *)
(* call that is answered PermissionDenied leaves a critical audit record.  *)
(***************************************************************************)
IsAuditedDenial ==
  answer'.status = "PermissionDenied" =>
    /\ Len(answer'.audited) = 1
    /\ answer'.audited[1].severity = "Critical"
    /\ answer'.audited[1].status = "PermissionDenied"

DenialsAreAudited == [][IsCall => IsAuditedDenial]_vars

\* The same of every call but sys_info, whose denials come from its handler and
\* which has no audit event.
PrivilegedDenialsAreAudited ==
  [][IsCall /\ answer'.number # "SysInfo" => IsAuditedDenial]_vars

(***************************************************************************)
(* A failed call is reported and a successful one is not: the two paths    *)
(* through handle_syscall record one fault each, with the status that is   *)
(* returned and the caller's task, although the handlers' path derives the *)
(* record's error back from the status.  Only calls made while booting are *)
(* reported under the boot phase.                                          *)
(***************************************************************************)
FaultsMatchAnswers ==
  [][IsCall =>
       IF answer'.status = "Ok" THEN answer'.faulted = << >>
       ELSE /\ Len(answer'.faulted) = 1
            /\ answer'.faulted[1].status = answer'.status
            /\ answer'.faulted[1].task = answer'.context.task
            /\ answer'.faulted[1].phase = "Boot" =>
                 answer'.context.execution = "EarlyBoot"]_vars

(***************************************************************************)
(* A call acts exactly when it is answered Ok.  A failed call changes      *)
(* nothing its caller or another task could observe: the run queue, the    *)
(* current task, memory and devices are as before.  There are two          *)
(* exceptions: a spawn that found the queue full has used up an id, and a  *)
(* yield that found no tick left has charged the current task and made it  *)
(* ready, but no other.  A successful call has created the task it         *)
(* returns, or ended the one it was asked to end.                          *)
(***************************************************************************)
ChargedForNothing ==
  /\ answer'.number = "SysYield" /\ answer'.status = "Internal" /\ tick = TickMax
  /\ \E i \in Tasks!SlotsOf(current_task) :
       /\ tasks[i].max_ticks # 0 => tasks[i].remaining_ticks # 0
       /\ tasks' = [tasks EXCEPT
            ![i].state = "Ready",
            ![i].remaining_ticks = IF tasks[i].max_ticks = 0 THEN @ ELSE @ - 1]

CallsActAsAnswered ==
  [][IsCall =>
       LET succeeds(number) == answer'.status = "Ok" /\ answer'.number = number
       IN  /\ answer'.status # "Ok" =>
                /\ tasks' = tasks \/ ChargedForNothing
                /\ \/ next_task_id' = next_task_id
                   \/ /\ answer'.number = "SysTaskSpawn" /\ Tasks!Occupied = Tasks!Slot
                      /\ next_task_id' = next_task_id + 1
                /\ UNCHANGED <<current_task, tick, memoryVars, hostVars>>
           /\ succeeds("SysTaskSpawn") => Spawned = {answer'.value}
           /\ succeeds("SysTaskCancel") => Ended = {answer'.value}
           /\ succeeds("SysExit") => Ended = {answer'.context.task}]_vars

(***************************************************************************)
(* The numbers that successful calls return name their results.  A shared  *)
(* region is the caller's, in a slot that was free; a sealed one is sealed *)
(* by now.  Sequence numbers name events, although they are read before    *)
(* the call's own event is appended: sys_audit_append returns the number   *)
(* of the event that records it, sys_audit_verify the number of the event  *)
(* before its own, or 0 if the counter has just wrapped around.            *)
(***************************************************************************)
AnswersNameResults ==
  [][IsCall /\ answer'.status = "Ok" =>
       /\ answer'.number = "SysMemShare" =>
            \E i \in Memory!Slot :
              /\ shared_regions[i].id = Memory!NoRegion
              /\ shared_regions'[i].id = answer'.value
              /\ shared_regions'[i].owner_task = answer'.context.task
       /\ answer'.number = "SysMemSeal" =>
            \E i \in Memory!Slot :
              shared_regions'[i].id = answer'.value /\ shared_regions'[i].sealed
       /\ answer'.number \in {"SysAuditAppend", "SysAuditVerify"} =>
            /\ Len(answer'.audited) = 1
            /\ LET own == answer'.audited[1].sequence
               IN  CASE answer'.number = "SysAuditAppend" -> answer'.value = own
                     [] answer'.number = "SysAuditVerify" /\ own # 0 -> answer'.value = own - 1
                     [] OTHER -> answer'.value = 0]_vars

(***************************************************************************)
(* The facade uses the scheduler as FacadeSpec of Scheduler describes,     *)
(* whatever the host does to it in between: boot and every syscall make a  *)
(* step of FacadeNext or none, and the host's own calls a step of Next.    *)
(***************************************************************************)
UsesScheduler ==
  /\ Tasks!Init
  /\ [][IF IsHostStep THEN Tasks!Next ELSE Tasks!FacadeNext]_taskVars

(***************************************************************************)
(* The facade uses the memory manager through its public methods only, so  *)
(* what MemoryManager shows of seals and ids holds in the kernel.          *)
(* initialize_host alone makes several of these calls in a step: it takes  *)
(* the allocator through its phases to the last, from one of the first     *)
(* two, and leaves bounds, alignment, shared ranges and their ids alone.   *)
(***************************************************************************)
BootMovesAllocator ==
  /\ boot_index = 0 /\ boot_index' > 1
  /\ allocator_phase \in {"Uninitialized", "BootBump"} /\ allocator_phase' = "Heap"
  /\ UNCHANGED <<bounds, alignment, shared_regions, next_shared_id>>

UsesMemory ==
  /\ Memory!Init
  /\ [][Memory!Next \/ BootMovesAllocator]_memoryVars

(***************************************************************************)
(* initialize_host works once and from the beginning: it brings progress   *)
(* from nothing to complete exactly when the allocator is up and it        *)
(* spawned the runtime task, and after a failure in the middle, or after a *)
(* phase that the host completed itself, it never gets anywhere again.     *)
(* The host completes one phase at a time, and each phase once; boot.rs    *)
(* does not ask it whether the phase's work was done, so progress that the *)
(* host took to the end itself says nothing of allocator and runtime task. *)
(***************************************************************************)
BootIsAllOrNothing ==
  [][boot_index' # boot_index =>
       \/ /\ ~IsHostStep /\ boot_index = 0
          /\ Boot!IsComplete' <=> allocator_phase' = "Heap" /\ Spawned = {next_task_id}
       \/ /\ IsHostStep /\ boot_index' = boot_index + 1
          /\ UNCHANGED <<taskVars, memoryVars>>]_vars
=============================================================================
