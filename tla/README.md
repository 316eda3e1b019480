# A verification of alani-kernel

The kernel in `src/` is a host-mode Rust library: a cooperative scheduler, a
memory manager, a device registry, capabilities, a syscall table and the
`Kernel` facade that joins them, with an audit log and a fault reporter. There
are no threads, locks, interrupt handlers, timers or persistence: every
operation is a method on `&mut self`, so a call is one atomic step, and what is
hard is the *order* of legal calls, the tables and counters at their limits,
calls that fail in the middle, and state that is kept in two places.

These TLA+ modules model that behaviour; TLC checks them on small instances and
TLAPS proves the properties that matter most for every value of the constants.

## 1. Inventory

| Component (`src/src/`) | State | Operations | What makes it correct |
|---|---|---|---|
| Scheduler, `scheduler.rs` | run queue of task control blocks, current task, next id, tick | `spawn`, `transition`, `yield_current`, `schedule_next`, `cancel` | one task runs; nobody starves; ids name one task for ever; no counter fails in the middle of a step; budgets pay for selections; dead tasks stay dead |
| Kernel facade, `lib.rs` | the subsystems, as public fields | `initialize_host`, `handle_syscall` with 30 handlers | deny by default; authority changes and denials audited; faults for exactly the failed calls; a failed call changes nothing but what is said of it; `initialize_host` is all or nothing |
| Syscall table, `syscall.rs` | none | `from_raw`, `lookup`, `validate` | with the handlers, no caller gets past its authority or its context |
| Status mapping, `error.rs` | none | `KernelError::status` | what is returned and what is recorded agree |
| Capabilities, `capability.rs` | table of records, next id and generation | `issue`, `derive`, `revoke`, `resolve` | a handle resolves to what it was issued with until it is revoked, then never again; derivation only attenuates |
| Boot memory map, `memory.rs` | list of regions | `push`, `find_containing`, `total_by_kind` | no byte in two regions; totals do not overflow |
| Memory manager, `memory.rs` | allocator phase, user bounds, limit, alignment, shared ranges | setters, `validate_user_range`, `validate_user_buffer`, `share_region`, `seal_shared_region` | the range check is exact; ids are unique; seals are coherent and permanent |
| Device registry, `device.rs` | list of descriptors | `register`, `authorize_open`, `authorize_call` | ids are unique; answers do not change; more authority never gets less |
| Audit log, `audit.rs`, and fault reporter, `fault.rs` | ring, cursor, count, sequence counter | `append`, `record_*`, `last`, `get` | the last entries, in order, contiguous numbers |
| Boot progress, `boot.rs` | completed phases | `complete` | phases in order, each once; `initialize_host` completes it exactly when its work is done, and only from the beginning. A host may complete phases itself, and then progress says nothing of the work |
| ABI structures, `lib.rs`, `syscall.rs` | none | layout and constants | not modelled: no state |

**How they interact.** A platform layer builds a `DispatchContext` (task id,
capabilities, execution context) and a frame and calls `handle_syscall`. That
looks the number up, checks execution context and capabilities, and either
records a rejection or dispatches to a handler. Handlers call the scheduler, the
memory manager or the device registry; the result's status decides what is
appended to the audit log and to the fault reporter. The subsystems do not call
each other, and do not call back. The host also reaches them directly, because
the kernel's fields are public: between two syscalls it registers devices, drives
the scheduler, moves the allocator, completes boot phases, appends audit events,
sets bounds. The capability registry is not wired in: `SysCapDerive` and
`SysCapRevoke` return Ok without calling it.

**What is hard.** Starvation under three different boosts; two widths of
arithmetic in the aging formula; a `checked_add` in the middle of an update
loop; a yield that changes state and then fails; a budget that, once spent, stops
everybody who relies on yielding; slots reused under handles that
callers still hold; ring arithmetic when the ring is exactly full and when the
counter wraps; end points at `u64::MAX`; three encodings of "sealed"; two paths
that audit; a host whose calls fall between two syscalls, or before the boot.
`PROJECT.json` lists each under `hazards` with its line.

## 2. Modules

| Module | Models | Notes |
|---|---|---|
| `Scheduler` | `scheduler.rs` | `Spec` is the whole interface, `CoopSpec` all but `transition`, `FacadeSpec` what the facade calls; `FairCoopSpec`, `FairFacadeSpec` add fairness |
| `RingLog`, `BoundedHistory` | the ring of `audit.rs` and `fault.rs`; the abstract log it implements | entries are opaque |
| `CapabilityRegistry`, `Authority` | `capability.rs`; the abstract table of grants it implements | `issued`, `revoked` are history variables |
| `MemoryMap` | the boot map of `memory.rs` | |
| `MemoryManager` | the rest of `memory.rs` | |
| `DeviceRegistry` | `device.rs` | |
| `Syscalls` | `error.rs`, the table and validation of `syscall.rs` | operators only |
| `BootProgress` | `boot.rs` | the normative order of phases |
| `Kernel` | `lib.rs`, and how it uses `audit.rs`, `fault.rs` | INSTANCEs `Scheduler`, `MemoryManager`, `DeviceRegistry`, `BootProgress`, EXTENDS `Syscalls` |
| `HostedKernel` | a host that calls the subsystems itself between two syscalls | EXTENDS `Kernel`; its specification and properties |
| `MC*` | values of the constants for TLC | |
| `*Proofs` | theorems | section 5 |

Conventions. One action is one call of a public method that changes state; a
call that returns `Err` without having changed anything is a stuttering step. A
call that fails *after* changing state is an action of its own: `SpawnRejected`
(the id is used up), `YieldAtLastTick` (the current task has been charged and
made ready). An operator `…Result` gives the `KernelError` a method returns, "Ok"
for `Ok(_)`, in the code's order of checks. An operator named `X_Fault`, under a
comment "Fault:", is a plausible bug in `X`; replacing `X` by it makes TLC find
a property violated, which shows that the property can fail.

Correspondence that is not one to one:

* A slot of the run queue or of the shared table is free when its id is 0, as in
  the code; `insert` refuses that id.
* A rights mask is a set of bits. Bits outside the known ones exist
  (`CapabilitySet::from_known_bits` lets them in), hence `Right` and `KnownRight`.
* A pointer is masked with `alignment - 1` in the code; the model takes the
  remainder, which is the same for powers of two, and `TypeOK` of `MemoryManager`
  says the alignment is one.
* `Kernel` keeps the result of a call in `answer` until the caller takes it
  (`Return`). `answer` holds the status, the value and what was appended to the
  two logs; the logs themselves are `RingLog`'s. Of the audit log `Kernel` keeps
  the sequence counter, which two handlers return.
* The facade spawns Runtime tasks with unlimited budgets; `FacadeSpec` allows
  any, for a host that spawns directly and lets tasks yield.

## 3. Runs

| Run | Question and instance | Shows |
|---|---|---|
| `Scheduler` | Every public method in any order; 2 slots, 2 kinds of task, 5 ticks and ids | `TypeOK`, `CurrentRuns`, `SwitchesWithinTicks`, `PriorityIsAged`, `LifecycleRespected` |
| `SchedulerCoop` | Without `transition`; 3 slots, 7 ticks, the strongest task without a budget against the weakest with one of 1 tick; fair scheduling | `QueueCoherent`, `OnlyCurrentRuns`, `WaitBounded`, `AgingNeverLowersPriority`, `ReadyTaskRuns` |
| `SchedulerFacade` | Selection only by yielding; 3 slots, 8 ticks, budgets of 2 ticks and none; fair yielding | `BudgetAccounts`, `ReadyTaskRunsUnlessSpent` |
| `SchedulerTransition` | As `Scheduler` | `OnlyCurrentRuns` is violated (section 6) |
| `RingLog` | Ring of 3, sequence numbers modulo 5 | `LastIsNewest`, `SequencesContiguous`, refinement of `BoundedHistory` |
| `CapabilityRegistry` | 2 slots, 4 handles, generations 1 to 2, 2 known rights and a reserved bit; the known rights are symmetric | `TypeOK`, `HandlesAreFaithful`, `OnlyAttenuated`, refinement of `Authority` |
| `MemoryMap` | 3 regions over 8 bytes, 2 kinds | `RegionsDisjoint`, `FindIsExact`, `TotalsAreBytes` |
| `MemoryManager` | 7 addresses, every bound, limit and alignment, 2 slots, 2 owners, ranges that overlap | `TypeOK`, `RangeCheckIsExact`, `IdsNameSlots`, `SealIsCoherent`, `SealIsPermanent` |
| `DeviceRegistry` | 2 slots, 3 ids and id 0, available and not, guarded and not | unique ids (in `TypeOK`), `AuthorityIsMonotone`, `AnswersAreStable` |
| `KernelTasks` | Task calls by five callers: trusted, plain, with some authority, interrupt, early boot; 2 slots, 3 ticks; in between the host schedules, spawns a task with a budget, cancels, and moves tasks between states | `TypeOK`, `AuthorityIsNeeded`, `ChangesAreAudited`, `CallsActAsAnswered`, `UsesScheduler` |
| `KernelResources` | Every call but four task calls; each way a range is refused; a host that boots, completes phases itself (the first, or the ones that a failed boot left), registers a device, moves the allocator and appends audit events | `PrivilegedDenialsAreAudited`, `FaultsMatchAnswers`, `AnswersNameResults`, `UsesMemory`, `BootIsAllOrNothing` |
| `KernelDenials` | `sys_info` by the same callers | `DenialsAreAudited` is violated (section 6) |

`UsesScheduler` and `UsesMemory` say that the composition keeps to the parts:
every syscall and the boot are steps of `Scheduler`'s `FacadeNext` or leave the
scheduler alone, and the host's calls are steps of its `Next`; every step of the
kernel is a step of `MemoryManager`, or the boot's, which makes several calls at once:
it takes the allocator from one of its first two phases to the last and leaves bounds,
alignment, shared ranges and ids alone. So what is shown of the parts alone holds in the hosted kernel without
being checked again (section 5 proves it), and what is shown of `CoopSpec` holds under
a host that does not call `transition`.

`CallsActAsAnswered` and `AnswersNameResults` tie the two halves of a call together,
what it answers and what it did: a failed one did nothing, a successful spawn, cancel,
exit, share, seal or audit call did it to exactly the task, region or event that it
names. Two failures do something, and the property says what: a spawn on a full queue
uses up an id, and a `sys_yield` that finds no tick left charges the current task and
makes it ready (`ChargedForNothing`), no other task and no other call. The tasks' half
is checked by `KernelTasks`, memory and audit by `KernelResources`.

`AuthorityIsNeeded` and `ChangesAreAudited` are about tasks and shared memory, and
`KernelTasks` makes no memory call, so there only their task half can fail. The theorems
`ChangesNeedAuthority` and `EveryChangeIsAudited` are about both halves and all 30 calls.

`BootIsAllOrNothing` is about `initialize_host`. `boot.rs` asks nobody whether a phase's
work was done: when `initialize_host` has failed at the allocator, a host can complete
the remaining phases one by one, and `KernelResources` has a host that does. Complete
progress then stands for nothing. Where the host leaves the phases to
`initialize_host`, it stands for an allocator in its last phase and a Runtime task in
the queue: theorem `CompleteBootIsUp`.

`ImplementsAuthority` is about identities and slots: the abstract table gives a root
grant any rights, so it would let a derivation add one. That derivation only attenuates
is `OnlyAttenuated`'s.

**Bounds and why they are enough.** The limits of the code are constants, and the
instances put them where the limits are reached: the run queue is full while
more is spawned, ticks and ids run out, the ring goes round more than once and
its counter too, each registry slot is reused and the generation comes round
twice, the address space ends where ranges end. Two slots are enough for what
relates a task to another one; the bound on waiting depends on how many tasks
compete, so `SchedulerCoop` has three, with 7 ticks for a bound of
`WaitBound` = 1 + 1 + 1 + 2 = 5 rounds, and `SchedulerFacade` has 8 for the same
bound: the progress properties are about tasks that are ready in the first two,
respectively three, of them. The scaled-down widths keep the relations the code has:
`AgeAssumption` (priorities, boosts and slots together below the width of an
age: 255 + 96 + 128 + 64 against 65535) is an ASSUME that TLC evaluates, as it
evaluates the ones the kernel's proofs rest on: `PartsAssumption` (the kernel's
constants meet each part's own assumptions) and `HostAssumption` (the host passes
states and phases of the code's types). In
`Scheduler` the numbers `AgeStep` and `U8Max` are small enough for priorities to
saturate. `CHECK_DEADLOCK FALSE` is given where the system really may stop: the
scheduler when ticks and ids have run out, the capability registry when ids
have, the two append-only lists when they are full.

**Fairness and liveness.** Nothing in this library runs by itself: steps happen
when somebody calls. The two fair specifications state who is relied on to go on
calling; the fairness is weak, because nothing but the call itself is needed.
`FairCoopSpec` relies on a host that goes on calling `schedule_next` (a timer of
the platform, in a real kernel), and `ReadyTaskRuns` says that then every ready
task runs, or is cancelled. `FairFacadeSpec` relies on the tasks alone: whoever
has the processor goes on yielding, as cooperative tasks must. There a spent budget
is the one obstacle: `yield_current` fails with `DeadlineExceeded` before it
selects anybody (`scheduler.rs:383`), so `ReadyTaskRunsUnlessSpent` promises
progress only up to the moment the current task gets there, and TLC shows that
nothing else gets in the way. Neither relies on spawns or cancellations.
Both are stated for tasks that are ready with `WaitBound` ticks left
(`Waiting`): the counter stops at `u64::MAX`, and the program's end of time is not
starvation. `WaitBounded` is the safety half: a ready task is passed over at most
`WaitBound` times in a row, whatever is called in between.

## 4. Properties only TLC checks

The two liveness properties, `ReadyTaskRuns` and `ReadyTaskRunsUnlessSpent`: liveness
under fairness needs ENABLED, which the proof system does not reason about. Every other
property that a run expects to hold is also proved, and what is left of these two is
proved as safety: a wait is bounded (`WaitBounded`), an age counts it
(`AgesCountRounds`), the calls that fairness relies on are never stuck
(`MethodsAreNeverStuck`), and only a budget can make a yield fail before the last tick
(`YieldsFailForReason`).

## 5. What is proved

For every value of the constants that the named ASSUMEs allow.

* `SchedulerProofs`, of `Spec`: `TypeOK`, `QueueCoherent`, `SwitchesWithinTicks`,
  `CurrentRuns`. They are inductive only together (`IInv`): that
  `context_switches` keeps its type needs `SwitchesWithinTicks` (a task selected
  at every tick would overflow otherwise); that one slot is selected per tick
  needs unique ids, which `QueueCoherent` gives, because `schedule_next` compares
  ids and not slots. `SwitchesWithinTicks` speaks of pairs of slots because the
  bound on one is not inductive: the sum over two is what a single selection per
  tick preserves. `CurrentRuns` lets the current task be ready only when no tick is
  left. Of `CoopSpec`: `OnlyCurrentRuns`, from `IInv`.
  `MethodsAreNeverStuck`: where the code scans or searches and the model says "there is
  a slot such that", there is one, and one only (`ScanKeepsOne`: the least slot among
  those at the least distance from a bound on scores). An action of the model could
  otherwise be disabled where the method returns, and the other theorems would be empty
  for that call. `MemoryManagerProofs` and `DeviceProofs` have a theorem of that name
  too, and `CallsAreNeverStuck` of `KernelProofs` puts the three together.
* `SchedulerTaskProofs`, of `CoopSpec`: `WaitBounded`. The argument: let `t` be
  ready with age *a*. Selecting `b` before `t` means that `b`'s score was at least
  `t`'s, so `t`'s age exceeds `b`'s by at most `MaxAdvantage` (what priority,
  class and deadline can make up for); `b`'s age then becomes 0. Call the tasks
  younger than `t` *outrun*. While *a* <= `MaxAdvantage` a round costs nothing that
  matters; beyond it, whoever wins was not outrun and now is, and stays so. So
  *a* <= `MaxAdvantage` + the number of tasks outrun, at most `MaxTasks` - 1. That
  is `WaitInv`, the inductive invariant, over cardinalities of sets of slots.
  `AgeAssumption` is needed: with an age that saturates the argument fails.
  `AgesCountRounds` says why a bound on ages is a bound on waiting: while a task stays
  ready its age grows exactly with the tick (it needs `WaitInv`, for an age that
  saturated would stop counting).
* `SchedulerTaskProofs` further says what a single task goes through. `StepEvolves`
  describes once, for every method, how a slot may change (`Evolves`); from it follow, of
  `Spec`, `PriorityIsAged` and `LifecycleRespected`, and of `CoopSpec`
  `AgingNeverLowersPriority`: the 8-bit cast wraps when the age reaches
  `AgeStep * (U8Max + 1)`, and by `WaitBounded` a wait ends before, if
  `NoWrap` holds. With the code's numbers a wait is at most
  255 + 96 + 128 + 63 = 542 rounds and the cast wraps at 1024; without
  `WaitBounded` the property would be false. Of `FacadeSpec`: `BudgetAccounts`. Of
  `Spec`, where every task is spawned without a budget, `UnlimitedTasksYield`: a yield
  is never refused.
  `SelectionKeepsQueue`, `CancelEndsOne` and `SpawnAddsOne` say who enters the queue
  and who ends in one step, for the proofs about the kernel.
* `RingLogProofs`: `TypeOK`, `LastIsNewest`, and that `Spec` implements
  `BoundedHistory!Spec`, with `Retained` (the entries read through `get`) as the
  refinement mapping. The invariant adds that the cursor is the count until the
  ring is full. The SMT solver gets nowhere with `%` on its own, so `WrapOnce` proves
  once what it does below twice the divisor, and `Place` says where an entry is.
  `SequencesContiguous` goes through `Place` too: the numbers of retained entries are
  less than `Size` apart, which `RingAssumption` (`Size <= SeqSpace`) puts within one
  turn of the counter. They are consecutive modulo that turn; older entries have smaller
  numbers as long as the counter has not wrapped since the oldest one was appended.
* `CapabilityProofs`: `TypeOK`, `HandlesAreFaithful`, `OnlyAttenuated`, and that `Spec`
  implements `Authority!Spec`, with `Grants` as the refinement mapping. The
  invariant adds that records and the history of issued handles agree: an
  occupied record has the rights and generation its id was issued with, two
  occupied slots never have the same id, and an id that has not been revoked is
  in some slot. The generation plays no part in it: ids alone are never reused.
  For the refinement, `GrantsAreIssued` rewrites `Grants`, which reads the slots, as
  what the history says is live; a call then adds or removes one id.

* `MemoryMapProofs`: `TypeOK`, `RegionsDisjoint`, `FindIsExact`, `TotalsAreBytes`.
  `OverlapIsSharing` and `ContainsIsInclusion` relate the code's tests on end points to
  sets of bytes; `RegionsDisjoint` is then inductive, and with it at most one region can
  contain a range, so the first one found is the only one. `TotalsAreBytes` is about a
  fold over a set of regions. The induction theorems of the library cannot be
  instantiated here, so `TotalCountsBytes` does without: the number of bytes solves the
  fold's equation, so the equation has a solution; and of the sets of regions where a
  solution is not the number of bytes there would be a smallest (`SmallestSubset`, as
  inclusion is well founded on finite sets), which is not empty, and is right without
  the region the fold takes first, hence right.
* `MemoryManagerProofs`: `IdsNameSlots`, `SealIsCoherent`, `SealIsPermanent`. The
  invariant is the type of the table with the first two; `SealIsPermanent` needs
  them, because sealing a sealed region again writes it again: it changes
  nothing only since flag and bits agree. `TypeOK` and `RangeCheckIsExact` follow
  from a second invariant, `Limits`: bounds in order, limit and alignment not 0,
  the alignment a power of two. `BytesWithin` relates the check of end points, which
  refuses a sum past the address space, to the set of bytes, and `MaskIsMultiple`
  the remainder to the multiples of the alignment. `MethodsAreNeverStuck` adds that the
  next id names the first free slot, and that `share_region` never answers Internal: a
  full table is found full first.
* `DeviceProofs`: `TypeOK` (occupied slots first, ids unique), from which the slot
  `get` finds does not change when others are filled: `AnswersAreStable`. And
  `AuthorityIsMonotone`.

* `KernelProofs`, of `HostedKernel!Spec`: `TypeOK` and the nine action properties that
  `KernelTasks` and `KernelResources` check (`UsesScheduler` and `UsesMemory` among
  them). The argument has three layers.
  *Calls.* `CallShape` is proved handler by handler: every call is either rejected by
  the validator (`Reject`) or was dispatched and `Completed`, which says what it may do
  to tasks and to memory (`TaskEffect`, `MemoryEffect`), what a success has done
  (`Done`), and that only calls with an audit event, or `sys_info`, can be denied by
  their handler. The properties about calls follow from these two cases, from the
  syscall table (`SyscallTable`) and from `StatusOfError`, that the error
  `error_for_status` derives has the status it was derived from.
  *Steps of the parts.* `SchedulerStep`, `ManagerStep` and `RegistryStep`: a step of the
  kernel is a step of each part's interface or leaves it alone.
  *The invariant.* `Inv` is the conjunction of the parts' own inductive invariants with
  the types of boot progress, counter and answer. It needs nothing that relates the
  parts, because no part reads another's state; each conjunct is preserved by the
  part's own lemma. The modules of the parts are instantiated twice, in `Kernel` and with
  their proofs in `KernelProofs`; the lemmas `SameScheduler`, `SameManager` and
  `SameRegistry` say that the two are the same formulas.
  *Failures.* Of the two failed calls that leave a mark, the rejected spawn is seen to be
  on a full queue (`RejectedSpawnIsFull`). The yield at the last tick needs the invariant:
  by `CurrentRuns` the current task was Running, or Ready after such a yield before, so
  in either case it is Ready now and charged once (`LastYieldCharges`).
  *Boot.* `BootWorksOnce` is `BootIsAllOrNothing`. `CompleteBootIsUp` assumes
  `HostBoot = {}`: complete progress was then made by one `initialize_host`, the
  allocator never leaves its last phase (`HeapStays`), and a task keeps its slot and its
  class (`TasksStay`).
  *Yields.* `Completed` also says why a `sys_yield` may fail, so `YieldsFailForReason`
  leaves a task that yields two reasons: the last tick, or a spent budget of the current
  task. `YieldsSucceed` removes the second under a host whose own spawns have no budget
  either, as the facade's have none; the budget is therefore a hazard of the host's
  making only.
  With that the promises of the parts hold inside the kernel
  (`SchedulerKeepsItsPromises`, `ManagerKeepsItsPromises`, `TasksKeepTheirLifecycle`,
  `SharedRangesStaySealed`, `DeviceAnswersStay`), whatever the host calls in between;
  `NobodyStarvesInKernel`, `AgesCountRoundsInKernel` and `WaitingKeepsPriorityInKernel`
  are about hosts with `HostState = {}`, who do not call `transition` themselves.

What is out of reach of the proof system: liveness under fairness and ENABLED
(`ReadyTaskRuns`, `ReadyTaskRunsUnlessSpent`; section 4).

## 6. Disagreements between code and documentation

With a run:

* `transition(id, Running)` makes a second task Running (`scheduler.rs:367`;
  "Task is currently executing.", l. 24). Run `SchedulerTransition`.
* A denial in the handler of `sys_info` is not audited (`lib.rs:193`; "Security
  denials … are never sampled away", `audit.rs:4`), while the rejection path
  audits denials even of calls without an audit event. Run `KernelDenials`;
  `PrivilegedDenialsAreAudited` shows that it is the only such call.

Seen while reading, without a run of their own:

* The sequence numbers of the audit log and of the fault reporter are called monotonic
  (`audit.rs:79`, `audit.rs:150`, `fault.rs:64`, `fault.rs:152`) and are not: the
  counter wraps (`wrapping_add`, `audit.rs:153`, `fault.rs:155`), after which a newer
  entry has a smaller number than an older one. `SequencesContiguous` states what holds:
  numbers of retained entries are consecutive modulo 2^64, and grow between two wraps.
* `CapabilityHandle::generation` is called monotonic (`capability.rs:197`) and
  wraps to 1 (l. 271). Harmless: `HandlesAreFaithful` holds across the wrap.
* `share_region` accepts a range that is shared already, so a sealed range stays
  writable through its other handle (`memory.rs:509`; "Whether writes are
  permanently disabled", l. 336, is true of the region, not of the range).
* Nothing reads `KernelConfig::max_user_buffer_len`, "Maximum user buffer length
  accepted by memory validation" (`lib.rs:99`): the memory manager has its own.
* A handler's fault has phase Runtime even in early boot (`lib.rs:215`), a
  rejection's has phase Boot (`lib.rs:456`). `FaultsMatchAnswers` therefore asks only
  that a fault of phase Boot comes from an early-boot caller, not the converse.

What the code permits and no doc forbids, so that no property catches it; the ones named
here bound what it can do:

* The caller's task and the current task are unrelated: a task that has exited can make
  calls, a waiting one can exit (`lib.rs:282`), and `sys_yield` yields the current task
  whoever calls (`lib.rs:275`). `AuthorityIsNeeded`, `UsesScheduler`.
* Any holder of MemoryShare may seal any region (`lib.rs:364`). `AuthorityIsNeeded`,
  `SealIsPermanent`.
* Ended tasks keep their slots (`scheduler.rs:238`), so a kernel spawns `MAX_TASKS` tasks
  in its lifetime. `QueueCoherent`, and `CallsActAsAnswered` on a full queue.
* A host may complete boot phases whose work was not done (`boot.rs:109`, section 3).

## 7. What is not modelled, and why

* ABI structures, versions, names and labels: no state.
* Regions of the boot map that `MemoryRegion::new` did not build. The fields of
  `MemoryRegion` are public, so a caller can `push` an empty region or one that ends past
  `u64::MAX`; `MemoryMap` takes the constructor's regions only, and its three properties
  assume them.
* `FrameAllocator` and `Device` traits: no implementation in the repository.
* `parent_id` and `capabilities` of a task, device class and DMA policy, region
  permissions of the boot map: stored, never read.
* Values returned that no property is about (a task's state number, the counter
  `SysTaskStatus` returns): 0 in `answer`. `detail` of a result: left out.
* `KernelConfig`: nothing reads it.
* In `HostedKernel`, the setters of bounds, limit and alignment (the run
  `MemoryManager` has them, against every range) and the host's use of the fault
  ring (`RingLog`). What the two logs retain is `RingLog`'s; the kernel's model has
  the entries a call appends and the audit counter.
* 16 of the 30 syscalls are answered Ok without reading an argument (`AlwaysOk`):
  that is what the code does, not an omission of the model.
* `record_panic` is one more `append` of the fault ring and has no caller.
* What the code allows without ever looking back: a range shared twice
  (`memory.rs:509`, a hazard without a property), bounds narrowed under shared ranges
  (`memory.rs:435`), the second copy of the buffer limit (`lib.rs:100`). Nothing in
  `src/src` reads the shared range's addresses or the copy, so there is no behaviour
  to check; they matter to whoever builds on this code.

## 8. Plan

Done: the scheduler with its progress, the ring, the capability registry, memory,
devices, boot, the facade over all of them and a host beside it; proofs for every
component and for their composition.

Next: the two logs of `Kernel` as instances of `RingLog` with what they retain; the
setters of the memory manager as host calls, which multiplies the states of the
composition. To prove, once the logs are there: that what the audit log retains of a
call is what `answer` holds of it.
