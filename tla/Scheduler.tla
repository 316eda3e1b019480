------------------------------ MODULE Scheduler ------------------------------
(***************************************************************************)
(* The cooperative scheduler of src/src/scheduler.rs: a bounded run queue  *)
(* of task control blocks, the current task, and the tick counter.         *)
(*                                                                         *)
(* One action stands for one call of a public method.  A call that returns *)
(* Err without having changed anything is a stuttering step; the two calls *)
(* that return Err after changing state (spawn on a full queue, a yield at *)
(* the last tick) are actions of their own.                                *)
(*                                                                         *)
(* parent_id and capabilities are stored by the code and never read by the *)
(* scheduler; weight is always 1.                                          *)
(***************************************************************************)
EXTENDS Integers, FiniteSets

CONSTANTS
  MaxTasks,       \* MAX_TASKS: slots of the run queue
  U8Max,          \* largest value of a priority (u8)
  U16Max,         \* largest value of an age (u16)
  U64Max,         \* largest value of a tick, task id or counter (u64)
  AgeStep,        \* rounds of waiting that earn one unit of dynamic priority
  DeadlineBoost,  \* score added once a task's deadline has passed
  Class,          \* scheduling classes
  Boost,          \* score added for each class
  MaxBoost,       \* the largest class boost
  SpawnArgs       \* the [class, priority, max_ticks, deadline] given to spawn

ASSUME SizesAssumption ==
  /\ MaxTasks \in Nat \ {0}
  /\ U8Max \in Nat /\ U16Max \in Nat /\ U64Max \in Nat \ {0}
  /\ AgeStep \in Nat \ {0}
  /\ DeadlineBoost \in Nat /\ MaxBoost \in Nat

ASSUME ClassAssumption == Class # {} /\ Boost \in [Class -> 0..MaxBoost]

ASSUME SpawnArgsAssumption ==
  SpawnArgs \subseteq [class : Class, priority : 0..U8Max,
                       max_ticks : 0..U64Max, deadline : 0..U64Max]

(***************************************************************************)
(* An age is a u16, and the longest possible wait (WaitBound below) fits   *)
(* in it with room to spare: 255 + 96 + 128 + 63 against 65535.            *)
(***************************************************************************)
ASSUME AgeAssumption == U8Max + MaxBoost + DeadlineBoost + MaxTasks <= U16Max

VARIABLES
  slots,          \* the run queue: slot index -> task control block
  current_task,   \* id of the current task, NoTask when there is none
  next_task_id,   \* the id the next spawn will take
  tick            \* monotonic scheduler tick

vars == <<slots, current_task, next_task_id, tick>>

Slot == 1..MaxTasks
NoTask == 0

TaskState == {"New", "Ready", "Running", "Blocked", "Sleeping",
              "Suspended", "Exiting", "Zombie"}

TaskControlBlock ==
  [id : 0..U64Max, state : TaskState, class : Class,
   base_priority : 0..U8Max, dynamic_priority : 0..U8Max, age : 0..U16Max,
   max_ticks : 0..U64Max, remaining_ticks : 0..U64Max, deadline_tick : 0..U64Max,
   context_switches : 0..U64Max]

-----------------------------------------------------------------------------
(* The run queue *)

(***************************************************************************)
(* TaskControlBlock::EMPTY.  Its id is the one insert refuses, so a slot   *)
(* is occupied exactly when its id is not NoTask.                          *)
(***************************************************************************)
EmptySlot ==
  [id |-> NoTask, state |-> "Zombie", class |-> CHOOSE c \in Class : TRUE,
   base_priority |-> 0, dynamic_priority |-> 0, age |-> 0,
   max_ticks |-> 0, remaining_ticks |-> 0, deadline_tick |-> 0,
   context_switches |-> 0]

Occupied == {i \in Slot : slots[i].id # NoTask}
QueuedIds == {slots[i].id : i \in Occupied}

\* The slots get and get_mut search: those that hold task id.
SlotsOf(id) == {i \in Occupied : slots[i].id = id}

\* Fault: a slot counts as free when its task is a Zombie.
IsFirstFree_ReusesZombies(i) ==
  /\ i \in Slot /\ slots[i].state = "Zombie"
  /\ \A j \in Slot : slots[j].state = "Zombie" => i <= j

\* The slot insert takes: the first free one.
IsFirstFree(i) ==
  /\ i \in Slot \ Occupied
  /\ \A j \in Slot \ Occupied : i <= j

InsertResult(id) ==
  CASE id = NoTask -> "InvalidArgument"
    [] id # NoTask /\ SlotsOf(id) # {} -> "Duplicate"
    [] id # NoTask /\ SlotsOf(id) = {} /\ Occupied = Slot -> "CapacityExceeded"
    [] OTHER -> "Ok"

\* TaskControlBlock::new, with the budget BudgetAccount::bounded or unlimited built.
NewTask(id, arg) ==
  [id |-> id, state |-> "Ready", class |-> arg.class,
   base_priority |-> arg.priority, dynamic_priority |-> arg.priority, age |-> 0,
   max_ticks |-> arg.max_ticks, remaining_ticks |-> arg.max_ticks,
   deadline_tick |-> arg.deadline, context_switches |-> 0]

-----------------------------------------------------------------------------
(* Scoring and aging *)

\* Fault: a suspended task is still eligible.
IsRunnable_Suspended(task) == task.state \in {"Ready", "Running", "Suspended"}

IsRunnable(task) == task.state \in {"Ready", "Running"}

\* BudgetAccount::deadline_expired
DeadlineExpired(task, now) == task.deadline_tick # 0 /\ now >= task.deadline_tick

\* Fault: the waiting time is left out of the score.
Score_NoAge(task, now) ==
  task.dynamic_priority + 1 + Boost[task.class]
    + (IF DeadlineExpired(task, now) THEN DeadlineBoost ELSE 0)

Score(task, now) ==
  task.dynamic_priority + 1 + Boost[task.class] + task.age
    + (IF DeadlineExpired(task, now) THEN DeadlineBoost ELSE 0)

\* The slot the scan keeps: the first of those with the highest score.
IsBest(queue, runnable, now, b) ==
  /\ b \in runnable
  /\ \A i \in runnable :
       \/ Score(queue[b], now) > Score(queue[i], now)
       \/ Score(queue[b], now) = Score(queue[i], now) /\ b <= i

\* Fault: every round earns a unit, and a long wait fills the 8 bits of the cast.
AgedPriority_EveryRound(base, age) ==
  LET bonus == age % (U8Max + 1)
  IN  IF base + bonus <= U8Max THEN base + bonus ELSE U8Max

\* base_priority.saturating_add((age / 4) as u8): the cast keeps the low 8 bits.
AgedPriority(base, age) ==
  LET bonus == (age \div AgeStep) % (U8Max + 1)
  IN  IF base + bonus <= U8Max THEN base + bonus ELSE U8Max

\* Fault: the dynamic priority earned by waiting is kept after selection.
Selected_KeepsPriority(task) ==
  [task EXCEPT !.state = "Running", !.age = 0, !.context_switches = @ + 1]

Selected(task) ==
  [task EXCEPT !.state = "Running", !.age = 0,
               !.dynamic_priority = task.base_priority,
               !.context_switches = @ + 1]

\* Fault: a round of waiting is counted as a selection.
Aged_CountsSwitch(task) ==
  LET age == IF task.age < U16Max THEN task.age + 1 ELSE U16Max
  IN  [task EXCEPT !.age = age, !.context_switches = @ + 1,
                   !.dynamic_priority = AgedPriority(task.base_priority, age)]

Aged(task) ==
  LET age == IF task.age < U16Max THEN task.age + 1 ELSE U16Max
  IN  [task EXCEPT !.age = age,
                   !.dynamic_priority = AgedPriority(task.base_priority, age)]

\* Fault: the task that was running is not made ready.
PassedOver_KeepsRunning(task) == IF task.state = "Ready" THEN Aged(task) ELSE task

PassedOver(task) ==
  CASE task.state = "Running" -> [task EXCEPT !.state = "Ready"]
    [] task.state = "Ready" -> Aged(task)
    [] OTHER -> task

(***************************************************************************)
(* schedule_next on the given queue, once the tick has been taken.  The    *)
(* checked_add on context_switches in the middle of the loop would return  *)
(* Err with the queue half updated; SwitchesWithinTicks shows that it      *)
(* never does.                                                             *)
(***************************************************************************)
Dispatch(queue) ==
  LET runnable == {i \in Slot : queue[i].id # NoTask /\ IsRunnable(queue[i])}
  IN  /\ tick < U64Max
      /\ tick' = tick + 1
      /\ \/ /\ runnable = {}
            /\ slots' = queue
            /\ current_task' = NoTask
         \/ \E b \in Slot :
              /\ IsBest(queue, runnable, tick + 1, b)
              /\ slots' = [i \in Slot |->
                             IF queue[i].id = queue[b].id
                               THEN Selected(queue[i]) ELSE PassedOver(queue[i])]
              /\ current_task' = queue[b].id

-----------------------------------------------------------------------------
(* Task lifecycle *)

ValidTransition(from, to) ==
  \/ to = "Zombie"
  \/ <<from, to>> \in
       {<<"New", "Ready">>, <<"Ready", "Running">>, <<"Running", "Ready">>,
        <<"Running", "Blocked">>, <<"Running", "Sleeping">>,
        <<"Ready", "Suspended">>, <<"Suspended", "Ready">>,
        <<"Blocked", "Ready">>, <<"Sleeping", "Ready">>,
        <<"Running", "Exiting">>}

\* Fault: the current task is not cleared when it stops running.
CurrentWithout_Stale(id) == current_task

\* The current task once task id has left the Running state.
CurrentWithout(id) == IF current_task = id THEN NoTask ELSE current_task

\* Fault: an exhausted budget is charged again.
CanConsumeTick_Overdraws(task) == task.remaining_ticks >= 0

\* BudgetAccount::consume_tick succeeds
CanConsumeTick(task) == task.max_ticks = 0 \/ task.remaining_ticks > 0

\* Fault: the tick is consumed on a copy of the budget.
Yielded_ChargesCopy(task) ==
  [task EXCEPT !.state = IF @ = "Running" THEN "Ready" ELSE @]

\* What yield_current does to the current task before it schedules.
Yielded(task) ==
  [task EXCEPT !.remaining_ticks = IF task.max_ticks = 0 THEN @ ELSE @ - 1,
               !.state = IF @ = "Running" THEN "Ready" ELSE @]

-----------------------------------------------------------------------------
(* The scheduler's operations *)

Init ==
  /\ slots = [i \in Slot |-> EmptySlot]
  /\ current_task = NoTask
  /\ next_task_id = 1
  /\ tick = 0

\* spawn: the id is taken before insert is tried ...
SpawnInserted(arg) ==
  /\ next_task_id < U64Max
  /\ InsertResult(next_task_id) = "Ok"
  /\ next_task_id' = next_task_id + 1
  /\ \E i \in Slot :
       /\ IsFirstFree(i)
       /\ slots' = [slots EXCEPT ![i] = NewTask(next_task_id, arg)]
  /\ UNCHANGED <<current_task, tick>>

\* ... and is lost when insert fails.
SpawnRejected ==
  /\ next_task_id < U64Max
  /\ InsertResult(next_task_id) # "Ok"
  /\ next_task_id' = next_task_id + 1
  /\ UNCHANGED <<slots, current_task, tick>>

Transition(id, to) ==
  /\ \E i \in SlotsOf(id) :
       /\ ValidTransition(slots[i].state, to)
       /\ slots' = [slots EXCEPT ![i].state = to]
  /\ current_task' = IF to = "Running" THEN id ELSE CurrentWithout(id)
  /\ UNCHANGED <<next_task_id, tick>>

Cancel(id) ==
  /\ \E i \in SlotsOf(id) :
       /\ slots[i].state \notin {"Zombie", "Exiting"}
       /\ slots' = [slots EXCEPT ![i].state = "Zombie"]
  /\ current_task' = CurrentWithout(id)
  /\ UNCHANGED <<next_task_id, tick>>

ScheduleNext ==
  /\ Dispatch(slots)
  /\ UNCHANGED next_task_id

\* yield_current without a current task
YieldIdle ==
  /\ current_task = NoTask
  /\ ScheduleNext

\* The other way out of yield_current, with DeadlineExceeded and nothing changed.
BudgetSpent == \E i \in SlotsOf(current_task) : ~CanConsumeTick(slots[i])

YieldCurrent ==
  /\ \E i \in SlotsOf(current_task) :
       /\ CanConsumeTick(slots[i])
       /\ Dispatch([slots EXCEPT ![i] = Yielded(slots[i])])
  /\ UNCHANGED next_task_id

\* yield_current when schedule_next cannot take another tick: the current
\* task has been charged and made ready by the time Err is returned.
YieldAtLastTick ==
  /\ tick = U64Max
  /\ \E i \in SlotsOf(current_task) :
       /\ CanConsumeTick(slots[i])
       /\ slots' = [slots EXCEPT ![i] = Yielded(slots[i])]
  /\ UNCHANGED <<current_task, next_task_id, tick>>

-----------------------------------------------------------------------------

\* The calls the kernel facade of lib.rs makes: spawn, yield_current, cancel.
FacadeNext ==
  \/ \E arg \in SpawnArgs : SpawnInserted(arg)
  \/ SpawnRejected
  \/ YieldIdle
  \/ YieldCurrent
  \/ YieldAtLastTick
  \/ \E id \in QueuedIds : Cancel(id)

\* A host that also drives the scheduler itself, as tests/smoke.rs does.
CoopNext == FacadeNext \/ ScheduleNext

\* The whole public interface.
Next ==
  \/ CoopNext
  \/ \E id \in QueuedIds, to \in TaskState : Transition(id, to)

FacadeSpec == Init /\ [][FacadeNext]_vars
CoopSpec == Init /\ [][CoopNext]_vars
Spec == Init /\ [][Next]_vars

\* Tasks that go on giving up the processor, and a host that goes on scheduling.
FairFacadeSpec == FacadeSpec /\ WF_vars(YieldIdle \/ YieldCurrent)
FairCoopSpec == CoopSpec /\ WF_vars(ScheduleNext)

-----------------------------------------------------------------------------
(* Properties of the whole interface *)

\* Every variable has its type; counters stay within their integer widths.
TypeOK ==
  /\ slots \in [Slot -> TaskControlBlock]
  /\ current_task \in 0..U64Max
  /\ next_task_id \in 1..U64Max
  /\ tick \in 0..U64Max

(***************************************************************************)
(* The queue is filled from the front in spawn order, with ids that grow   *)
(* and stay below the next one: an id names one task for ever, a tie in    *)
(* the scan goes to the older task, and the Duplicate and InvalidArgument  *)
(* branches of RunQueue::insert are unreachable however many spawns were   *)
(* rejected before.                                                        *)
(***************************************************************************)
QueueCoherent ==
  /\ \A i \in Occupied : slots[i].id < next_task_id
  /\ \A i \in Occupied, j \in Slot :
       j < i => j \in Occupied /\ slots[j].id < slots[i].id
  /\ InsertResult(next_task_id) \in {"Ok", "CapacityExceeded"}

(***************************************************************************)
(* The current task is in the queue and Running, so the NotFound branch of *)
(* yield_current is unreachable.  Only a yield refused by an exhausted     *)
(* tick counter leaves a current task that is not running, but ready.      *)
(***************************************************************************)
CurrentRuns ==
  current_task # NoTask =>
    \E i \in SlotsOf(current_task) :
      \/ slots[i].state = "Running"
      \/ slots[i].state = "Ready" /\ tick = U64Max

(***************************************************************************)
(* A tick selects one task at most, so no two tasks together were selected *)
(* more often than there were ticks.  Hence a selection counter is below   *)
(* its maximum whenever a tick is left, and schedule_next never returns    *)
(* from the middle of its update loop.                                     *)
(***************************************************************************)
SwitchesWithinTicks ==
  \A i, j \in Slot :
    /\ slots[i].context_switches <= tick
    /\ i # j => slots[i].context_switches + slots[j].context_switches <= tick

(***************************************************************************)
(* dynamic_priority is a cached value: whatever path changed a task's age  *)
(* or state, it is the one its base priority and age give.                 *)
(***************************************************************************)
PriorityIsAged ==
  \A i \in Occupied :
    slots[i].dynamic_priority = AgedPriority(slots[i].base_priority, slots[i].age)

(***************************************************************************)
(* schedule_next, yield_current and cancel write task states directly.  No *)
(* step makes a state change that valid_transition forbids to transition,  *)
(* and no step replaces a task that is in the queue: a Zombie stays one,   *)
(* and a Suspended, Blocked or Sleeping task is never dispatched.          *)
(***************************************************************************)
LifecycleRespected ==
  [][\A i \in Occupied :
       /\ slots'[i].id = slots[i].id
       /\ \/ slots'[i].state = slots[i].state
          \/ ValidTransition(slots[i].state, slots'[i].state)]_vars

-----------------------------------------------------------------------------
(* Properties of cooperative use, where nobody calls transition *)

\* A Running task is the current one, so at most one task runs.
OnlyCurrentRuns ==
  \A i \in Occupied : slots[i].state = "Running" => slots[i].id = current_task

(***************************************************************************)
(* Starvation freedom as a bound: a ready task is passed over at most      *)
(* WaitBound times in a row.  Whoever was selected while it was past the   *)
(* largest advantage a score can give cannot be selected before it again.  *)
(***************************************************************************)
MaxAdvantage == U8Max + MaxBoost + DeadlineBoost
WaitBound == MaxAdvantage + MaxTasks - 1
WaitBounded == \A i \in Slot : slots[i].age <= WaitBound

(***************************************************************************)
(* Waiting never costs a task priority: the 8-bit cast in the aging        *)
(* formula would drop the bonus to zero after 1024 rounds of waiting, and  *)
(* a wait is never that long.                                              *)
(***************************************************************************)
AgingNeverLowersPriority ==
  [][\A i \in Occupied :
       slots'[i].age > slots[i].age =>
         slots'[i].dynamic_priority >= slots[i].dynamic_priority]_vars

(***************************************************************************)
(* Starvation freedom as progress: a host that keeps scheduling runs every *)
(* ready task, or somebody cancels it, if enough ticks are left for the    *)
(* longest wait; neither later spawns nor deadlines that have passed, each *)
(* a boost for good, keep it waiting.                                      *)
(***************************************************************************)
Waiting(i) == slots[i].state = "Ready" /\ tick + WaitBound < U64Max

ReadyTaskRuns == \A i \in Slot : Waiting(i) ~> slots[i].state # "Ready"

-----------------------------------------------------------------------------
(* Properties of the facade's use, where every selection follows a yield *)

(***************************************************************************)
(* A bounded budget pays for each selection when the task gives the        *)
(* processor up: a ready task has paid for all its selections, a running   *)
(* one owes the last.  So a task with max_ticks = n is selected n + 1      *)
(* times at most.  (At the last tick a refused yield still charges.)       *)
(***************************************************************************)
BudgetAccounts ==
  \A i \in Occupied :
    LET task == slots[i]
        paid == task.max_ticks - task.remaining_ticks
    IN  task.max_ticks # 0 /\ tick < U64Max =>
          /\ task.state = "Ready" => task.context_switches = paid
          /\ task.state = "Running" => task.context_switches = paid + 1
          /\ task.state = "Zombie" => task.context_switches \in {paid, paid + 1}

(***************************************************************************)
(* When selections come from yields only, a ready task runs unless the     *)
(* current task uses up its budget: from then on every yield fails, and    *)
(* nobody else is selected before that task is cancelled.  Without the     *)
(* exception the property does not hold of the code.                       *)
(***************************************************************************)
ReadyTaskRunsUnlessSpent ==
  \A i \in Slot : Waiting(i) ~> (slots[i].state # "Ready" \/ BudgetSpent)
==============================================================================
