--------------------------- MODULE SchedulerProofs ---------------------------
(***************************************************************************)
(* Theorems about the scheduler, for every number of slots, every integer  *)
(* width, every set of classes and boosts.                                 *)
(***************************************************************************)
EXTENDS Scheduler, FiniteSetTheorems, TLAPS

-----------------------------------------------------------------------------
(* What the operations on one task control block return *)

LEMMA EmptySlotType == EmptySlot \in TaskControlBlock
  BY SizesAssumption, ClassAssumption
  DEF EmptySlot, TaskControlBlock, TaskState, NoTask

LEMMA NewTaskType ==
  ASSUME NEW id \in 0..U64Max, NEW arg \in SpawnArgs
  PROVE  NewTask(id, arg) \in TaskControlBlock
  BY SizesAssumption, SpawnArgsAssumption
  DEF NewTask, TaskControlBlock, TaskState

LEMMA AgedPriorityType ==
  ASSUME NEW base \in 0..U8Max, NEW age \in Nat
  PROVE  AgedPriority(base, age) \in 0..U8Max
<1>1. (age \div AgeStep) \in Nat
  BY SizesAssumption
<1>2. ((age \div AgeStep) % (U8Max + 1)) \in 0..U8Max
  BY <1>1, SizesAssumption
<1>3. QED
  BY <1>2, SizesAssumption DEF AgedPriority

LEMMA SelectedType ==
  ASSUME NEW task \in TaskControlBlock, task.context_switches < U64Max
  PROVE  Selected(task) \in TaskControlBlock
<1>1. "Running" \in TaskState
  BY DEF TaskState
<1>2. task.context_switches + 1 \in 0..U64Max
  BY SizesAssumption DEF TaskControlBlock
<1>3. 0 \in 0..U16Max
  BY SizesAssumption
<1>4. QED
  BY <1>1, <1>2, <1>3 DEF Selected, TaskControlBlock

LEMMA PassedOverType ==
  ASSUME NEW task \in TaskControlBlock
  PROVE  PassedOver(task) \in TaskControlBlock
<1>1. Aged(task) \in TaskControlBlock
  <2> DEFINE age == IF task.age < U16Max THEN task.age + 1 ELSE U16Max
  <2>1. age \in 0..U16Max
    BY SizesAssumption DEF TaskControlBlock
  <2>2. AgedPriority(task.base_priority, age) \in 0..U8Max
    <3>1. age \in Nat /\ task.base_priority \in 0..U8Max
      BY <2>1, SizesAssumption DEF TaskControlBlock
    <3> HIDE DEF age
    <3>2. QED
      BY <3>1, AgedPriorityType
  <2> HIDE DEF age
  <2>3. [task EXCEPT !.age = age,
                     !.dynamic_priority = AgedPriority(task.base_priority, age)]
          \in TaskControlBlock
    BY <2>1, <2>2 DEF TaskControlBlock
  <2>4. QED
    BY <2>3 DEF Aged, age
<1>2. QED
  BY <1>1 DEF PassedOver, TaskControlBlock, TaskState

LEMMA YieldedType ==
  ASSUME NEW task \in TaskControlBlock, CanConsumeTick(task)
  PROVE  Yielded(task) \in TaskControlBlock
<1> DEFINE left == IF task.max_ticks = 0 THEN task.remaining_ticks
                                         ELSE task.remaining_ticks - 1
           state == IF task.state = "Running" THEN "Ready" ELSE task.state
<1>1. left \in 0..U64Max
  BY SizesAssumption DEF CanConsumeTick, TaskControlBlock
<1>2. state \in TaskState
  BY DEF TaskControlBlock, TaskState
<1>3. Yielded(task) = [task EXCEPT !.remaining_ticks = left, !.state = state]
  BY DEF Yielded, TaskControlBlock
<1> HIDE DEF left, state
<1>4. QED
  BY <1>1, <1>2, <1>3 DEF TaskControlBlock

\* No operation on a queued task changes its id; only a selection counts.
LEMMA IdAndSwitches ==
  ASSUME NEW task \in TaskControlBlock
  PROVE  /\ Selected(task).id = task.id
         /\ Selected(task).context_switches = task.context_switches + 1
         /\ PassedOver(task).id = task.id
         /\ PassedOver(task).context_switches = task.context_switches
         /\ Yielded(task).id = task.id
         /\ Yielded(task).context_switches = task.context_switches
  BY DEF Selected, PassedOver, Aged, Yielded, TaskControlBlock

-----------------------------------------------------------------------------
(* What a dispatch does to a queue *)

UniqueIds(queue) ==
  \A i, j \in Slot : queue[i].id # NoTask /\ queue[i].id = queue[j].id => i = j

\* A queue whose tasks were selected at most as often as there were ticks.
SwitchesFit(queue, now) ==
  \A i, j \in Slot :
    /\ queue[i].context_switches <= now
    /\ i # j => queue[i].context_switches + queue[j].context_switches <= now

Elect(queue, b) ==
  [i \in Slot |-> IF i = b THEN Selected(queue[i]) ELSE PassedOver(queue[i])]

(***************************************************************************)
(* Since ids are unique, the update loop of schedule_next selects exactly  *)
(* the slot that the scan found.                                           *)
(***************************************************************************)
LEMMA DispatchElects ==
  ASSUME NEW queue \in [Slot -> TaskControlBlock], UniqueIds(queue), Dispatch(queue)
  PROVE  /\ tick < U64Max /\ tick' = tick + 1
         /\ \/ /\ \A i \in Slot : queue[i].id # NoTask => ~IsRunnable(queue[i])
               /\ slots' = queue /\ current_task' = NoTask
            \/ \E b \in Slot :
                 /\ queue[b].id # NoTask /\ IsRunnable(queue[b])
                 /\ IsBest(queue, {i \in Slot : queue[i].id # NoTask
                                                /\ IsRunnable(queue[i])}, tick + 1, b)
                 /\ slots' = Elect(queue, b) /\ current_task' = queue[b].id
<1> DEFINE runnable == {i \in Slot : queue[i].id # NoTask /\ IsRunnable(queue[i])}
<1>1. tick < U64Max /\ tick' = tick + 1
  BY DEF Dispatch
<1>2. CASE runnable = {} /\ slots' = queue /\ current_task' = NoTask
  BY <1>1, <1>2
<1>3. ASSUME NEW b \in Slot, IsBest(queue, runnable, tick + 1, b),
             slots' = [i \in Slot |-> IF queue[i].id = queue[b].id
                         THEN Selected(queue[i]) ELSE PassedOver(queue[i])],
             current_task' = queue[b].id
      PROVE  /\ queue[b].id # NoTask /\ IsRunnable(queue[b])
             /\ slots' = Elect(queue, b)
  <2>1. queue[b].id # NoTask /\ IsRunnable(queue[b])
    BY <1>3 DEF IsBest
  <2>2. \A i \in Slot : queue[i].id = queue[b].id <=> i = b
    BY <2>1 DEF UniqueIds
  <2>3. slots' = Elect(queue, b)
    BY <1>3, <2>2, Zenon DEF Elect
  <2>4. QED
    BY <2>1, <2>3
<1>4. QED
  BY <1>1, <1>2, <1>3 DEF Dispatch

LEMMA DispatchPreserves ==
  ASSUME NEW queue \in [Slot -> TaskControlBlock], UniqueIds(queue), Dispatch(queue),
         tick \in 0..U64Max, SwitchesFit(queue, tick)
  PROVE  /\ slots' \in [Slot -> TaskControlBlock]
         /\ current_task' \in 0..U64Max /\ tick' \in 0..U64Max
         /\ \A i \in Slot : slots'[i].id = queue[i].id
         /\ SwitchesFit(slots', tick')
         /\ current_task' # NoTask =>
              \E i \in Slot : slots'[i].id = current_task' /\ slots'[i].state = "Running"
<1>1. tick < U64Max /\ tick' = tick + 1
  BY DispatchElects, Zenon
<1>2. tick' \in 0..U64Max
  BY <1>1, SizesAssumption
<1>3. CASE slots' = queue /\ current_task' = NoTask
  <2>1. current_task' \in 0..U64Max
    BY <1>3, SizesAssumption DEF NoTask
  <2>2. SwitchesFit(slots', tick')
    BY <1>1, <1>3 DEF SwitchesFit, TaskControlBlock
  <2>3. QED
    BY <1>2, <1>3, <2>1, <2>2
<1>4. ASSUME NEW b \in Slot, queue[b].id # NoTask, slots' = Elect(queue, b),
             current_task' = queue[b].id
      PROVE  /\ slots' \in [Slot -> TaskControlBlock]
             /\ current_task' \in 0..U64Max
             /\ \A i \in Slot : slots'[i].id = queue[i].id
             /\ SwitchesFit(slots', tick')
             /\ slots'[b].id = current_task' /\ slots'[b].state = "Running"
  <2>1. queue[b].context_switches < U64Max
    BY <1>1, SizesAssumption DEF SwitchesFit, TaskControlBlock
  <2>2. Selected(queue[b]) \in TaskControlBlock
    BY <2>1, SelectedType
  <2>3. \A i \in Slot : PassedOver(queue[i]) \in TaskControlBlock
    BY PassedOverType
  <2>4. slots' \in [Slot -> TaskControlBlock]
    BY <1>4, <2>2, <2>3 DEF Elect
  <2>5. \A i \in Slot : slots'[i].id = queue[i].id
    BY <1>4, IdAndSwitches DEF Elect
  <2>6. SwitchesFit(slots', tick')
    <3>1. \A i \in Slot : slots'[i].context_switches =
            IF i = b THEN queue[i].context_switches + 1 ELSE queue[i].context_switches
      BY <1>4, IdAndSwitches DEF Elect
    <3>2. \A i \in Slot : queue[i].context_switches \in Nat
      BY SizesAssumption DEF TaskControlBlock
    <3>3. QED
      BY <1>1, <3>1, <3>2 DEF SwitchesFit
  <2>7. slots'[b].state = "Running"
    BY <1>4 DEF Elect, Selected, TaskControlBlock
  <2>8. current_task' \in 0..U64Max
    BY <1>4 DEF TaskControlBlock
  <2>9. QED
    BY <1>4, <2>4, <2>5, <2>6, <2>7, <2>8
<1>5. QED
  BY <1>2, <1>3, <1>4, DispatchElects

-----------------------------------------------------------------------------
(* The inductive invariant of the whole interface *)

(***************************************************************************)
(* TypeOK is not inductive alone: that a selection counter stays in its    *)
(* type needs SwitchesWithinTicks, which needs ids to be unique, which     *)
(* needs QueueCoherent.                                                    *)
(***************************************************************************)
IInv == TypeOK /\ QueueCoherent /\ SwitchesWithinTicks /\ CurrentRuns

LEMMA IdsUnique ==
  ASSUME TypeOK, QueueCoherent
  PROVE  UniqueIds(slots)
<1> SUFFICES ASSUME NEW i \in Slot, NEW j \in Slot, slots[i].id # NoTask,
                    slots[i].id = slots[j].id, j < i
             PROVE  FALSE
  BY SizesAssumption DEF UniqueIds, Slot
<1>1. slots[j].id < slots[i].id
  BY DEF QueueCoherent, Occupied
<1>2. slots[i].id \in Nat /\ slots[j].id \in Nat
  BY SizesAssumption DEF TypeOK, TaskControlBlock
<1>3. QED
  BY <1>1, <1>2

LEMMA SlotOfId ==
  ASSUME TypeOK, QueueCoherent, NEW id, NEW i \in SlotsOf(id)
  PROVE  /\ i \in Slot /\ slots[i].id = id /\ id # NoTask /\ id \in 1..U64Max
         /\ \A j \in Slot : slots[j].id = id => j = i
<1>1. UniqueIds(slots)
  BY IdsUnique
<1>2. i \in Slot /\ slots[i].id = id /\ id # NoTask
  BY DEF SlotsOf, Occupied
<1>3. id \in 1..U64Max
  BY <1>2, SizesAssumption DEF TypeOK, TaskControlBlock, NoTask
<1>4. QED
  BY <1>1, <1>2, <1>3 DEF UniqueIds

\* The ids of the queue, and the next one, decide whether it is coherent.
LEMMA SameIdsCoherent ==
  ASSUME TypeOK, QueueCoherent, next_task_id' \in 1..U64Max,
         next_task_id <= next_task_id',
         \A i \in Slot : slots'[i].id = slots[i].id
  PROVE  QueueCoherent'
<1>1. Occupied' = Occupied
  BY DEF Occupied
<1>2. \A i \in Occupied : slots'[i].id < next_task_id'
  BY SizesAssumption DEF QueueCoherent, TypeOK, TaskControlBlock, Occupied
<1>3. SlotsOf(next_task_id)' = {}
  BY <1>1, <1>2, SizesAssumption DEF SlotsOf
<1>4. InsertResult(next_task_id)' \in {"Ok", "CapacityExceeded"}
  BY <1>3 DEF InsertResult, NoTask
<1>5. \A i \in Occupied, j \in Slot :
        j < i => j \in Occupied /\ slots'[j].id < slots'[i].id
  BY DEF QueueCoherent, Occupied
<1>6. QED
  BY <1>1, <1>2, <1>4, <1>5 DEF QueueCoherent

LEMMA InitIInv == Init => IInv
<1> SUFFICES ASSUME Init PROVE IInv
  OBVIOUS
<1>1. \A i \in Slot : slots[i].id = NoTask /\ slots[i].context_switches = 0
  BY DEF Init, EmptySlot
<1>2. Occupied = {}
  BY <1>1 DEF Occupied
<1>3. TypeOK
  BY EmptySlotType, SizesAssumption DEF Init, TypeOK, NoTask
<1>4. QueueCoherent
  <2>1. InsertResult(next_task_id) \in {"Ok", "CapacityExceeded"}
    BY <1>2 DEF InsertResult, SlotsOf, Init, NoTask
  <2>2. QED
    BY <1>2, <2>1 DEF QueueCoherent
<1>5. SwitchesWithinTicks
  BY <1>1 DEF SwitchesWithinTicks, Init
<1>6. CurrentRuns
  BY DEF CurrentRuns, Init
<1>7. QED
  BY <1>3, <1>4, <1>5, <1>6 DEF IInv

LEMMA SpawnInsertedStep ==
  ASSUME IInv, NEW arg \in SpawnArgs, SpawnInserted(arg)
  PROVE  IInv'
<1> USE DEF IInv
<1>1. PICK k \in Slot : IsFirstFree(k) /\ slots' = [slots EXCEPT ![k] = NewTask(next_task_id, arg)]
  BY DEF SpawnInserted
<1>2. /\ next_task_id' = next_task_id + 1 /\ next_task_id < U64Max
      /\ next_task_id \in 1..U64Max /\ next_task_id' \in 1..U64Max
      /\ current_task' = current_task /\ tick' = tick
  BY SizesAssumption DEF SpawnInserted, TypeOK
<1>3. NewTask(next_task_id, arg) \in TaskControlBlock
  BY <1>2, NewTaskType, SizesAssumption
<1>4. TypeOK'
  BY <1>1, <1>2, <1>3 DEF TypeOK
<1>5. /\ k \notin Occupied /\ \A j \in Slot : j < k => j \in Occupied
      /\ slots'[k].id = next_task_id /\ slots'[k].context_switches = 0
      /\ \A j \in Slot : j # k => slots'[j] = slots[j]
  BY <1>1 DEF IsFirstFree, NewTask, TypeOK, Slot
<1>6. Occupied' = Occupied \cup {k}
  BY <1>2, <1>5, SizesAssumption DEF Occupied, NoTask
<1>7. \A j \in Occupied : j # k /\ slots'[j] = slots[j]
  BY <1>5 DEF Occupied
<1>8. QueueCoherent'
  <2>1. \A i \in Occupied' : slots'[i].id < next_task_id'
    BY <1>2, <1>5, <1>6, <1>7, SizesAssumption DEF QueueCoherent, TypeOK, TaskControlBlock, Occupied
  <2>2. \A i \in Occupied', j \in Slot :
          j < i => j \in Occupied' /\ slots'[j].id < slots'[i].id
    BY <1>5, <1>6, <1>7 DEF QueueCoherent
  <2>3. SlotsOf(next_task_id)' = {}
    BY <2>1, <1>2, <1>4, SizesAssumption DEF SlotsOf
  <2>4. InsertResult(next_task_id)' \in {"Ok", "CapacityExceeded"}
    BY <2>3, <1>2 DEF InsertResult, NoTask
  <2>5. QED
    BY <2>1, <2>2, <2>4 DEF QueueCoherent
<1>9. SwitchesWithinTicks'
  <2>1. \A j \in Slot : slots'[j].context_switches \in
                         {slots[j].context_switches, 0}
    BY <1>5
  <2>2. \A j \in Slot : slots[j].context_switches \in Nat
    BY SizesAssumption DEF TypeOK, TaskControlBlock
  <2>3. QED
    BY <1>2, <2>1, <2>2, SizesAssumption DEF SwitchesWithinTicks, TypeOK
<1>10. CurrentRuns'
  BY <1>2, <1>6, <1>7 DEF CurrentRuns, SlotsOf
<1>11. QED
  BY <1>4, <1>8, <1>9, <1>10

\* A change of one queued task's state, as transition and cancel make it.
LEMMA StateChangeStep ==
  ASSUME IInv, NEW id, NEW k \in SlotsOf(id), NEW to \in TaskState,
         slots' = [slots EXCEPT ![k].state = to],
         current_task' = IF to = "Running" THEN id ELSE CurrentWithout(id),
         UNCHANGED <<next_task_id, tick>>
  PROVE  IInv'
<1> USE DEF IInv
<1>1. /\ k \in Slot /\ slots[k].id = id /\ id # NoTask /\ id \in 1..U64Max
      /\ \A j \in Slot : slots[j].id = id => j = k
  BY SlotOfId
<1>2. /\ \A j \in Slot : /\ slots'[j].id = slots[j].id
                        /\ slots'[j].context_switches = slots[j].context_switches
                        /\ j # k => slots'[j] = slots[j]
      /\ slots'[k].state = to
  BY <1>1 DEF TypeOK, TaskControlBlock
<1>3. TypeOK'
  <2>1. slots' \in [Slot -> TaskControlBlock]
    BY <1>1 DEF TypeOK, TaskControlBlock
  <2>2. current_task' \in 0..U64Max
    BY <1>1, SizesAssumption DEF CurrentWithout, NoTask, TypeOK
  <2>3. QED
    BY <2>1, <2>2 DEF TypeOK
<1>4. QueueCoherent'
  <2>1. next_task_id' \in 1..U64Max /\ next_task_id <= next_task_id'
    BY SizesAssumption DEF TypeOK
  <2>2. QED
    BY <1>2, <2>1, SameIdsCoherent
<1>5. SwitchesWithinTicks'
  BY <1>2 DEF SwitchesWithinTicks
<1>6. CurrentRuns'
  <2>1. Occupied' = Occupied
    BY <1>2 DEF Occupied
  <2>2. CASE to = "Running"
    BY <1>1, <1>2, <2>1, <2>2 DEF CurrentRuns, SlotsOf, Occupied
  <2>3. CASE to # "Running" /\ current_task = id
    BY <2>3 DEF CurrentRuns, CurrentWithout
  <2>4. CASE to # "Running" /\ current_task # id
    BY <1>1, <1>2, <2>1, <2>4 DEF CurrentRuns, CurrentWithout, SlotsOf, Occupied
  <2>5. QED
    BY <2>2, <2>3, <2>4
<1>7. QED
  BY <1>3, <1>4, <1>5, <1>6

\* A dispatch of a queue that differs from slots at most by a yield.
LEMMA DispatchStep ==
  ASSUME IInv, NEW queue \in [Slot -> TaskControlBlock], Dispatch(queue),
         \A i \in Slot : /\ queue[i].id = slots[i].id
                         /\ queue[i].context_switches = slots[i].context_switches,
         next_task_id' = next_task_id
  PROVE  IInv'
<1> USE DEF IInv
<1>1. UniqueIds(queue)
  BY IdsUnique DEF UniqueIds
<1>2. SwitchesFit(queue, tick)
  BY DEF SwitchesWithinTicks, SwitchesFit
<1>3. tick \in 0..U64Max
  BY DEF TypeOK
<1>4. /\ slots' \in [Slot -> TaskControlBlock]
      /\ current_task' \in 0..U64Max /\ tick' \in 0..U64Max
      /\ \A i \in Slot : slots'[i].id = queue[i].id
      /\ SwitchesFit(slots', tick')
      /\ current_task' # NoTask =>
           \E i \in Slot : slots'[i].id = current_task' /\ slots'[i].state = "Running"
  BY <1>1, <1>2, <1>3, DispatchPreserves, Zenon
<1>5. TypeOK'
  BY <1>4 DEF TypeOK
<1>6. QueueCoherent'
  <2>1. next_task_id' \in 1..U64Max /\ next_task_id <= next_task_id'
    BY SizesAssumption DEF TypeOK
  <2>2. QED
    BY <1>4, <2>1, SameIdsCoherent
<1>7. SwitchesWithinTicks'
  BY <1>4 DEF SwitchesWithinTicks, SwitchesFit
<1>8. CurrentRuns'
  BY <1>4 DEF CurrentRuns, SlotsOf, Occupied
<1>9. QED
  BY <1>5, <1>6, <1>7, <1>8

LEMMA YieldedQueue ==
  ASSUME TypeOK, QueueCoherent, NEW k \in SlotsOf(current_task), CanConsumeTick(slots[k])
  PROVE  LET queue == [slots EXCEPT ![k] = Yielded(slots[k])]
         IN  /\ queue \in [Slot -> TaskControlBlock]
             /\ \A i \in Slot : /\ queue[i].id = slots[i].id
                               /\ queue[i].context_switches = slots[i].context_switches
<1>1. k \in Slot /\ slots[k] \in TaskControlBlock
  BY SlotOfId DEF TypeOK
<1>2. Yielded(slots[k]) \in TaskControlBlock
  BY <1>1, YieldedType
<1>3. /\ Yielded(slots[k]).id = slots[k].id
      /\ Yielded(slots[k]).context_switches = slots[k].context_switches
  BY <1>1, IdAndSwitches
<1>4. QED
  BY <1>1, <1>2, <1>3 DEF TypeOK

LEMMA NextIInv == IInv /\ [Next]_vars => IInv'
<1> SUFFICES ASSUME IInv, [Next]_vars PROVE IInv'
  OBVIOUS
<1> USE DEF IInv
<1>1. ASSUME NEW arg \in SpawnArgs, SpawnInserted(arg)
      PROVE  IInv'
  BY <1>1, SpawnInsertedStep
<1>2. CASE SpawnRejected
  <2>1. /\ next_task_id' = next_task_id + 1 /\ next_task_id < U64Max
        /\ slots' = slots /\ current_task' = current_task /\ tick' = tick
    BY <1>2 DEF SpawnRejected
  <2>2. next_task_id' \in 1..U64Max /\ next_task_id <= next_task_id'
    BY <2>1, SizesAssumption DEF TypeOK
  <2>3. QueueCoherent'
    BY <2>1, <2>2, SameIdsCoherent
  <2>4. TypeOK'
    BY <2>1, <2>2 DEF TypeOK
  <2>5. SwitchesWithinTicks' /\ CurrentRuns'
    BY <2>1 DEF SwitchesWithinTicks, CurrentRuns, SlotsOf, Occupied
  <2>6. QED
    BY <2>3, <2>4, <2>5
<1>3. CASE ScheduleNext
  <2>1. Dispatch(slots) /\ next_task_id' = next_task_id
    BY <1>3 DEF ScheduleNext
  <2>2. slots \in [Slot -> TaskControlBlock]
    BY DEF TypeOK
  <2>3. QED
    BY <2>1, <2>2, DispatchStep
<1>4. CASE YieldCurrent
  <2>1. PICK k \in SlotsOf(current_task) :
          CanConsumeTick(slots[k]) /\ Dispatch([slots EXCEPT ![k] = Yielded(slots[k])])
    BY <1>4 DEF YieldCurrent
  <2>2. next_task_id' = next_task_id
    BY <1>4 DEF YieldCurrent
  <2> DEFINE queue == [slots EXCEPT ![k] = Yielded(slots[k])]
  <2>3. /\ queue \in [Slot -> TaskControlBlock]
        /\ \A i \in Slot : /\ queue[i].id = slots[i].id
                          /\ queue[i].context_switches = slots[i].context_switches
    BY <2>1, YieldedQueue
  <2>4. Dispatch(queue)
    BY <2>1
  <2> HIDE DEF queue
  <2>5. QED
    BY <2>2, <2>3, <2>4, DispatchStep
<1>5. CASE YieldAtLastTick
  <2>1. PICK k \in SlotsOf(current_task) :
          CanConsumeTick(slots[k]) /\ slots' = [slots EXCEPT ![k] = Yielded(slots[k])]
    BY <1>5 DEF YieldAtLastTick
  <2>2. tick = U64Max /\ UNCHANGED <<current_task, next_task_id, tick>>
    BY <1>5 DEF YieldAtLastTick
  <2>3. /\ slots' \in [Slot -> TaskControlBlock]
        /\ \A i \in Slot : /\ slots'[i].id = slots[i].id
                          /\ slots'[i].context_switches = slots[i].context_switches
    BY <2>1, YieldedQueue
  <2>4. TypeOK'
    BY <2>2, <2>3 DEF TypeOK
  <2>5. QueueCoherent'
    <3>1. next_task_id' \in 1..U64Max /\ next_task_id <= next_task_id'
      BY <2>2, SizesAssumption DEF TypeOK
    <3>2. QED
      BY <2>3, <3>1, SameIdsCoherent
  <2>6. SwitchesWithinTicks'
    BY <2>2, <2>3 DEF SwitchesWithinTicks
  <2>7. CurrentRuns'
    <3>1. k \in Slot /\ slots[k].id = current_task /\ current_task # NoTask
      BY SlotOfId
    <3>2. slots[k].state \in {"Running", "Ready"}
      BY <3>1, SlotOfId DEF CurrentRuns
    <3>3. slots'[k].state = "Ready"
      BY <2>1, <3>1, <3>2 DEF Yielded, TypeOK, TaskControlBlock
    <3>4. k \in SlotsOf(current_task)'
      BY <2>2, <2>3, <3>1 DEF SlotsOf, Occupied
    <3>5. QED
      BY <2>2, <3>3, <3>4 DEF CurrentRuns
  <2>8. QED
    BY <2>4, <2>5, <2>6, <2>7
<1>6. ASSUME NEW id \in QueuedIds, Cancel(id)
      PROVE  IInv'
  <2>1. PICK k \in SlotsOf(id) : slots' = [slots EXCEPT ![k].state = "Zombie"]
    BY <1>6 DEF Cancel
  <2>2. current_task' = CurrentWithout(id) /\ UNCHANGED <<next_task_id, tick>>
    BY <1>6 DEF Cancel
  <2>3. "Zombie" \in TaskState
    BY DEF TaskState
  <2>4. QED
    BY <2>1, <2>2, <2>3, StateChangeStep
<1>7. ASSUME NEW id \in QueuedIds, NEW to \in TaskState, Transition(id, to)
      PROVE  IInv'
  <2>1. PICK k \in SlotsOf(id) : slots' = [slots EXCEPT ![k].state = to]
    BY <1>7 DEF Transition
  <2>2. /\ current_task' = IF to = "Running" THEN id ELSE CurrentWithout(id)
        /\ UNCHANGED <<next_task_id, tick>>
    BY <1>7 DEF Transition
  <2>3. QED
    BY <2>1, <2>2, StateChangeStep
<1>8. CASE UNCHANGED vars
  BY <1>8 DEF vars, TypeOK, QueueCoherent, SwitchesWithinTicks, CurrentRuns,
              InsertResult, SlotsOf, Occupied
<1>9. QED
  BY <1>1, <1>2, <1>3, <1>4, <1>5, <1>6, <1>7, <1>8
  DEF Next, CoopNext, FacadeNext, YieldIdle

THEOREM Invariance == Spec => []IInv
  BY InitIInv, NextIInv, PTL DEF Spec

\* Every variable of the scheduler keeps its type, whatever calls are made.
THEOREM TypeCorrect == Spec => []TypeOK
  BY Invariance, PTL DEF IInv

\* RunQueue::insert never finds a duplicate, and ids name one task for ever.
THEOREM QueueIsCoherent == Spec => []QueueCoherent
  BY Invariance, PTL DEF IInv

\* schedule_next never returns from the middle of its update loop.
THEOREM SwitchesNeverOverflow == Spec => []SwitchesWithinTicks
  BY Invariance, PTL DEF IInv

\* The current task is Running until a yield is refused at the last tick, then Ready.
THEOREM CurrentTaskRuns == Spec => []CurrentRuns
  BY Invariance, PTL DEF IInv

-----------------------------------------------------------------------------
(* Cooperative use: one task runs *)

LEMMA CoopStepsAreSteps == CoopSpec => []IInv
<1>1. IInv /\ [CoopNext]_vars => IInv'
  BY NextIInv DEF Next
<1>2. QED
  BY <1>1, InitIInv, PTL DEF CoopSpec

\* After a dispatch only the elected task is Running.
LEMMA DispatchRunsOne ==
  ASSUME NEW queue \in [Slot -> TaskControlBlock], UniqueIds(queue), Dispatch(queue)
  PROVE  OnlyCurrentRuns'
<1>1. CASE /\ \A i \in Slot : queue[i].id # NoTask => ~IsRunnable(queue[i])
           /\ slots' = queue /\ current_task' = NoTask
  BY <1>1 DEF OnlyCurrentRuns, IsRunnable, Occupied
<1>2. ASSUME NEW b \in Slot, slots' = Elect(queue, b), current_task' = queue[b].id
      PROVE  OnlyCurrentRuns'
  <2>1. Selected(queue[b]).id = queue[b].id
    BY IdAndSwitches
  <2>2. \A i \in Slot : PassedOver(queue[i]).state # "Running"
    BY DEF PassedOver, Aged, TaskControlBlock
  <2>3. QED
    BY <1>2, <2>1, <2>2 DEF OnlyCurrentRuns, Elect, Occupied
<1>3. QED
  BY <1>1, <1>2, DispatchElects

LEMMA CoopRunsOne ==
  ASSUME IInv, OnlyCurrentRuns, [CoopNext]_vars
  PROVE  OnlyCurrentRuns'
<1> USE DEF IInv
<1>0. UniqueIds(slots)
  BY IdsUnique
<1>1. ASSUME NEW arg \in SpawnArgs, SpawnInserted(arg)
      PROVE  OnlyCurrentRuns'
  <2>1. PICK k \in Slot : slots' = [slots EXCEPT ![k] = NewTask(next_task_id, arg)]
    BY <1>1 DEF SpawnInserted
  <2>2. NewTask(next_task_id, arg).state = "Ready" /\ current_task' = current_task
    BY <1>1 DEF SpawnInserted, NewTask
  <2>3. QED
    BY <2>1, <2>2 DEF OnlyCurrentRuns, Occupied, TypeOK
<1>2. CASE SpawnRejected
  BY <1>2 DEF SpawnRejected, OnlyCurrentRuns, Occupied
<1>3. CASE ScheduleNext
  BY <1>0, <1>3, DispatchRunsOne DEF ScheduleNext, TypeOK
<1>4. CASE YieldCurrent
  <2>1. PICK k \in SlotsOf(current_task) :
          CanConsumeTick(slots[k]) /\ Dispatch([slots EXCEPT ![k] = Yielded(slots[k])])
    BY <1>4 DEF YieldCurrent
  <2> DEFINE queue == [slots EXCEPT ![k] = Yielded(slots[k])]
  <2>2. /\ queue \in [Slot -> TaskControlBlock]
        /\ \A i \in Slot : queue[i].id = slots[i].id
    BY <2>1, YieldedQueue
  <2>3. Dispatch(queue)
    BY <2>1
  <2> HIDE DEF queue
  <2>4. UniqueIds(queue)
    BY <1>0, <2>2 DEF UniqueIds
  <2>5. QED
    BY <2>2, <2>3, <2>4, DispatchRunsOne
<1>5. CASE YieldAtLastTick
  <2>1. PICK k \in SlotsOf(current_task) : slots' = [slots EXCEPT ![k] = Yielded(slots[k])]
    BY <1>5 DEF YieldAtLastTick
  <2>2. Yielded(slots[k]).state # "Running" /\ current_task' = current_task
    BY <1>5, <2>1, SlotOfId DEF YieldAtLastTick, Yielded, TypeOK, TaskControlBlock
  <2>3. QED
    BY <2>1, <2>2 DEF OnlyCurrentRuns, Occupied, SlotsOf, TypeOK
<1>6. ASSUME NEW id \in QueuedIds, Cancel(id)
      PROVE  OnlyCurrentRuns'
  <2>1. PICK k \in SlotsOf(id) : slots' = [slots EXCEPT ![k].state = "Zombie"]
    BY <1>6 DEF Cancel
  <2>2. current_task' = CurrentWithout(id)
    BY <1>6 DEF Cancel
  <2>3. \A j \in Slot : slots[j].id = id => j = k
    BY <2>1, SlotOfId
  <2>4. /\ \A j \in Slot : slots'[j].id = slots[j].id
        /\ \A j \in Slot : j # k => slots'[j] = slots[j]
        /\ slots'[k].state = "Zombie"
    BY <2>1, SlotOfId DEF TypeOK, TaskControlBlock
  <2>5. QED
    BY <2>2, <2>3, <2>4 DEF OnlyCurrentRuns, Occupied, CurrentWithout
<1>7. CASE UNCHANGED vars
  BY <1>7 DEF vars, OnlyCurrentRuns, Occupied
<1>8. QED
  BY <1>1, <1>2, <1>3, <1>4, <1>5, <1>6, <1>7 DEF CoopNext, FacadeNext, YieldIdle

(***************************************************************************)
(* As long as nobody calls transition, at most one task runs: the one that *)
(* current_task names.                                                     *)
(***************************************************************************)
THEOREM OneTaskRuns == CoopSpec => []OnlyCurrentRuns
<1>1. Init => OnlyCurrentRuns
  BY DEF Init, OnlyCurrentRuns, Occupied, EmptySlot
<1>2. IInv /\ OnlyCurrentRuns /\ [CoopNext]_vars => OnlyCurrentRuns'
  BY CoopRunsOne
<1>3. QED
  BY <1>1, <1>2, CoopStepsAreSteps, PTL DEF CoopSpec

-----------------------------------------------------------------------------
(* Every call has one outcome *)

\* A set of naturals has a least element: what a search from the front finds.
LEMMA LeastElement ==
  ASSUME NEW S, S \subseteq Nat, S # {}
  PROVE  \E m \in S : \A k \in S : m <= k
<1> DEFINE R == OpToRel(<, Nat)
<1>1. \E m \in S : \A k \in S : ~(<<k, m>> \in R)
  <2>1. IsWellFoundedOn(R, Nat)
    BY NatLessThanWellFounded
  <2> HIDE DEF R
  <2>2. QED
    BY <2>1, WFMin
<1>2. ASSUME NEW m \in S, NEW k \in S, ~(m <= k)
      PROVE  <<k, m>> \in R
  BY <1>2 DEF OpToRel
<1>3. QED
  BY <1>1, <1>2

LEMMA ScoreType ==
  ASSUME NEW task \in TaskControlBlock, NEW now
  PROVE  Score(task, now) \in Nat /\ Score(task, now) <= U8Max + 1 + MaxBoost + U16Max + DeadlineBoost
<1> DEFINE late == IF DeadlineExpired(task, now) THEN DeadlineBoost ELSE 0
<1>1. Score(task, now) = task.dynamic_priority + 1 + Boost[task.class] + task.age + late
  BY Zenon DEF Score
<1>2. late \in 0..DeadlineBoost /\ DeadlineBoost \in Nat
  BY SizesAssumption
<1>3. Boost[task.class] \in 0..MaxBoost /\ MaxBoost \in Nat
  BY ClassAssumption, SizesAssumption DEF TaskControlBlock
<1>4. /\ task.dynamic_priority \in 0..U8Max /\ U8Max \in Nat
      /\ task.age \in 0..U16Max /\ U16Max \in Nat
  BY SizesAssumption DEF TaskControlBlock
<1> HIDE DEF late
<1>5. QED
  BY <1>1, <1>2, <1>3, <1>4

(***************************************************************************)
(* The scan of schedule_next keeps one slot, whatever the scores and ties: *)
(* the highest score is the least distance to a bound on scores, and the   *)
(* slot kept is the least of those at that distance.                       *)
(***************************************************************************)
LEMMA ScanKeepsOne ==
  ASSUME NEW queue \in [Slot -> TaskControlBlock], NEW now,
         NEW runnable \in SUBSET Slot, runnable # {}
  PROVE  \E b \in runnable :
           /\ IsBest(queue, runnable, now, b)
           /\ \A c \in Slot : IsBest(queue, runnable, now, c) => c = b
<1> DEFINE score(i) == Score(queue[i], now)
           top == U8Max + 1 + MaxBoost + U16Max + DeadlineBoost
           below == {top - score(i) : i \in runnable}
<1>1. top \in Nat /\ \A i \in runnable : score(i) \in Nat /\ score(i) <= top
  BY ScoreType, SizesAssumption
<1> HIDE DEF score, top
<1>2. below \subseteq Nat /\ below # {}
  BY <1>1
<1>3. PICK m \in below : \A k \in below : m <= k
  <2> HIDE DEF below
  <2>1. QED
    BY <1>2, LeastElement
<1>4. PICK a \in runnable : \A i \in runnable : score(i) <= score(a)
  <2>1. PICK a \in runnable : m = top - score(a)
    BY <1>3
  <2>2. \A i \in runnable : top - score(a) <= top - score(i)
    BY <1>3, <2>1
  <2>3. \A i \in runnable : score(i) <= score(a)
    BY <1>1, <2>2
  <2>4. QED
    BY <2>3
<1> HIDE DEF below
<1> DEFINE highest == {i \in runnable : score(i) = score(a)}
<1>5. highest \subseteq Nat /\ highest # {}
  <2>1. runnable \subseteq Nat
    BY SizesAssumption DEF Slot
  <2>2. a \in highest
    BY <1>4
  <2>3. QED
    BY <2>1, <2>2
<1>6. PICK b \in highest : \A k \in highest : b <= k
  <2> HIDE DEF highest
  <2>1. QED
    BY <1>5, LeastElement
<1>7. /\ b \in runnable
      /\ \A i \in runnable : score(b) > score(i) \/ (score(b) = score(i) /\ b <= i)
  <2>1. b \in runnable /\ score(b) = score(a)
    BY <1>6
  <2>2. ASSUME NEW i \in runnable
        PROVE  score(b) > score(i) \/ (score(b) = score(i) /\ b <= i)
    <3>1. CASE score(i) = score(a)
      BY <1>6, <2>1, <3>1
    <3>2. CASE score(i) # score(a)
      <4>1. score(i) \in Nat /\ score(a) \in Nat /\ score(i) <= score(a)
        BY <1>1, <1>4
      <4>2. QED
        BY <2>1, <3>2, <4>1
    <3>3. QED
      BY <3>1, <3>2
  <2>3. QED
    BY <2>1, <2>2
<1>8. IsBest(queue, runnable, now, b)
  BY <1>7 DEF IsBest, score
<1>9. ASSUME NEW c \in Slot, IsBest(queue, runnable, now, c)
      PROVE  c = b
  <2>1. /\ c \in runnable
        /\ \A i \in runnable : score(c) > score(i) \/ (score(c) = score(i) /\ c <= i)
    BY <1>9 DEF IsBest, score
  <2>2. b \in Nat /\ c \in Nat
    BY <1>7, SizesAssumption DEF Slot
  <2>3. score(b) \in Nat /\ score(c) \in Nat
    BY <1>1, <1>7, <2>1
  <2>4. QED
    BY <1>7, <2>1, <2>2, <2>3
<1>10. QED
  BY <1>7, <1>8, <1>9

LEMMA FirstFreeExists ==
  ASSUME Occupied # Slot
  PROVE  \E i \in Slot : IsFirstFree(i)
<1>1. Slot \ Occupied \subseteq Nat /\ Slot \ Occupied # {}
  BY SizesAssumption DEF Slot, Occupied
<1>2. QED
  BY <1>1, LeastElement DEF IsFirstFree

\* One slot is selected from a queue in which some task can run.
SelectsOne(queue) ==
  LET runnable == {i \in Slot : queue[i].id # NoTask /\ IsRunnable(queue[i])}
  IN  runnable # {} =>
        \E b \in runnable :
          /\ IsBest(queue, runnable, tick + 1, b)
          /\ \A c \in Slot : IsBest(queue, runnable, tick + 1, c) => c = b

(***************************************************************************)
(* Where the code searches, the search has a result, and one only: the     *)
(* scan of schedule_next, also after a yield has charged the current task, *)
(* the lookup of the current task, and insert's search for a free slot     *)
(* once its checks have passed.                                            *)
(***************************************************************************)
SearchesSucceed ==
  /\ SelectsOne(slots)
  /\ current_task # NoTask => \E i \in Slot : SlotsOf(current_task) = {i}
  /\ \A i \in SlotsOf(current_task) :
       CanConsumeTick(slots[i]) => SelectsOne([slots EXCEPT ![i] = Yielded(slots[i])])
  /\ InsertResult(next_task_id) \in {"Ok", "CapacityExceeded"}
  /\ InsertResult(next_task_id) = "Ok" => \E i \in Slot : IsFirstFree(i)

\* A method that the checks let through is not stuck: it selects, or inserts into,
\* exactly one slot, and yield_current never answers NotFound.
THEOREM MethodsAreNeverStuck == Spec => []SearchesSucceed
<1>1. ASSUME IInv PROVE SearchesSucceed
  <2> USE <1>1 DEF IInv
  <2>1. ASSUME NEW queue \in [Slot -> TaskControlBlock] PROVE SelectsOne(queue)
    BY ScanKeepsOne DEF SelectsOne
  <2>2. SelectsOne(slots)
    BY <2>1 DEF TypeOK
  <2>3. current_task # NoTask => \E i \in Slot : SlotsOf(current_task) = {i}
    BY SlotOfId DEF CurrentRuns, SlotsOf
  <2>4. ASSUME NEW i \in SlotsOf(current_task), CanConsumeTick(slots[i])
        PROVE  SelectsOne([slots EXCEPT ![i] = Yielded(slots[i])])
    BY <2>1, <2>4, YieldedQueue
  <2>5. InsertResult(next_task_id) \in {"Ok", "CapacityExceeded"}
    BY DEF QueueCoherent
  <2>6. ASSUME InsertResult(next_task_id) = "Ok"
        PROVE  \E i \in Slot : IsFirstFree(i)
    <3>1. Occupied # Slot
      BY <2>6 DEF InsertResult
    <3>2. QED
      BY <3>1, FirstFreeExists
  <2>7. QED
    BY <2>2, <2>3, <2>4, <2>5, <2>6 DEF SearchesSucceed
<1>2. QED
  BY <1>1, Invariance, PTL
==============================================================================
