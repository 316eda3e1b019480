------------------------- MODULE SchedulerTaskProofs -------------------------
(***************************************************************************)
(* What the scheduler's methods do to one task: how long it waits, that    *)
(* its state moves along the lifecycle, that its cached priority stays the *)
(* one its age gives and waiting does not lower it, that its budget pays   *)
(* for its selections, and who enters and leaves the queue in a step.      *)
(*                                                                         *)
(* The bound on waiting: in cooperative use a ready task is passed over at *)
(* most MaxAdvantage + MaxTasks - 1 times in a row, whatever the classes,  *)
(* priorities, deadlines and number of slots.  A task wins the scan        *)
(* against t only while t's age exceeds its own by MaxAdvantage at most,   *)
(* and from then on its age restarts from 0.  So once t is older than      *)
(* MaxAdvantage each further winner joins the set of those t has outrun,   *)
(* leaves it no more while t waits, and t itself is never in it.           *)
(***************************************************************************)
EXTENDS SchedulerProofs

-----------------------------------------------------------------------------
(* Ages and scores *)

\* The slots whose task can no longer win against the one in slot t.
Outrun(queue, t) == {i \in Slot : queue[i].age + MaxAdvantage < queue[t].age}

LEMMA MaxAdvantageType == MaxAdvantage \in Nat
  BY SizesAssumption DEF MaxAdvantage

\* A score cannot lag behind another by a larger difference of ages.
LEMMA ScoreGap ==
  ASSUME NEW a \in TaskControlBlock, NEW c \in TaskControlBlock, NEW now,
         Score(a, now) >= Score(c, now)
  PROVE  c.age <= a.age + MaxAdvantage
<1> DEFINE late(task) == IF DeadlineExpired(task, now) THEN DeadlineBoost ELSE 0
<1>1. /\ Score(a, now) = a.dynamic_priority + 1 + Boost[a.class] + a.age + late(a)
      /\ Score(c, now) = c.dynamic_priority + 1 + Boost[c.class] + c.age + late(c)
  BY Zenon DEF Score
<1>2. /\ late(a) \in 0..DeadlineBoost /\ late(c) \in 0..DeadlineBoost
      /\ DeadlineBoost \in Nat
  BY SizesAssumption
<1>3. /\ Boost[a.class] \in 0..MaxBoost /\ Boost[c.class] \in 0..MaxBoost
      /\ MaxBoost \in Nat
  BY ClassAssumption, SizesAssumption DEF TaskControlBlock
<1>4. /\ a.dynamic_priority \in 0..U8Max /\ c.dynamic_priority \in 0..U8Max
      /\ a.age \in Nat /\ c.age \in Nat /\ U8Max \in Nat
  BY SizesAssumption DEF TaskControlBlock
<1> HIDE DEF late
<1>5. QED
  BY <1>1, <1>2, <1>3, <1>4 DEF MaxAdvantage

LEMMA OutrunCardinality ==
  ASSUME NEW queue, NEW t \in Slot, queue[t].age \in Nat
  PROVE  /\ IsFiniteSet(Outrun(queue, t))
         /\ Cardinality(Outrun(queue, t)) \in 0..(MaxTasks - 1)
<1>1. IsFiniteSet(Slot) /\ Cardinality(Slot) = MaxTasks
  <2>1. 1 \in Int /\ MaxTasks \in Int /\ ~(1 > MaxTasks) /\ MaxTasks - 1 + 1 = MaxTasks
    BY SizesAssumption
  <2>2. /\ IsFiniteSet(1..MaxTasks)
        /\ Cardinality(1..MaxTasks) = IF 1 > MaxTasks THEN 0 ELSE MaxTasks - 1 + 1
    BY <2>1, FS_Interval, Zenon
  <2>3. QED
    BY <2>1, <2>2 DEF Slot
<1>2. IsFiniteSet(Slot \ {t}) /\ Cardinality(Slot \ {t}) = MaxTasks - 1
  BY <1>1, FS_RemoveElement
<1>3. Outrun(queue, t) \in SUBSET (Slot \ {t})
  BY MaxAdvantageType DEF Outrun
<1>4. /\ IsFiniteSet(Outrun(queue, t))
      /\ Cardinality(Outrun(queue, t)) <= MaxTasks - 1
  BY <1>2, <1>3, FS_Subset
<1>5. Cardinality(Outrun(queue, t)) \in Nat
  BY <1>4, FS_CardinalityType
<1>6. QED
  BY <1>4, <1>5, SizesAssumption

-----------------------------------------------------------------------------
(* The inductive invariant *)

(***************************************************************************)
(* Stated on a queue, because a yield hands schedule_next a queue that is  *)
(* not that of any state.                                                  *)
(***************************************************************************)
WaitInv(queue) ==
  \A i \in Slot :
    /\ queue[i].age <= WaitBound
    /\ queue[i].state \in {"Running", "Ready"} => queue[i].id # NoTask
    /\ queue[i].state = "Running" => queue[i].age = 0
    /\ queue[i].state = "Ready" =>
         queue[i].age <= MaxAdvantage + Cardinality(Outrun(queue, i))

LEMMA WaitBoundType == WaitBound \in Nat /\ WaitBound < U16Max
  BY SizesAssumption, AgeAssumption DEF WaitBound, MaxAdvantage

\* Losing to b costs task t one round, and puts b among those t has outrun.
LEMMA PassedOverWaits ==
  ASSUME NEW queue \in [Slot -> TaskControlBlock], WaitInv(queue),
         NEW b \in Slot, NEW t \in Slot, t # b, queue[t].state = "Ready",
         NEW now, Score(queue[b], now) >= Score(queue[t], now)
  PROVE  LET next == Elect(queue, b)
         IN  /\ next[t].age = queue[t].age + 1
             /\ next[t].age <= MaxAdvantage + Cardinality(Outrun(next, t))
             /\ next[t].age <= WaitBound
<1> DEFINE next == Elect(queue, b)
<1>1. /\ queue[t] \in TaskControlBlock /\ queue[b] \in TaskControlBlock
      /\ \A i \in Slot : queue[i].age \in Nat /\ queue[i] \in TaskControlBlock
  BY SizesAssumption DEF TaskControlBlock
<1>2. next[t].age = queue[t].age + 1
  <2>1. queue[t].age < U16Max
    BY <1>1, WaitBoundType, SizesAssumption DEF WaitInv
  <2>2. Aged(queue[t]).age = queue[t].age + 1
    BY <1>1, <2>1 DEF Aged, TaskControlBlock
  <2>3. QED
    BY <2>2 DEF Elect, PassedOver
<1>3. next[b].age = 0
  BY <1>1 DEF Elect, Selected, TaskControlBlock
<1>4. \A i \in Slot : next[i].age \in Nat /\ next[i].age <= queue[i].age + 1
  <2>1. \A i \in Slot : PassedOver(queue[i]).age \in
          {queue[i].age, queue[i].age + 1, U16Max}
    BY <1>1 DEF PassedOver, Aged, TaskControlBlock
  <2>2. \A i \in Slot : queue[i].age < U16Max
    BY <1>1, WaitBoundType, SizesAssumption DEF WaitInv
  <2>3. \A i \in Slot : PassedOver(queue[i]).age \in {queue[i].age, queue[i].age + 1}
    BY <1>1, <2>2 DEF PassedOver, Aged, TaskControlBlock
  <2>4. QED
    BY <1>1, <1>3, <2>3 DEF Elect
<1>5. queue[t].age <= queue[b].age + MaxAdvantage
  BY <1>1, ScoreGap
<1>6. b \notin Outrun(queue, t)
  BY <1>1, <1>5, MaxAdvantageType DEF Outrun
<1> DEFINE before == Outrun(queue, t)
           after == Outrun(next, t)
<1>8. before \subseteq after
  <2>1. SUFFICES ASSUME NEW i \in before PROVE i \in after
    OBVIOUS
  <2>2. i \in Slot /\ queue[i].age + MaxAdvantage < queue[t].age
    BY DEF Outrun
  <2>3. next[i].age + MaxAdvantage < next[t].age
    BY <1>1, <1>2, <1>4, <2>2, MaxAdvantageType
  <2> HIDE DEF next
  <2>4. QED
    BY <2>2, <2>3 DEF Outrun
<1>9. IsFiniteSet(after) /\ Cardinality(after) \in 0..(MaxTasks - 1)
  <2>1. next[t].age \in Nat
    BY <1>1, <1>2
  <2> HIDE DEF next
  <2>2. QED
    BY <2>1, OutrunCardinality
<1>10. queue[t].age <= MaxAdvantage + Cardinality(before)
  BY DEF WaitInv
<1>11. IsFiniteSet(before) /\ Cardinality(before) \in 0..(MaxTasks - 1)
  BY <1>1, OutrunCardinality
<1>12. next[t].age <= MaxAdvantage + Cardinality(after)
  <2>1. CASE next[t].age <= MaxAdvantage
    <3> HIDE DEF next, after
    <3>1. QED
      BY <2>1, <1>1, <1>2, <1>9, MaxAdvantageType
  <2>2. CASE ~(next[t].age <= MaxAdvantage)
    <3>1. 0 + MaxAdvantage < next[t].age
      BY <2>2, <1>1, <1>2, MaxAdvantageType
    <3>2. b \in after
      BY <3>1, <1>3, Zenon DEF Outrun
    <3>3. before \cup {b} \in SUBSET after
      BY <1>8, <3>2
    <3>4. Cardinality(before \cup {b}) = Cardinality(before) + 1
      BY <1>6, <1>11, FS_AddElement
    <3>5. Cardinality(before) + 1 <= Cardinality(after)
      BY <1>9, <3>3, <3>4, FS_Subset
    <3> HIDE DEF next, before, after
    <3>6. QED
      BY <1>1, <1>2, <1>9, <1>10, <1>11, <3>5, MaxAdvantageType, SizesAssumption
  <2>3. QED
    BY <2>1, <2>2
<1>13. next[t].age <= WaitBound
  <2> HIDE DEF next, after
  <2>1. QED
    BY <1>1, <1>2, <1>9, <1>12, MaxAdvantageType, SizesAssumption DEF WaitBound
<1>14. QED
  BY <1>2, <1>12, <1>13

\* A dispatch keeps the invariant.
LEMMA DispatchWaits ==
  ASSUME NEW queue \in [Slot -> TaskControlBlock], UniqueIds(queue), Dispatch(queue),
         tick \in 0..U64Max, WaitInv(queue)
  PROVE  WaitInv(slots')
<1>1. CASE slots' = queue
  BY <1>1
<1>2. ASSUME NEW b \in Slot, slots' = Elect(queue, b), queue[b].id # NoTask,
             IsBest(queue, {i \in Slot : queue[i].id # NoTask
                                       /\ IsRunnable(queue[i])}, tick + 1, b)
      PROVE  WaitInv(slots')
  <2> SUFFICES ASSUME NEW i \in Slot
      PROVE  /\ slots'[i].age <= WaitBound
             /\ slots'[i].state \in {"Running", "Ready"} => slots'[i].id # NoTask
             /\ slots'[i].state = "Running" => slots'[i].age = 0
             /\ slots'[i].state = "Ready" =>
                  slots'[i].age <= MaxAdvantage + Cardinality(Outrun(slots', i))
    BY DEF WaitInv
  <2>1. queue[i] \in TaskControlBlock /\ queue[i].age \in Nat
    BY SizesAssumption DEF TaskControlBlock
  <2>2. ASSUME slots'[i].age = 0
        PROVE  /\ slots'[i].age <= WaitBound
               /\ slots'[i].age <= MaxAdvantage + Cardinality(Outrun(slots', i))
    <3>1. Cardinality(Outrun(slots', i)) \in 0..(MaxTasks - 1)
      BY <2>2, OutrunCardinality
    <3>2. QED
      BY <2>2, <3>1, WaitBoundType, MaxAdvantageType, SizesAssumption
  <2>3. CASE i = b
    <3>1. /\ slots'[i].age = 0 /\ slots'[i].state = "Running"
          /\ slots'[i].id # NoTask
      BY <1>2, <2>1, <2>3 DEF Elect, Selected, TaskControlBlock
    <3>2. QED
      BY <2>2, <3>1
  <2>4. CASE i # b /\ queue[i].state = "Running"
    <3>1. slots'[i] = [queue[i] EXCEPT !.state = "Ready"]
      BY <1>2, <2>4 DEF Elect, PassedOver
    <3>2. slots'[i].age = 0 /\ slots'[i].state = "Ready"
      BY <2>1, <2>4, <3>1 DEF WaitInv, TaskControlBlock
    <3>3. slots'[i].id # NoTask
      BY <2>1, <2>4, <3>1 DEF WaitInv, TaskControlBlock
    <3>4. QED
      BY <2>2, <3>2, <3>3
  <2>5. CASE i # b /\ queue[i].state = "Ready"
    <3>1. queue[i].id # NoTask
      BY <2>5 DEF WaitInv
    <3>2. Score(queue[b], tick + 1) >= Score(queue[i], tick + 1)
      <4>1. i \in {j \in Slot : queue[j].id # NoTask /\ IsRunnable(queue[j])}
        BY <2>5, <3>1 DEF IsRunnable
      <4>2. \/ Score(queue[b], tick + 1) > Score(queue[i], tick + 1)
            \/ Score(queue[b], tick + 1) = Score(queue[i], tick + 1)
        BY <1>2, <4>1 DEF IsBest
      <4>3. /\ Score(queue[b], tick + 1) \in Int
            /\ Score(queue[i], tick + 1) \in Int
        BY SizesAssumption, ClassAssumption DEF Score, TaskControlBlock
      <4>4. QED
        BY <4>2, <4>3
    <3>3. /\ slots'[i].age <= MaxAdvantage + Cardinality(Outrun(slots', i))
          /\ slots'[i].age <= WaitBound
      BY <1>2, <2>5, <3>2, PassedOverWaits
    <3>4. slots'[i].state = "Ready" /\ slots'[i].id # NoTask
      BY <1>2, <2>1, <2>5, <3>1 DEF Elect, PassedOver, Aged, TaskControlBlock
    <3>5. QED
      BY <3>3, <3>4
  <2>6. CASE i # b /\ queue[i].state \notin {"Running", "Ready"}
    <3>1. slots'[i] = queue[i]
      BY <1>2, <2>6 DEF Elect, PassedOver
    <3>2. QED
      BY <2>6, <3>1 DEF WaitInv
  <2>7. QED
    BY <2>3, <2>4, <2>5, <2>6
<1>3. QED
  BY <1>1, <1>2, DispatchElects

(***************************************************************************)
(* A change of the queue that lowers no age difference: it may take tasks  *)
(* out of the waiting ones, or start one at age 0.                         *)
(***************************************************************************)
LEMMA QuietWaits ==
  ASSUME NEW queue \in [Slot -> TaskControlBlock],
         NEW next \in [Slot -> TaskControlBlock], WaitInv(queue),
         \A i \in Slot :
           \/ /\ next[i].age = queue[i].age /\ next[i].id = queue[i].id
              /\ next[i].state \in {"Running", "Ready"} =>
                   queue[i].state \in {"Running", "Ready"}
              /\ next[i].state = "Running" => queue[i].state = "Running"
           \/ next[i].age = 0 /\ next[i].id # NoTask
  PROVE  WaitInv(next)
<1> SUFFICES ASSUME NEW i \in Slot
    PROVE  /\ next[i].age <= WaitBound
           /\ next[i].state \in {"Running", "Ready"} => next[i].id # NoTask
           /\ next[i].state = "Running" => next[i].age = 0
           /\ next[i].state = "Ready" =>
                next[i].age <= MaxAdvantage + Cardinality(Outrun(next, i))
  BY DEF WaitInv
<1>1. \A j \in Slot : queue[j].age \in Nat /\ next[j].age \in Nat
  BY SizesAssumption DEF TaskControlBlock
<1>2. Cardinality(Outrun(next, i)) \in 0..(MaxTasks - 1)
  BY <1>1, OutrunCardinality
<1>3. CASE next[i].age = 0 /\ next[i].id # NoTask
  BY <1>2, <1>3, WaitBoundType, MaxAdvantageType, SizesAssumption
<1>4. CASE next[i].age = queue[i].age /\ queue[i].state = "Running"
           /\ next[i].id = queue[i].id
  BY <1>2, <1>4, WaitBoundType, MaxAdvantageType, SizesAssumption DEF WaitInv
<1>5. CASE /\ next[i].age = queue[i].age /\ next[i].state # "Running"
           /\ next[i].id = queue[i].id /\ queue[i].state = "Ready"
  <2>1. Outrun(queue, i) \in SUBSET Outrun(next, i)
    BY <1>1, <1>5, MaxAdvantageType DEF Outrun
  <2>2. IsFiniteSet(Outrun(next, i))
    BY <1>1, OutrunCardinality
  <2>3. Cardinality(Outrun(queue, i)) <= Cardinality(Outrun(next, i))
    BY <2>1, <2>2, FS_Subset
  <2>4. Cardinality(Outrun(queue, i)) \in 0..(MaxTasks - 1)
    BY <1>1, OutrunCardinality
  <2>5. queue[i].age <= MaxAdvantage + Cardinality(Outrun(queue, i))
    BY <1>5 DEF WaitInv
  <2>6. next[i].age <= MaxAdvantage + Cardinality(Outrun(next, i))
    BY <1>1, <1>2, <1>5, <2>3, <2>4, <2>5, MaxAdvantageType, SizesAssumption
  <2>7. QED
    BY <1>5, <2>6 DEF WaitInv
<1>6. CASE next[i].age = queue[i].age /\ next[i].state \notin {"Running", "Ready"}
  BY <1>6 DEF WaitInv
<1>7. QED
  BY <1>3, <1>4, <1>5, <1>6

-----------------------------------------------------------------------------
(* The bound holds in every state of cooperative use *)

\* Giving up the processor changes no age.
LEMMA YieldedWaits ==
  ASSUME IInv, WaitInv(slots), NEW k \in SlotsOf(current_task), CanConsumeTick(slots[k])
  PROVE  WaitInv([slots EXCEPT ![k] = Yielded(slots[k])])
<1> DEFINE queue == [slots EXCEPT ![k] = Yielded(slots[k])]
<1>1. TypeOK /\ QueueCoherent
  BY DEF IInv
<1>2. queue \in [Slot -> TaskControlBlock] /\ slots \in [Slot -> TaskControlBlock]
  BY <1>1, YieldedQueue DEF TypeOK
<1>3. k \in Slot
  BY <1>1, SlotOfId
<1>4. /\ Yielded(slots[k]).age = slots[k].age /\ Yielded(slots[k]).id = slots[k].id
      /\ Yielded(slots[k]).state \in {"Running", "Ready"} =>
           slots[k].state \in {"Running", "Ready"}
      /\ Yielded(slots[k]).state # "Running"
  BY <1>2, <1>3 DEF Yielded, TaskControlBlock
<1>5. /\ queue[k] = Yielded(slots[k])
      /\ \A i \in Slot : i # k => queue[i] = slots[i]
  BY <1>2, <1>3
<1> HIDE DEF queue
<1>6. \A i \in Slot :
        /\ queue[i].age = slots[i].age /\ queue[i].id = slots[i].id
        /\ queue[i].state \in {"Running", "Ready"} => slots[i].state \in {"Running", "Ready"}
        /\ queue[i].state = "Running" => slots[i].state = "Running"
  BY <1>4, <1>5
<1>7. WaitInv(queue)
  BY <1>2, <1>6, QuietWaits
<1>8. QED
  BY <1>7 DEF queue

LEMMA CoopWaits ==
  ASSUME IInv, IInv', WaitInv(slots), [CoopNext]_vars
  PROVE  WaitInv(slots')
<1>1. /\ slots \in [Slot -> TaskControlBlock] /\ slots' \in [Slot -> TaskControlBlock]
      /\ tick \in 0..U64Max /\ UniqueIds(slots)
  BY IdsUnique DEF IInv, TypeOK
<1>2. ASSUME NEW arg \in SpawnArgs, SpawnInserted(arg)
      PROVE  WaitInv(slots')
  <2>1. PICK k \in Slot : slots' = [slots EXCEPT ![k] = NewTask(next_task_id, arg)]
    BY <1>2 DEF SpawnInserted
  <2>2. next_task_id # NoTask
    BY SizesAssumption DEF IInv, TypeOK, NoTask
  <2>3. /\ slots'[k].age = 0 /\ slots'[k].id # NoTask
        /\ \A i \in Slot : i # k => slots'[i] = slots[i]
    BY <1>1, <2>1, <2>2 DEF NewTask
  <2>4. QED
    BY <1>1, <2>3, QuietWaits
<1>3. CASE SpawnRejected \/ UNCHANGED vars
  BY <1>3 DEF SpawnRejected, vars
<1>4. CASE ScheduleNext
  BY <1>1, <1>4, DispatchWaits DEF ScheduleNext
<1>5. CASE YieldCurrent \/ YieldAtLastTick
  <2>1. PICK k \in SlotsOf(current_task) :
          /\ CanConsumeTick(slots[k])
          /\ \/ Dispatch([slots EXCEPT ![k] = Yielded(slots[k])])
             \/ slots' = [slots EXCEPT ![k] = Yielded(slots[k])]
    BY <1>5 DEF YieldCurrent, YieldAtLastTick
  <2> DEFINE queue == [slots EXCEPT ![k] = Yielded(slots[k])]
  <2>2. WaitInv(queue)
    BY <2>1, YieldedWaits
  <2>3. /\ queue \in [Slot -> TaskControlBlock]
        /\ \A i \in Slot : queue[i].id = slots[i].id
    BY <2>1, YieldedQueue DEF IInv
  <2>4. Dispatch(queue) \/ slots' = queue
    BY <2>1
  <2> HIDE DEF queue
  <2>5. UniqueIds(queue)
    BY <1>1, <2>3 DEF UniqueIds
  <2>6. QED
    BY <1>1, <2>2, <2>3, <2>4, <2>5, DispatchWaits
<1>6. ASSUME NEW id \in QueuedIds, Cancel(id)
      PROVE  WaitInv(slots')
  <2>1. PICK k \in SlotsOf(id) : slots' = [slots EXCEPT ![k].state = "Zombie"]
    BY <1>6 DEF Cancel
  <2>2. \A i \in Slot :
          /\ slots'[i].age = slots[i].age /\ slots'[i].id = slots[i].id
          /\ slots'[i].state \in {slots[i].state, "Zombie"}
    BY <1>1, <2>1 DEF TaskControlBlock
  <2>3. \A i \in Slot :
          /\ slots'[i].state \in {"Running", "Ready"} => slots[i].state \in {"Running", "Ready"}
          /\ slots'[i].state = "Running" => slots[i].state = "Running"
    BY <2>2
  <2>4. QED
    BY <1>1, <2>2, <2>3, QuietWaits
<1>7. QED
  BY <1>2, <1>3, <1>4, <1>5, <1>6 DEF CoopNext, FacadeNext, YieldIdle

LEMMA WaitInvariance == CoopSpec => []WaitInv(slots)
<1>1. Init => WaitInv(slots)
  <2> SUFFICES ASSUME Init PROVE WaitInv(slots)
    OBVIOUS
  <2>1. \A i \in Slot : slots[i].age = 0 /\ slots[i].state = "Zombie"
    BY DEF Init, EmptySlot
  <2>2. QED
    BY <2>1, WaitBoundType DEF WaitInv
<1>2. IInv /\ IInv' /\ WaitInv(slots) /\ [CoopNext]_vars => WaitInv(slots)'
  BY CoopWaits
<1>3. QED
  BY <1>1, <1>2, CoopStepsAreSteps, PTL DEF CoopSpec

(***************************************************************************)
(* schedule_next starves nobody: in cooperative use no ready task is       *)
(* passed over more than WaitBound times in a row.                         *)
(***************************************************************************)
THEOREM NobodyStarves == CoopSpec => []WaitBounded
<1>1. WaitInv(slots) => WaitBounded
  BY DEF WaitInv, WaitBounded
<1>2. QED
  BY <1>1, WaitInvariance, PTL

\* A dispatch ages whoever could run and was not selected.
LEMMA DispatchAges ==
  ASSUME NEW queue \in [Slot -> TaskControlBlock], UniqueIds(queue), Dispatch(queue),
         WaitInv(queue), NEW i \in Slot, queue[i].state = "Ready", slots'[i].state = "Ready"
  PROVE  slots'[i].age = queue[i].age + 1
<1>1. queue[i] \in TaskControlBlock /\ queue[i].id # NoTask /\ IsRunnable(queue[i])
  BY DEF WaitInv, IsRunnable
<1>2. PICK b \in Slot : slots' = Elect(queue, b)
  BY <1>1, DispatchElects
<1>3. i # b
  BY <1>1, <1>2 DEF Elect, Selected, TaskControlBlock
<1>4. slots'[i] = Aged(queue[i])
  BY <1>2, <1>3 DEF Elect, PassedOver
<1>5. queue[i].age \in Nat /\ queue[i].age < U16Max
  BY <1>1, WaitBoundType, SizesAssumption DEF WaitInv, TaskControlBlock
<1>6. QED
  BY <1>1, <1>4, <1>5 DEF Aged, TaskControlBlock

(***************************************************************************)
(* The age of a task that stays ready grows with the tick: it is the       *)
(* number of rounds the task has been passed over, which is why a bound on *)
(* ages is a bound on waiting.                                             *)
(***************************************************************************)
AgeCountsRounds ==
  [][\A i \in Occupied :
       slots[i].state = "Ready" /\ slots'[i].state = "Ready" =>
         slots'[i].age = slots[i].age + (tick' - tick)]_vars

LEMMA CoopAges ==
  ASSUME IInv, WaitInv(slots), CoopNext,
         NEW i \in Slot, slots[i].state = "Ready", slots'[i].state = "Ready", i \in Occupied
  PROVE  slots'[i].age = slots[i].age + (tick' - tick)
<1>1. /\ slots \in [Slot -> TaskControlBlock] /\ tick \in Nat /\ UniqueIds(slots)
      /\ slots[i].age \in Nat
  BY IdsUnique, SizesAssumption DEF IInv, TypeOK, TaskControlBlock
<1>2. ASSUME slots'[i].age = slots[i].age, tick' = tick
      PROVE  slots'[i].age = slots[i].age + (tick' - tick)
  BY <1>1, <1>2
<1>3. ASSUME slots'[i].age = slots[i].age + 1, tick' = tick + 1
      PROVE  slots'[i].age = slots[i].age + (tick' - tick)
  BY <1>1, <1>3
<1>4. ASSUME NEW arg \in SpawnArgs, SpawnInserted(arg)
      PROVE  slots'[i].age = slots[i].age /\ tick' = tick
  BY <1>1, <1>4 DEF SpawnInserted, IsFirstFree
<1>5. CASE SpawnRejected
  BY <1>2, <1>5 DEF SpawnRejected
<1>6. CASE ScheduleNext
  <2>1. Dispatch(slots)
    BY <1>6 DEF ScheduleNext
  <2>2. slots'[i].age = slots[i].age + 1
    BY <1>1, <2>1, DispatchAges
  <2>3. tick' = tick + 1
    BY <2>1 DEF Dispatch
  <2>4. QED
    BY <1>3, <2>2, <2>3
<1>7. CASE YieldCurrent \/ YieldAtLastTick
  <2>1. PICK k \in SlotsOf(current_task) :
          /\ CanConsumeTick(slots[k])
          /\ \/ Dispatch([slots EXCEPT ![k] = Yielded(slots[k])])
             \/ slots' = [slots EXCEPT ![k] = Yielded(slots[k])] /\ tick' = tick
    BY <1>7 DEF YieldCurrent, YieldAtLastTick
  <2> DEFINE queue == [slots EXCEPT ![k] = Yielded(slots[k])]
  <2>2. WaitInv(queue)
    BY <2>1, YieldedWaits
  <2>3. /\ queue \in [Slot -> TaskControlBlock]
        /\ \A j \in Slot : queue[j].id = slots[j].id
    BY <2>1, YieldedQueue DEF IInv
  <2>4. queue[i].age = slots[i].age /\ queue[i].state = "Ready"
    BY <1>1 DEF Yielded, TaskControlBlock
  <2>5. Dispatch(queue) \/ (slots' = queue /\ tick' = tick)
    BY <2>1
  <2> HIDE DEF queue
  <2>6. UniqueIds(queue)
    BY <1>1, <2>3 DEF UniqueIds
  <2>7. CASE Dispatch(queue)
    <3>1. slots'[i].age = queue[i].age + 1
      BY <2>2, <2>3, <2>4, <2>6, <2>7, DispatchAges
    <3>2. tick' = tick + 1
      BY <2>7 DEF Dispatch
    <3>3. QED
      BY <1>3, <2>4, <3>1, <3>2
  <2>8. QED
    BY <1>2, <2>4, <2>5, <2>7
<1>8. ASSUME NEW id \in QueuedIds, Cancel(id)
      PROVE  slots'[i].age = slots[i].age /\ tick' = tick
  <2>1. PICK k \in SlotsOf(id) : slots' = [slots EXCEPT ![k].state = "Zombie"]
    BY <1>8 DEF Cancel
  <2>2. slots'[i].age = slots[i].age
    BY <1>1, <2>1 DEF TaskControlBlock
  <2>3. QED
    BY <1>8, <2>2 DEF Cancel
<1>9. QED
  BY <1>2, <1>4, <1>5, <1>6, <1>7, <1>8 DEF CoopNext, FacadeNext, YieldIdle

\* A round in which schedule_next passes a ready task over makes it one round older, and
\* neither a yield, a spawn nor a cancellation touches its age.
THEOREM AgesCountRounds == CoopSpec => AgeCountsRounds
<1> DEFINE Counts ==
      \A i \in Occupied :
        slots[i].state = "Ready" /\ slots'[i].state = "Ready" =>
          slots'[i].age = slots[i].age + (tick' - tick)
<1>1. IInv /\ WaitInv(slots) /\ [CoopNext]_vars => [Counts]_vars
  BY CoopAges DEF Occupied
<1> HIDE DEF Counts
<1>2. QED
  BY <1>1, WaitInvariance, CoopStepsAreSteps, PTL DEF CoopSpec, AgeCountsRounds, Counts

-----------------------------------------------------------------------------
(* Lifecycle and priority *)

\* The cached priority is the one that base priority and age give.
AgedRight(task) == task.dynamic_priority = AgedPriority(task.base_priority, task.age)

\* What a dispatch may do to a state.  Unlike ValidTransition it is transitive, and a
\* yield followed by a dispatch is two of it.
StateMoves(from, to) == to = from \/ {from, to} \subseteq {"Ready", "Running"}

Dispatched(old, new) ==
  /\ new.id = old.id /\ new.class = old.class
  /\ new.base_priority = old.base_priority /\ new.max_ticks = old.max_ticks
  /\ StateMoves(old.state, new.state)
  /\ AgedRight(old) => AgedRight(new)

\* What any step may do to a task in the queue.
Evolves(old, new) ==
  /\ new.id = old.id /\ new.class = old.class
  /\ new.base_priority = old.base_priority /\ new.max_ticks = old.max_ticks
  /\ new.state = old.state \/ ValidTransition(old.state, new.state)
  /\ AgedRight(old) => AgedRight(new)

-----------------------------------------------------------------------------
(* Lemmas about one task *)

LEMMA NoAgeNoBonus ==
  ASSUME NEW base \in 0..U8Max
  PROVE  AgedPriority(base, 0) = base
<1>1. 0 \div AgeStep = 0
  BY SizesAssumption
<1>2. 0 % (U8Max + 1) = 0
  BY SizesAssumption
<1>3. QED
  BY <1>1, <1>2, SizesAssumption DEF AgedPriority

LEMMA MovesAreValid ==
  ASSUME NEW from, NEW to, StateMoves(from, to)
  PROVE  to = from \/ ValidTransition(from, to)
<1>1. CASE from = "Ready" /\ to = "Running"
  BY <1>1 DEF ValidTransition
<1>2. CASE from = "Running" /\ to = "Ready"
  BY <1>2 DEF ValidTransition
<1>3. QED
  BY <1>1, <1>2 DEF StateMoves

LEMMA DispatchedEvolves ==
  ASSUME NEW old, NEW new, Dispatched(old, new)
  PROVE  Evolves(old, new)
  BY MovesAreValid DEF Dispatched, Evolves

LEMMA SelectedDispatched ==
  ASSUME NEW task \in TaskControlBlock, IsRunnable(task)
  PROVE  Dispatched(task, Selected(task))
<1>1. /\ Selected(task).id = task.id /\ Selected(task).class = task.class
      /\ Selected(task).base_priority = task.base_priority
      /\ Selected(task).max_ticks = task.max_ticks
      /\ Selected(task).dynamic_priority = task.base_priority
      /\ Selected(task).age = 0 /\ Selected(task).state = "Running"
  BY DEF Selected, TaskControlBlock
<1>2. task.base_priority \in 0..U8Max
  BY DEF TaskControlBlock
<1>3. AgedRight(Selected(task))
  BY <1>1, <1>2, NoAgeNoBonus DEF AgedRight
<1>4. StateMoves(task.state, Selected(task).state)
  BY <1>1 DEF StateMoves, IsRunnable
<1>5. QED
  BY <1>1, <1>3, <1>4 DEF Dispatched

LEMMA PassedOverDispatched ==
  ASSUME NEW task \in TaskControlBlock
  PROVE  Dispatched(task, PassedOver(task))
<1>1. CASE task.state = "Running"
  <2>1. PassedOver(task) = [task EXCEPT !.state = "Ready"]
    BY <1>1 DEF PassedOver
  <2>2. /\ PassedOver(task).id = task.id /\ PassedOver(task).class = task.class
        /\ PassedOver(task).base_priority = task.base_priority
        /\ PassedOver(task).max_ticks = task.max_ticks
        /\ PassedOver(task).dynamic_priority = task.dynamic_priority
        /\ PassedOver(task).age = task.age /\ PassedOver(task).state = "Ready"
    BY <2>1 DEF TaskControlBlock
  <2>3. QED
    BY <1>1, <2>2 DEF Dispatched, StateMoves, AgedRight
<1>2. CASE task.state = "Ready"
  <2> DEFINE age == IF task.age < U16Max THEN task.age + 1 ELSE U16Max
  <2>1. PassedOver(task) =
          [task EXCEPT !.age = age,
                       !.dynamic_priority = AgedPriority(task.base_priority, age)]
    BY <1>2 DEF PassedOver, Aged
  <2> HIDE DEF age
  <2>2. /\ PassedOver(task).id = task.id /\ PassedOver(task).class = task.class
        /\ PassedOver(task).base_priority = task.base_priority
        /\ PassedOver(task).max_ticks = task.max_ticks
        /\ PassedOver(task).dynamic_priority = AgedPriority(task.base_priority, age)
        /\ PassedOver(task).age = age /\ PassedOver(task).state = task.state
    BY <2>1 DEF TaskControlBlock
  <2>3. QED
    BY <2>2 DEF Dispatched, StateMoves, AgedRight
<1>3. CASE task.state # "Running" /\ task.state # "Ready"
  BY <1>3 DEF PassedOver, Dispatched, StateMoves
<1>4. QED
  BY <1>1, <1>2, <1>3

LEMMA YieldedDispatched ==
  ASSUME NEW task \in TaskControlBlock
  PROVE  Dispatched(task, Yielded(task))
<1>1. /\ Yielded(task).id = task.id /\ Yielded(task).class = task.class
      /\ Yielded(task).base_priority = task.base_priority
      /\ Yielded(task).max_ticks = task.max_ticks
      /\ Yielded(task).dynamic_priority = task.dynamic_priority
      /\ Yielded(task).age = task.age
      /\ Yielded(task).state = IF task.state = "Running" THEN "Ready" ELSE task.state
  BY DEF Yielded, TaskControlBlock
<1>2. QED
  BY <1>1 DEF Dispatched, StateMoves, AgedRight

LEMMA DispatchedTwice ==
  ASSUME NEW a, NEW b, NEW c, Dispatched(a, b), Dispatched(b, c)
  PROVE  Dispatched(a, c)
  BY DEF Dispatched, StateMoves

-----------------------------------------------------------------------------
(* Lemmas about one step *)

LEMMA DispatchDispatches ==
  ASSUME NEW queue \in [Slot -> TaskControlBlock], UniqueIds(queue), Dispatch(queue),
         NEW i \in Slot
  PROVE  Dispatched(queue[i], slots'[i])
<1>1. CASE slots' = queue
  BY <1>1 DEF Dispatched, StateMoves
<1>2. ASSUME NEW b \in Slot, IsRunnable(queue[b]), slots' = Elect(queue, b)
      PROVE  Dispatched(queue[i], slots'[i])
  <2>1. CASE i = b
    BY <1>2, <2>1, SelectedDispatched DEF Elect
  <2>2. CASE i # b
    BY <1>2, <2>2, PassedOverDispatched DEF Elect
  <2>3. QED
    BY <2>1, <2>2
<1>3. QED
  BY <1>1, <1>2, DispatchElects

\* Scheduling and yielding move a task between Ready and Running only.
LEMMA SelectionDispatches ==
  ASSUME IInv, ScheduleNext \/ YieldCurrent \/ YieldAtLastTick, NEW i \in Slot
  PROVE  Dispatched(slots[i], slots'[i])
<1> USE DEF IInv
<1>0. /\ slots \in [Slot -> TaskControlBlock] /\ UniqueIds(slots)
      /\ Dispatched(slots[i], slots[i])
  BY IdsUnique DEF TypeOK, Dispatched, StateMoves
<1>1. CASE ScheduleNext
  BY <1>0, <1>1, DispatchDispatches DEF ScheduleNext
<1>2. CASE YieldCurrent
  <2>1. PICK k \in SlotsOf(current_task) :
          CanConsumeTick(slots[k]) /\ Dispatch([slots EXCEPT ![k] = Yielded(slots[k])])
    BY <1>2 DEF YieldCurrent
  <2> DEFINE queue == [slots EXCEPT ![k] = Yielded(slots[k])]
  <2>2. /\ queue \in [Slot -> TaskControlBlock]
        /\ \A j \in Slot : queue[j].id = slots[j].id
    BY <2>1, YieldedQueue
  <2>3. Dispatch(queue)
    BY <2>1
  <2>4. Dispatched(slots[i], queue[i])
    BY <1>0, YieldedDispatched
  <2> HIDE DEF queue
  <2>5. Dispatched(queue[i], slots'[i])
    BY <1>0, <2>2, <2>3, DispatchDispatches DEF UniqueIds
  <2>6. QED
    BY <2>4, <2>5, DispatchedTwice
<1>3. CASE YieldAtLastTick
  <2>1. PICK k \in SlotsOf(current_task) : slots' = [slots EXCEPT ![k] = Yielded(slots[k])]
    BY <1>3 DEF YieldAtLastTick
  <2>2. QED
    BY <1>0, <2>1, YieldedDispatched
<1>4. QED
  BY <1>1, <1>2, <1>3

\* A change of state alone, which transition and cancel check.
LEMMA StateChangeEvolves ==
  ASSUME TypeOK, NEW k \in Slot, NEW to, ValidTransition(slots[k].state, to),
         slots' = [slots EXCEPT ![k].state = to], NEW i \in Slot
  PROVE  Evolves(slots[i], slots'[i])
<1>1. slots[i] \in TaskControlBlock /\ slots \in [Slot -> TaskControlBlock]
  BY DEF TypeOK
<1>2. CASE i # k
  <2>1. slots'[i] = slots[i]
    BY <1>1, <1>2
  <2>2. QED
    BY <2>1 DEF Evolves
<1>3. CASE i = k
  <2>1. slots'[i] = [slots[i] EXCEPT !.state = to]
    BY <1>1, <1>3
  <2>2. /\ slots'[i].id = slots[i].id /\ slots'[i].class = slots[i].class
        /\ slots'[i].state = to
        /\ slots'[i].base_priority = slots[i].base_priority
        /\ slots'[i].dynamic_priority = slots[i].dynamic_priority
        /\ slots'[i].age = slots[i].age /\ slots'[i].max_ticks = slots[i].max_ticks
    BY <1>1, <2>1 DEF TaskControlBlock
  <2>3. QED
    BY <1>3, <2>2 DEF Evolves, AgedRight
<1>4. QED
  BY <1>2, <1>3

(***************************************************************************)
(* A step replaces what a slot holds only when it spawns into a free slot. *)
(***************************************************************************)
IsNewTask(i) ==
  i \notin Occupied /\ \E arg \in SpawnArgs : slots'[i] = NewTask(next_task_id, arg)

LEMMA StepEvolves ==
  ASSUME IInv, [Next]_vars, NEW i \in Slot
  PROVE  Evolves(slots[i], slots'[i]) \/ IsNewTask(i)
<1> USE DEF IInv
<1>0. /\ slots \in [Slot -> TaskControlBlock] /\ UniqueIds(slots)
      /\ slots' = slots => Evolves(slots[i], slots'[i])
  BY IdsUnique DEF TypeOK, Evolves
<1>1. ASSUME NEW arg \in SpawnArgs, SpawnInserted(arg)
      PROVE  Evolves(slots[i], slots'[i]) \/ IsNewTask(i)
  <2>1. PICK k \in Slot : /\ IsFirstFree(k)
                          /\ slots' = [slots EXCEPT ![k] = NewTask(next_task_id, arg)]
    BY <1>1 DEF SpawnInserted
  <2>2. CASE i # k
    <3>1. slots'[i] = slots[i]
      BY <1>0, <2>1, <2>2
    <3>2. QED
      BY <3>1 DEF Evolves
  <2>3. CASE i = k
    BY <1>0, <2>1, <2>3 DEF IsFirstFree, IsNewTask
  <2>4. QED
    BY <2>2, <2>3
<1>2. CASE ScheduleNext \/ YieldCurrent \/ YieldAtLastTick
  BY <1>2, SelectionDispatches, DispatchedEvolves
<1>3. ASSUME NEW id \in QueuedIds, Cancel(id)
      PROVE  Evolves(slots[i], slots'[i])
  <2>1. PICK k \in SlotsOf(id) : slots' = [slots EXCEPT ![k].state = "Zombie"]
    BY <1>3 DEF Cancel
  <2>2. k \in Slot /\ ValidTransition(slots[k].state, "Zombie")
    BY <2>1, SlotOfId DEF ValidTransition
  <2>3. QED
    BY <2>1, <2>2, StateChangeEvolves
<1>4. ASSUME NEW id \in QueuedIds, NEW to \in TaskState, Transition(id, to)
      PROVE  Evolves(slots[i], slots'[i])
  <2>1. PICK k \in SlotsOf(id) : /\ ValidTransition(slots[k].state, to)
                                 /\ slots' = [slots EXCEPT ![k].state = to]
    BY <1>4 DEF Transition
  <2>2. k \in Slot
    BY <2>1, SlotOfId
  <2>3. QED
    BY <2>1, <2>2, StateChangeEvolves
<1>5. CASE SpawnRejected \/ UNCHANGED vars
  BY <1>0, <1>5 DEF SpawnRejected, vars
<1>6. QED
  BY <1>1, <1>2, <1>3, <1>4, <1>5
  DEF Next, CoopNext, FacadeNext, YieldIdle

-----------------------------------------------------------------------------
(* Theorems *)

AllAged == \A i \in Slot : AgedRight(slots[i])

LEMMA InitAged == Init => AllAged
  BY NoAgeNoBonus, SizesAssumption DEF Init, AllAged, AgedRight, EmptySlot

LEMMA NextAged == IInv /\ AllAged /\ [Next]_vars => AllAged'
<1> SUFFICES ASSUME IInv, AllAged, [Next]_vars, NEW i \in Slot
             PROVE  AgedRight(slots'[i])
  BY DEF AllAged
<1>1. CASE Evolves(slots[i], slots'[i])
  BY <1>1 DEF AllAged, Evolves
<1>2. CASE IsNewTask(i)
  <2>1. PICK arg \in SpawnArgs : slots'[i] = NewTask(next_task_id, arg)
    BY <1>2 DEF IsNewTask
  <2>2. /\ slots'[i].dynamic_priority = arg.priority
        /\ slots'[i].base_priority = arg.priority /\ slots'[i].age = 0
    BY <2>1 DEF NewTask
  <2>3. arg.priority \in 0..U8Max
    BY SpawnArgsAssumption
  <2>4. QED
    BY <2>2, <2>3, NoAgeNoBonus DEF AgedRight
<1>3. QED
  BY <1>1, <1>2, StepEvolves

\* dynamic_priority is never stale, on whatever path age or state were changed.
THEOREM PriorityStaysAged == Spec => []PriorityIsAged
<1>1. AllAged => PriorityIsAged
  BY DEF AllAged, AgedRight, PriorityIsAged, Occupied
<1>2. QED
  BY <1>1, InitAged, NextAged, Invariance, PTL DEF Spec

\* No path around valid_transition moves a task along an edge it forbids, and no task is
\* ever replaced by another.
THEOREM LifecycleIsRespected == Spec => LifecycleRespected
<1>1. IInv /\ [Next]_vars =>
        [\A i \in Occupied :
           /\ slots'[i].id = slots[i].id
           /\ \/ slots'[i].state = slots[i].state
              \/ ValidTransition(slots[i].state, slots'[i].state)]_vars
  BY StepEvolves DEF Evolves, IsNewTask, Occupied
<1>2. QED
  BY <1>1, Invariance, PTL DEF Spec, LifecycleRespected

Unlimited == \A arg \in SpawnArgs : arg.max_ticks = 0

\* A budget is given at spawn and never after: where every task is spawned without one,
\* yield_current never refuses the task that has the processor.
THEOREM UnlimitedTasksYield ==
  ASSUME Unlimited PROVE Spec => []~BudgetSpent
<1> DEFINE NoBudgets == \A i \in Slot : slots[i].max_ticks = 0
<1>1. Init => NoBudgets
  BY DEF Init, EmptySlot
<1>2. IInv /\ NoBudgets /\ [Next]_vars => NoBudgets'
  <2> SUFFICES ASSUME IInv, NoBudgets, [Next]_vars, NEW i \in Slot
               PROVE  slots'[i].max_ticks = 0
    OBVIOUS
  <2>1. CASE Evolves(slots[i], slots'[i])
    BY <2>1 DEF Evolves
  <2>2. CASE IsNewTask(i)
    BY <2>2 DEF IsNewTask, NewTask, Unlimited
  <2>3. QED
    BY <2>1, <2>2, StepEvolves
<1>3. NoBudgets => ~BudgetSpent
  BY DEF BudgetSpent, CanConsumeTick, SlotsOf, Occupied
<1> HIDE DEF NoBudgets
<1>4. QED
  BY <1>1, <1>2, <1>3, Invariance, PTL DEF Spec

-----------------------------------------------------------------------------
(* Waiting and priority *)

LEMMA Quotient ==
  ASSUME NEW a \in Nat, NEW n \in Nat \ {0}
  PROVE  /\ a \div n \in Nat
         /\ n * (a \div n) <= a /\ a < n * (a \div n) + n
<1>1. a \div n \in Int /\ n * (a \div n) <= a
  OBVIOUS
<1>2. a < n * (a \div n) + n
  OBVIOUS
<1>3. a \div n >= 0
  BY <1>2
<1>4. QED
  BY <1>1, <1>2, <1>3

LEMMA QuotientsCompare ==
  ASSUME NEW n \in Nat \ {0}, NEW x \in Nat, NEW y \in Nat, n * x < n * y + n
  PROVE  x <= y
<1>1. SUFFICES ASSUME x >= y + 1 PROVE FALSE
  OBVIOUS
<1>2. n * x >= n * (y + 1)
  BY <1>1
<1>3. n * (y + 1) = n * y + n
  OBVIOUS
<1>4. n * x \in Int /\ n * y \in Int
  OBVIOUS
<1>5. QED
  BY <1>2, <1>3, <1>4

\* Below the age at which the cast wraps, the bonus grows with the age.
LEMMA AgedPriorityGrows ==
  ASSUME NEW base \in 0..U8Max, NEW young \in Nat, NEW old \in Nat,
         young <= old, old < AgeStep * (U8Max + 1)
  PROVE  AgedPriority(base, young) <= AgedPriority(base, old)
<1> DEFINE b == young \div AgeStep
           c == old \div AgeStep
<1>1. /\ b \in Nat /\ AgeStep * b <= young
      /\ c \in Nat /\ AgeStep * c <= old /\ old < AgeStep * c + AgeStep
      /\ AgeStep \in Nat \ {0} /\ U8Max \in Nat
  BY Quotient, SizesAssumption
<1> HIDE DEF b, c
<1>2. b <= c
  <2>1. AgeStep * b < AgeStep * c + AgeStep
    BY <1>1
  <2>2. QED
    BY <1>1, <2>1, QuotientsCompare
<1>3. c <= U8Max
  <2>1. AgeStep * (U8Max + 1) = AgeStep * U8Max + AgeStep
    BY <1>1
  <2>2. AgeStep * c < AgeStep * U8Max + AgeStep
    BY <1>1, <2>1
  <2>3. QED
    BY <1>1, <2>2, QuotientsCompare
<1>4. b % (U8Max + 1) = b /\ c % (U8Max + 1) = c
  BY <1>1, <1>2, <1>3
<1>5. /\ AgedPriority(base, young) = IF base + b <= U8Max THEN base + b ELSE U8Max
      /\ AgedPriority(base, old) = IF base + c <= U8Max THEN base + c ELSE U8Max
  BY <1>4 DEF AgedPriority, b, c
<1>6. QED
  BY <1>1, <1>2, <1>5

\* The longest wait ends before the cast wraps.  The code's numbers are 542 and 1024.
NoWrap == WaitBound < AgeStep * (U8Max + 1)

\* In cooperative use no round of waiting lowers a task's dynamic_priority.
THEOREM WaitingKeepsPriority ==
  ASSUME NoWrap PROVE CoopSpec => AgingNeverLowersPriority
<1> DEFINE Kept == \A i \in Occupied :
                     slots'[i].age > slots[i].age =>
                       slots'[i].dynamic_priority >= slots[i].dynamic_priority
<1>1. /\ IInv /\ IInv' /\ AllAged /\ AllAged' /\ WaitBounded'
      /\ [CoopNext]_vars
      => [Kept]_vars
  <2> SUFFICES ASSUME IInv, IInv', AllAged, AllAged', WaitBounded', [CoopNext]_vars,
                      NEW i \in Occupied, slots'[i].age > slots[i].age
               PROVE  slots'[i].dynamic_priority >= slots[i].dynamic_priority
    OBVIOUS
  <2>1. i \in Slot /\ slots[i] \in TaskControlBlock /\ slots'[i] \in TaskControlBlock
    BY DEF Occupied, IInv, TypeOK
  <2>2. slots'[i].base_priority = slots[i].base_priority
    BY <2>1, StepEvolves DEF Next, Evolves, IsNewTask
  <2>3. /\ slots[i].age \in Nat /\ slots'[i].age \in Nat
        /\ slots[i].base_priority \in 0..U8Max
    BY <2>1, SizesAssumption DEF TaskControlBlock
  <2>4. slots'[i].age < AgeStep * (U8Max + 1)
    BY <2>1, <2>3, WaitBoundType, SizesAssumption DEF NoWrap, WaitBounded
  <2>5. /\ slots[i].dynamic_priority
             = AgedPriority(slots[i].base_priority, slots[i].age)
        /\ slots'[i].dynamic_priority
             = AgedPriority(slots[i].base_priority, slots'[i].age)
    BY <2>1, <2>2 DEF AllAged, AgedRight
  <2>6. AgedPriority(slots[i].base_priority, slots[i].age)
          <= AgedPriority(slots[i].base_priority, slots'[i].age)
    BY <2>3, <2>4, AgedPriorityGrows
  <2>7. slots[i].dynamic_priority \in Nat /\ slots'[i].dynamic_priority \in Nat
    BY <2>1, SizesAssumption DEF TaskControlBlock
  <2>8. QED
    BY <2>5, <2>6, <2>7
<1>2. IInv /\ AllAged /\ [CoopNext]_vars => AllAged'
  BY NextAged DEF Next
<1>3. QED
  BY <1>1, <1>2, InitAged, CoopStepsAreSteps, NobodyStarves, PTL
  DEF CoopSpec, AgingNeverLowersPriority

-----------------------------------------------------------------------------
(* Budgets: what a task was charged is what it was selected for *)

Paid(task) == task.max_ticks - task.remaining_ticks

Balanced(task) ==
  /\ task.state \in {"Ready", "Running", "Zombie"}
  /\ task.max_ticks # 0 =>
       /\ task.state = "Ready" => task.context_switches = Paid(task)
       /\ task.state = "Running" => task.context_switches = Paid(task) + 1
       /\ task.state = "Zombie" => task.context_switches \in {Paid(task), Paid(task) + 1}

Ledger(queue) == \A i \in Slot : queue[i].id # NoTask => Balanced(queue[i])

\* Every selection starts from a queue in which nobody runs.
NobodyRuns(queue) == \A i \in Slot : queue[i].id # NoTask => queue[i].state # "Running"

LEMMA SelectedBalanced ==
  ASSUME NEW task \in TaskControlBlock, Balanced(task), task.state = "Ready"
  PROVE  Balanced(Selected(task))
<1>1. /\ Selected(task).state = "Running"
      /\ Selected(task).max_ticks = task.max_ticks
      /\ Selected(task).remaining_ticks = task.remaining_ticks
      /\ Selected(task).context_switches = task.context_switches + 1
  BY DEF Selected, TaskControlBlock
<1>2. Paid(Selected(task)) = Paid(task)
  BY <1>1 DEF Paid
<1>3. QED
  BY <1>1, <1>2 DEF Balanced

LEMMA AgedBalanced ==
  ASSUME NEW task \in TaskControlBlock, Balanced(task)
  PROVE  Balanced(Aged(task))
<1>1. /\ Aged(task).state = task.state
      /\ Aged(task).max_ticks = task.max_ticks
      /\ Aged(task).remaining_ticks = task.remaining_ticks
      /\ Aged(task).context_switches = task.context_switches
  BY DEF Aged, TaskControlBlock
<1>2. Paid(Aged(task)) = Paid(task)
  BY <1>1 DEF Paid
<1>3. QED
  BY <1>1, <1>2 DEF Balanced

LEMMA DispatchBalances ==
  ASSUME NEW queue \in [Slot -> TaskControlBlock], UniqueIds(queue),
         Ledger(queue), NobodyRuns(queue), Dispatch(queue)
  PROVE  Ledger(slots')
<1>1. CASE slots' = queue
  BY <1>1
<1>2. ASSUME NEW b \in Slot, queue[b].id # NoTask, IsRunnable(queue[b]),
             slots' = Elect(queue, b)
      PROVE  Ledger(slots')
  <2> SUFFICES ASSUME NEW i \in Slot, slots'[i].id # NoTask
               PROVE  Balanced(slots'[i])
    BY DEF Ledger
  <2>1. slots'[i].id = queue[i].id
    BY <1>2, IdAndSwitches DEF Elect
  <2>2. queue[i] \in TaskControlBlock /\ Balanced(queue[i]) /\ queue[i].state # "Running"
    BY <2>1 DEF Ledger, NobodyRuns
  <2>3. CASE i = b
    <3>1. queue[i].state = "Ready" /\ slots'[i] = Selected(queue[i])
      BY <1>2, <2>2, <2>3 DEF IsRunnable, Elect
    <3>2. QED
      BY <2>2, <3>1, SelectedBalanced
  <2>4. CASE i # b
    <3>1. slots'[i] = PassedOver(queue[i])
      BY <1>2, <2>4 DEF Elect
    <3>2. PassedOver(queue[i]) \in {queue[i], Aged(queue[i])}
      BY <2>2 DEF PassedOver
    <3>3. QED
      BY <2>2, <3>1, <3>2, AgedBalanced
  <2>5. QED
    BY <2>3, <2>4
<1>3. QED
  BY <1>1, <1>2, DispatchElects

LEMMA YieldBalances ==
  ASSUME NEW task \in TaskControlBlock, Balanced(task), task.state = "Running",
         CanConsumeTick(task)
  PROVE  Balanced(Yielded(task)) /\ Yielded(task).state = "Ready"
<1>1. /\ Yielded(task).state = "Ready"
      /\ Yielded(task).max_ticks = task.max_ticks
      /\ task.max_ticks # 0 => Yielded(task).remaining_ticks = task.remaining_ticks - 1
      /\ Yielded(task).context_switches = task.context_switches
  BY DEF Yielded, TaskControlBlock
<1>2. task.max_ticks \in Int /\ task.remaining_ticks \in Int
  BY SizesAssumption DEF TaskControlBlock
<1>3. task.max_ticks # 0 => Paid(Yielded(task)) = Paid(task) + 1
  BY <1>1, <1>2 DEF Paid
<1>4. QED
  BY <1>1, <1>3 DEF Balanced

LEMMA FacadeBalances ==
  ASSUME IInv, OnlyCurrentRuns, Ledger(slots), [FacadeNext]_vars, tick < U64Max
  PROVE  Ledger(slots)'
<1> USE DEF IInv
<1>0. slots \in [Slot -> TaskControlBlock] /\ UniqueIds(slots)
  BY IdsUnique DEF TypeOK
<1>1. ASSUME NEW arg \in SpawnArgs, SpawnInserted(arg)
      PROVE  Ledger(slots)'
  <2>1. PICK k \in Slot : slots' = [slots EXCEPT ![k] = NewTask(next_task_id, arg)]
    BY <1>1 DEF SpawnInserted
  <2>2. Balanced(NewTask(next_task_id, arg))
    <3>1. arg.max_ticks \in Int
      BY SpawnArgsAssumption, SizesAssumption
    <3>2. QED
      BY <3>1 DEF NewTask, Balanced, Paid
  <2>3. QED
    BY <1>0, <2>1, <2>2 DEF Ledger
<1>2. CASE YieldIdle
  <2>1. NobodyRuns(slots)
    BY <1>2 DEF YieldIdle, OnlyCurrentRuns, NobodyRuns, Occupied
  <2>2. QED
    BY <1>0, <1>2, <2>1, DispatchBalances DEF YieldIdle, ScheduleNext
<1>3. CASE YieldCurrent
  <2>1. PICK k \in SlotsOf(current_task) :
          CanConsumeTick(slots[k]) /\ Dispatch([slots EXCEPT ![k] = Yielded(slots[k])])
    BY <1>3 DEF YieldCurrent
  <2> DEFINE queue == [slots EXCEPT ![k] = Yielded(slots[k])]
  <2>2. /\ queue \in [Slot -> TaskControlBlock]
        /\ \A j \in Slot : queue[j].id = slots[j].id
    BY <2>1, YieldedQueue
  <2>3. /\ k \in Slot /\ slots[k].id = current_task /\ current_task # NoTask
        /\ \A j \in Slot : slots[j].id = current_task => j = k
    BY <2>1, SlotOfId DEF SlotsOf, Occupied
  <2>4. slots[k].state = "Running"
    BY <2>3 DEF CurrentRuns, SlotsOf, Occupied, TypeOK
  <2>5. Balanced(Yielded(slots[k])) /\ Yielded(slots[k]).state = "Ready"
    BY <1>0, <2>1, <2>3, <2>4, YieldBalances DEF Ledger
  <2>6. /\ queue[k] = Yielded(slots[k])
        /\ \A j \in Slot : j # k => queue[j] = slots[j]
    BY <1>0, <2>3
  <2>7. Dispatch(queue)
    BY <2>1
  <2> HIDE DEF queue
  <2>8. Ledger(queue)
    BY <2>2, <2>5, <2>6 DEF Ledger
  <2>9. NobodyRuns(queue)
    BY <2>3, <2>5, <2>6 DEF NobodyRuns, OnlyCurrentRuns, Occupied
  <2>10. UniqueIds(queue)
    BY <1>0, <2>2 DEF UniqueIds
  <2>11. QED
    BY <2>2, <2>7, <2>8, <2>9, <2>10, DispatchBalances
<1>4. ASSUME NEW id \in QueuedIds, Cancel(id)
      PROVE  Ledger(slots)'
  <2>1. PICK k \in SlotsOf(id) : /\ slots[k].state # "Zombie"
                                 /\ slots' = [slots EXCEPT ![k].state = "Zombie"]
    BY <1>4 DEF Cancel
  <2>2. k \in Slot /\ slots[k] \in TaskControlBlock
    BY <1>0, <2>1, SlotOfId
  <2>3. /\ slots'[k].id = slots[k].id /\ slots'[k].state = "Zombie"
        /\ slots'[k].max_ticks = slots[k].max_ticks
        /\ slots'[k].remaining_ticks = slots[k].remaining_ticks
        /\ slots'[k].context_switches = slots[k].context_switches
        /\ \A j \in Slot : j # k => slots'[j] = slots[j]
    BY <1>0, <2>1, <2>2 DEF TaskControlBlock
  <2>4. Balanced(slots[k]) => Balanced(slots'[k])
    BY <2>1, <2>3 DEF Balanced, Paid
  <2>5. QED
    BY <2>3, <2>4 DEF Ledger
<1>5. CASE SpawnRejected \/ UNCHANGED vars
  BY <1>5 DEF SpawnRejected, vars
<1>6. CASE YieldAtLastTick
  BY <1>6, SizesAssumption DEF YieldAtLastTick
<1>7. QED
  BY <1>1, <1>2, <1>3, <1>4, <1>5, <1>6 DEF FacadeNext

LEMMA TickGrows ==
  ASSUME IInv, [FacadeNext]_vars, tick' < U64Max
  PROVE  tick < U64Max
<1>1. tick \in Nat /\ U64Max \in Nat
  BY SizesAssumption DEF IInv, TypeOK
<1>2. tick' \in {tick, tick + 1}
  BY DEF FacadeNext, SpawnInserted, SpawnRejected, YieldIdle, ScheduleNext, YieldCurrent,
         YieldAtLastTick, Cancel, Dispatch, vars
<1>3. QED
  BY <1>1, <1>2

\* A bounded budget is neither overdrawn nor charged for a turn the task did not have.
THEOREM BudgetsBalance == FacadeSpec => []BudgetAccounts
<1> DEFINE Inv == tick < U64Max => Ledger(slots)
<1>1. Init => Inv
  BY DEF Init, EmptySlot, Ledger
<1>2. IInv /\ OnlyCurrentRuns /\ Inv /\ [FacadeNext]_vars => Inv'
  BY FacadeBalances, TickGrows
<1>3. IInv /\ Inv => BudgetAccounts
  BY DEF Ledger, Balanced, Paid, BudgetAccounts, Occupied
<1>4. FacadeSpec => CoopSpec
  BY PTL DEF FacadeSpec, CoopSpec, CoopNext
<1>5. QED
  BY <1>1, <1>2, <1>3, <1>4, CoopStepsAreSteps, OneTaskRuns, PTL DEF FacadeSpec

-----------------------------------------------------------------------------
(* Who enters and leaves the queue in one step *)

\* The tasks that a step ends.
EndedIds ==
  {slots[i].id : i \in {j \in Slot : /\ slots[j].id # NoTask
                                    /\ slots[j].state # "Zombie" /\ slots'[j].state = "Zombie"}}

\* Scheduling and yielding leave everyone in the queue and end nobody.
LEMMA SelectionKeepsQueue ==
  ASSUME IInv, ScheduleNext \/ YieldCurrent \/ YieldAtLastTick
  PROVE  QueuedIds' = QueuedIds /\ EndedIds = {}
<1>1. \A i \in Slot : slots'[i].id = slots[i].id /\ StateMoves(slots[i].state, slots'[i].state)
  BY SelectionDispatches DEF Dispatched
<1>2. QueuedIds' = QueuedIds
  BY <1>1 DEF QueuedIds, Occupied
<1>3. EndedIds = {}
  BY <1>1 DEF EndedIds, StateMoves
<1>4. QED
  BY <1>2, <1>3

\* cancel ends the task it names and no other, and nobody leaves the queue.
LEMMA CancelEndsOne ==
  ASSUME IInv, NEW id, Cancel(id)
  PROVE  QueuedIds' = QueuedIds /\ EndedIds = {id} /\ id \in QueuedIds
<1>1. PICK k \in SlotsOf(id) : /\ slots[k].state # "Zombie"
                               /\ slots' = [slots EXCEPT ![k].state = "Zombie"]
  BY DEF Cancel
<1>2. k \in Slot /\ k \in Occupied /\ slots[k].id = id /\ id # NoTask
  BY SlotOfId DEF IInv, SlotsOf
<1>3. slots \in [Slot -> TaskControlBlock] /\ slots[k] \in TaskControlBlock
  BY <1>2 DEF IInv, TypeOK
<1>4. \A i \in Slot \ {k} : slots'[i] = slots[i]
  BY <1>1, <1>2, <1>3
<1>5. slots'[k].id = id /\ slots'[k].state = "Zombie"
  <2>1. slots'[k] = [slots[k] EXCEPT !.state = "Zombie"]
    BY <1>1, <1>2, <1>3
  <2>2. QED
    BY <1>2, <1>3, <2>1 DEF TaskControlBlock
<1>6. QueuedIds' = QueuedIds
  BY <1>2, <1>4, <1>5 DEF QueuedIds, Occupied
<1>7. EndedIds = {id}
  BY <1>1, <1>2, <1>4, <1>5 DEF EndedIds
<1>8. QED
  BY <1>2, <1>6, <1>7 DEF QueuedIds

\* spawn adds one task, under an id that nobody in the queue has.
LEMMA SpawnAddsOne ==
  ASSUME IInv, NEW arg, SpawnInserted(arg)
  PROVE  /\ QueuedIds' = QueuedIds \cup {next_task_id} /\ next_task_id \notin QueuedIds
         /\ EndedIds = {}
<1>1. PICK k \in Slot : IsFirstFree(k) /\ slots' = [slots EXCEPT ![k] = NewTask(next_task_id, arg)]
  BY DEF SpawnInserted
<1>2. slots[k].id = NoTask
  BY <1>1 DEF IsFirstFree, Occupied
<1>3. /\ slots \in [Slot -> TaskControlBlock]
      /\ next_task_id \in 1..U64Max
  BY DEF IInv, TypeOK
<1>4. \A i \in Slot \ {k} : slots'[i] = slots[i]
  BY <1>1, <1>3
<1>5. slots'[k].id = next_task_id
  BY <1>1, <1>3 DEF NewTask
<1>6. next_task_id # NoTask
  BY <1>3, SizesAssumption DEF NoTask
<1>7. QueuedIds' = QueuedIds \cup {next_task_id}
  BY <1>2, <1>4, <1>5, <1>6 DEF QueuedIds, Occupied
<1>8. \A i \in Occupied : slots[i].id # next_task_id
  BY <1>3, SizesAssumption DEF IInv, QueueCoherent, TypeOK, TaskControlBlock, Occupied
<1>9. next_task_id \notin QueuedIds
  BY <1>8 DEF QueuedIds
<1>10. EndedIds = {}
  BY <1>2, <1>4 DEF EndedIds
<1>11. QED
  BY <1>7, <1>9, <1>10
==============================================================================
