------------------------ MODULE MemoryManagerProofs ------------------------
(***************************************************************************)
(* Proofs about the table of shared ranges, for any number of slots and    *)
(* any permission bits, and about the check of a user range.  The two are  *)
(* independent: the first invariant is about shared_regions and            *)
(* next_shared_id only, the second about the limits only.                  *)
(***************************************************************************)
EXTENDS MemoryManager, TLAPS

TableType ==
  /\ shared_regions \in [Slot -> SharedRegion]
  /\ next_shared_id \in 1..U64Max

IInv == TableType /\ IdsNameSlots /\ SealIsCoherent

-----------------------------------------------------------------------------

\* What issuing and sealing write into a slot.
Fresh(owner_task, start, len, permissions) ==
  [id |-> next_shared_id, owner_task |-> owner_task, permissions |-> permissions,
   start |-> start, len |-> len, sealed |-> FALSE]

LEMMA SealedType ==
  ASSUME NEW region \in SharedRegion
  PROVE  /\ Sealed(region) \in SharedRegion
         /\ Sealed(region).id = region.id
         /\ Sealed(region).owner_task = region.owner_task
         /\ Sealed(region).start = region.start
         /\ Sealed(region).len = region.len
         /\ Sealed(region).sealed = TRUE
         /\ Sealed(region).permissions = (region.permissions \ {"WRITE"}) \cup {"SEALED"}
  <1>1. "SEALED" \in Permission
    BY ManagerAssumption
  <1> QED BY <1>1 DEF Sealed, SharedRegion

\* Sealing a region that is sealed already changes nothing.
LEMMA SealedAgain ==
  ASSUME NEW region \in SharedRegion, region.sealed,
         "SEALED" \in region.permissions, "WRITE" \notin region.permissions
  PROVE  Sealed(region) = region
  <1>1. (region.permissions \ {"WRITE"}) \cup {"SEALED"} = region.permissions
    OBVIOUS
  <1>2. region.sealed = TRUE
    BY DEF SharedRegion
  <1> QED BY <1>1, <1>2 DEF Sealed, SharedRegion

\* A found slot holds the region of that id, and no free one is found.
LEMMA FoundSlot ==
  ASSUME NEW id \in Address, NEW i \in Finds(id)
  PROVE  i \in Slot /\ shared_regions[i].id = id /\ id # NoRegion
  BY DEF Finds

\* The first free slot is the one the next id names.
LEMMA FirstFreeIsNext ==
  ASSUME IInv, NEW i, IsFirstFree(i)
  PROVE  i \in Slot /\ i = next_shared_id
  <1> USE DEF Slot, NoRegion
  <1>1. /\ i \in Slot /\ shared_regions[i].id = NoRegion
        /\ \A j \in Slot : shared_regions[j].id = NoRegion => i <= j
    BY DEF IsFirstFree, IsFree
  <1>2. /\ MaxShared \in Nat /\ next_shared_id \in 1..(MaxShared + 1)
        /\ \A j \in Slot : shared_regions[j].id = IF j < next_shared_id THEN j ELSE NoRegion
    BY ManagerAssumption DEF IInv, IdsNameSlots
  <1>3. next_shared_id <= i
    BY <1>1, <1>2
  <1>4. next_shared_id \in Slot
    BY <1>1, <1>2, <1>3
  <1>5. i <= next_shared_id
    BY <1>1, <1>2, <1>4
  <1> QED BY <1>1, <1>2, <1>3, <1>5

\* What share_region does: the slot of the next id gets a region that is not sealed.
LEMMA ShareWrites ==
  ASSUME IInv, NEW owner_task \in Task, NEW range \in CallerRange,
         NEW permissions \in SUBSET Permission,
         ShareRegion(owner_task, range.start, range.len, permissions)
  PROVE  LET n == next_shared_id
             region == Fresh(owner_task, range.start, range.len, permissions)
         IN  /\ n \in Slot /\ next_shared_id' = n + 1 /\ n < U64Max
             /\ shared_regions[n].id = NoRegion
             /\ shared_regions' = [shared_regions EXCEPT ![n] = region]
             /\ region \in SharedRegion
             /\ "SEALED" \notin permissions
  <1> DEFINE n == next_shared_id
             region == Fresh(owner_task, range.start, range.len, permissions)
  <1>1. PICK i \in Slot : /\ IsFirstFree(i)
                          /\ shared_regions' = [shared_regions EXCEPT ![i] = region]
    BY DEF ShareRegion, Fresh
  <1>2. i = n
    BY <1>1, FirstFreeIsNext
  <1>3. shared_regions[n].id = NoRegion
    BY <1>1, <1>2 DEF IsFirstFree, IsFree
  <1>4. "SEALED" \notin permissions /\ n # U64Max
    BY DEF ShareRegion, ShareResult
  <1>5. n \in 1..U64Max /\ U64Max \in Nat
    BY ManagerAssumption DEF IInv, TableType
  <1>6. range.start \in Address /\ range.len \in Address
    BY ManagerAssumption DEF Address
  <1>7. region \in SharedRegion
    BY <1>5, <1>6 DEF Fresh, SharedRegion, Address
  <1>8. next_shared_id' = n + 1
    BY DEF ShareRegion
  <1> QED BY <1>1, <1>2, <1>3, <1>4, <1>5, <1>7, <1>8

\* What seal_shared_region does: the region of that id is sealed.
LEMMA SealWrites ==
  ASSUME IInv, NEW id \in Address, SealSharedRegion(id)
  PROVE  \E i \in Slot : /\ shared_regions[i].id = id /\ id # NoRegion
                         /\ shared_regions' =
                              [shared_regions EXCEPT ![i] = Sealed(shared_regions[i])]
                         /\ next_shared_id' = next_shared_id
  BY FoundSlot DEF SealSharedRegion

\* What the caller of share_region finds: its region, under the id that was next.
LEMMA ShareNames ==
  ASSUME IInv, NEW owner_task \in Task, NEW range \in CallerRange,
         NEW permissions \in SUBSET Permission,
         ShareRegion(owner_task, range.start, range.len, permissions)
  PROVE  /\ next_shared_id \in Slot
         /\ shared_regions[next_shared_id].id = NoRegion
         /\ shared_regions'[next_shared_id].id = next_shared_id
         /\ shared_regions'[next_shared_id].owner_task = owner_task
  <1> DEFINE n == next_shared_id
             region == Fresh(owner_task, range.start, range.len, permissions)
  <1>1. /\ n \in Slot /\ shared_regions[n].id = NoRegion
        /\ shared_regions' = [shared_regions EXCEPT ![n] = region]
    BY ShareWrites
  <1>2. shared_regions \in [Slot -> SharedRegion]
    BY DEF IInv, TableType
  <1>3. region.id = n /\ region.owner_task = owner_task
    BY DEF Fresh
  <1> HIDE DEF region
  <1>4. shared_regions'[n] = region
    BY <1>1, <1>2
  <1> QED BY <1>1, <1>3, <1>4

\* ... and of seal_shared_region: the region of that id is sealed.
LEMMA SealNames ==
  ASSUME IInv, NEW id \in Address, SealSharedRegion(id)
  PROVE  \E i \in Slot : shared_regions'[i].id = id /\ shared_regions'[i].sealed
  <1>1. PICK k \in Slot :
          /\ shared_regions[k].id = id
          /\ shared_regions' = [shared_regions EXCEPT ![k] = Sealed(shared_regions[k])]
    BY SealWrites
  <1>2. /\ shared_regions \in [Slot -> SharedRegion]
        /\ shared_regions[k] \in SharedRegion
    BY DEF IInv, TableType
  <1>3. /\ Sealed(shared_regions[k]).id = shared_regions[k].id
        /\ Sealed(shared_regions[k]).sealed
    BY <1>2, SealedType
  <1>4. shared_regions'[k] = Sealed(shared_regions[k])
    BY <1>1, <1>2
  <1> QED BY <1>1, <1>3, <1>4

-----------------------------------------------------------------------------
(* The invariant *)

LEMMA InitIInv == Init => IInv
  <1> SUFFICES ASSUME Init PROVE IInv
    OBVIOUS
  <1>1. (CHOOSE t \in Task : TRUE) \in Task
    BY ManagerAssumption
  <1>2. MaxShared \in Nat \ {0} /\ U64Max \in Nat /\ MaxShared < U64Max
    BY ManagerAssumption
  <1>3. EmptyRegion \in SharedRegion /\ EmptyRegion.id = NoRegion
    BY <1>1, <1>2 DEF EmptyRegion, SharedRegion, NoRegion, Address
  <1>4. /\ \A i \in Slot : shared_regions[i] = EmptyRegion
        /\ shared_regions \in [Slot -> SharedRegion] /\ next_shared_id = 1
    BY <1>3 DEF Init
  <1>5. TableType
    BY <1>2, <1>4 DEF TableType
  <1>6. IdsNameSlots
    BY <1>2, <1>3, <1>4 DEF IdsNameSlots, Slot
  <1>7. SealIsCoherent
    BY <1>3, <1>4 DEF SealIsCoherent
  <1> QED BY <1>5, <1>6, <1>7 DEF IInv

LEMMA ShareStep ==
  ASSUME IInv, NEW owner_task \in Task, NEW range \in CallerRange,
         NEW permissions \in SUBSET Permission,
         ShareRegion(owner_task, range.start, range.len, permissions)
  PROVE  IInv'
  <1> DEFINE n == next_shared_id
             region == Fresh(owner_task, range.start, range.len, permissions)
  <1>1. /\ n \in Slot /\ next_shared_id' = n + 1 /\ n < U64Max
        /\ shared_regions' = [shared_regions EXCEPT ![n] = region]
        /\ region \in SharedRegion /\ "SEALED" \notin permissions
    BY ShareWrites
  <1>2. /\ shared_regions \in [Slot -> SharedRegion] /\ n \in 1..U64Max
        /\ n \in 1..(MaxShared + 1)
        /\ \A i \in Slot : shared_regions[i].id = IF i < n THEN i ELSE NoRegion
    BY DEF IInv, TableType, IdsNameSlots
  <1>3. MaxShared \in Nat /\ U64Max \in Nat
    BY ManagerAssumption
  <1>4. /\ region.id = n /\ region.sealed = FALSE /\ region.permissions = permissions
    BY DEF Fresh
  <1> HIDE DEF region
  <1>5. /\ shared_regions'[n] = region
        /\ \A i \in Slot : i # n => shared_regions'[i] = shared_regions[i]
    BY <1>1, <1>2
  <1>6. TableType'
    BY <1>1, <1>2, <1>3 DEF TableType
  <1>7. IdsNameSlots'
    <2>1. next_shared_id' \in 1..(MaxShared + 1)
      BY <1>1, <1>3 DEF Slot
    <2>2. ASSUME NEW i \in Slot
          PROVE  shared_regions'[i].id = IF i < n + 1 THEN i ELSE NoRegion
      BY <1>1, <1>2, <1>3, <1>4, <1>5 DEF Slot
    <2> QED BY <1>1, <2>1, <2>2 DEF IdsNameSlots
  <1>8. SealIsCoherent'
    BY <1>1, <1>4, <1>5 DEF IInv, SealIsCoherent
  <1> QED BY <1>6, <1>7, <1>8 DEF IInv

LEMMA SealStep ==
  ASSUME IInv, NEW id \in Address, SealSharedRegion(id)
  PROVE  IInv'
  <1>1. PICK k \in Slot :
          /\ shared_regions' = [shared_regions EXCEPT ![k] = Sealed(shared_regions[k])]
          /\ next_shared_id' = next_shared_id
    BY SealWrites
  <1>2. shared_regions \in [Slot -> SharedRegion] /\ shared_regions[k] \in SharedRegion
    BY DEF IInv, TableType
  <1>3. /\ Sealed(shared_regions[k]) \in SharedRegion
        /\ Sealed(shared_regions[k]).id = shared_regions[k].id
        /\ Sealed(shared_regions[k]).sealed = TRUE
        /\ "SEALED" \in Sealed(shared_regions[k]).permissions
        /\ "WRITE" \notin Sealed(shared_regions[k]).permissions
    <2> DEFINE region == shared_regions[k]
    <2>1. region \in SharedRegion
      BY <1>2
    <2> HIDE DEF region
    <2>2. /\ Sealed(region) \in SharedRegion
          /\ Sealed(region).id = region.id
          /\ Sealed(region).sealed = TRUE
          /\ Sealed(region).permissions =
               (region.permissions \ {"WRITE"}) \cup {"SEALED"}
      BY <2>1, SealedType
    <2>3. /\ "SEALED" \in Sealed(region).permissions
          /\ "WRITE" \notin Sealed(region).permissions
      BY <2>2
    <2> QED BY <2>2, <2>3 DEF region
  <1>4. /\ shared_regions'[k] = Sealed(shared_regions[k])
        /\ \A i \in Slot : i # k => shared_regions'[i] = shared_regions[i]
        /\ shared_regions' \in [Slot -> SharedRegion]
    BY <1>1, <1>2, <1>3
  <1>5. TableType'
    BY <1>1, <1>4 DEF IInv, TableType
  <1>6. \A i \in Slot : shared_regions'[i].id = shared_regions[i].id
    BY <1>3, <1>4
  <1>7. IdsNameSlots'
    BY <1>1, <1>6 DEF IInv, IdsNameSlots
  <1>8. SealIsCoherent'
    BY <1>3, <1>4 DEF IInv, SealIsCoherent
  <1> QED BY <1>5, <1>7, <1>8 DEF IInv

\* Steps that leave the table alone.
LEMMA QuietStep ==
  ASSUME IInv, UNCHANGED <<shared_regions, next_shared_id>>
  PROVE  IInv'
  BY DEF IInv, TableType, IdsNameSlots, SealIsCoherent

LEMMA NextIInv == IInv /\ [Next]_vars => IInv'
  <1> SUFFICES ASSUME IInv, [Next]_vars PROVE IInv'
    OBVIOUS
  <1>1. CASE UNCHANGED vars
    BY <1>1, QuietStep DEF vars
  <1>2. CASE \E phase \in Phase : SetAllocatorPhase(phase)
    BY <1>2, QuietStep DEF SetAllocatorPhase
  <1>3. CASE \E lower, upper \in HostValue : SetUserBounds(lower, upper)
    BY <1>3, QuietStep DEF SetUserBounds
  <1>4. CASE \E max_len \in HostValue : SetMaxUserBufferLen(max_len)
    BY <1>4, QuietStep DEF SetMaxUserBufferLen
  <1>5. CASE \E n \in HostValue : SetMinimumUserAlignment(n)
    BY <1>5, QuietStep DEF SetMinimumUserAlignment
  <1>6. CASE \E owner_task \in Task, range \in CallerRange,
                permissions \in SUBSET Permission :
               ShareRegion(owner_task, range.start, range.len, permissions)
    BY <1>6, ShareStep
  <1>7. CASE \E id \in Address : SealSharedRegion(id)
    BY <1>7, SealStep
  <1> QED BY <1>1, <1>2, <1>3, <1>4, <1>5, <1>6, <1>7 DEF Next

THEOREM Invariance == Spec => []IInv
  BY InitIInv, NextIInv, PTL DEF Spec

-----------------------------------------------------------------------------

\* share_region and seal_shared_region keep an id the name of one slot: no id is
\* given twice and the id counter never overflows.
THEOREM SharesAreNamedOnce == Spec => []IdsNameSlots
  BY Invariance, PTL DEF IInv

\* The flag, the SEALED bit and the missing WRITE bit of a sealed region agree.
THEOREM SealsAgree == Spec => []SealIsCoherent
  BY Invariance, PTL DEF IInv

\* What SealIsPermanent asks of a slot.
Permanent(old, new) ==
  /\ old.sealed => new = old
  /\ new.id = old.id /\ new.owner_task = old.owner_task
  /\ new.start = old.start /\ new.len = old.len
  /\ new.permissions \subseteq old.permissions \cup {"SEALED"}

LEMMA NextPermanent ==
  ASSUME IInv, [Next]_vars, NEW i \in Slot, shared_regions[i].id # NoRegion
  PROVE  Permanent(shared_regions[i], shared_regions'[i])
  <1> USE DEF Permanent
  <1>1. /\ shared_regions \in [Slot -> SharedRegion]
        /\ shared_regions[i] \in SharedRegion
    BY DEF IInv, TableType
  <1>2. CASE shared_regions' = shared_regions
    BY <1>2
  <1>3. CASE \E owner_task \in Task, range \in CallerRange,
                permissions \in SUBSET Permission :
               ShareRegion(owner_task, range.start, range.len, permissions)
    <2>1. PICK owner_task \in Task, range \in CallerRange,
               permissions \in SUBSET Permission :
                 ShareRegion(owner_task, range.start, range.len, permissions)
      BY <1>3
    <2> DEFINE region == Fresh(owner_task, range.start, range.len, permissions)
    <2>2. /\ shared_regions[next_shared_id].id = NoRegion
          /\ shared_regions' = [shared_regions EXCEPT ![next_shared_id] = region]
      BY <2>1, ShareWrites
    <2> HIDE DEF region
    <2>3. shared_regions'[i] = shared_regions[i]
      BY <1>1, <2>2
    <2> QED BY <2>3
  <1>4. CASE \E id \in Address : SealSharedRegion(id)
    <2>1. PICK k \in Slot :
            shared_regions' = [shared_regions EXCEPT ![k] = Sealed(shared_regions[k])]
      BY <1>4, SealWrites
    <2>2. CASE k # i
      <3>1. shared_regions'[i] = shared_regions[i]
        BY <1>1, <2>1, <2>2
      <3> QED BY <3>1
    <2>3. CASE k = i
      <3> DEFINE region == shared_regions[i]
      <3>1. region \in SharedRegion /\ shared_regions'[i] = Sealed(region)
        BY <1>1, <2>1, <2>3
      <3>2. region.sealed => "SEALED" \in region.permissions
                              /\ "WRITE" \notin region.permissions
        BY DEF IInv, SealIsCoherent
      <3> HIDE DEF region
      <3>3. region.sealed => Sealed(region) = region
        BY <3>1, <3>2, SealedAgain
      <3>4. /\ Sealed(region).id = region.id
            /\ Sealed(region).owner_task = region.owner_task
            /\ Sealed(region).start = region.start
            /\ Sealed(region).len = region.len
            /\ Sealed(region).permissions =
                 (region.permissions \ {"WRITE"}) \cup {"SEALED"}
        BY <3>1, SealedType
      <3>5. Permanent(region, Sealed(region))
        BY <3>3, <3>4
      <3> QED BY <3>1, <3>5 DEF region
    <2> QED BY <2>2, <2>3
  <1> QED BY <1>2, <1>3, <1>4
          DEF Next, vars, SetAllocatorPhase, SetUserBounds, SetMaxUserBufferLen,
              SetMinimumUserAlignment

\* Writes to a sealed region stay disabled, and no region ever gains WRITE.
THEOREM SealsArePermanent == Spec => SealIsPermanent
  <1>1. IInv /\ [Next]_vars =>
          [\A i \in Slot : shared_regions[i].id # NoRegion =>
             /\ shared_regions[i].sealed => shared_regions'[i] = shared_regions[i]
             /\ shared_regions'[i].id = shared_regions[i].id
             /\ shared_regions'[i].owner_task = shared_regions[i].owner_task
             /\ shared_regions'[i].start = shared_regions[i].start
             /\ shared_regions'[i].len = shared_regions[i].len
             /\ shared_regions'[i].permissions
                  \subseteq shared_regions[i].permissions \cup {"SEALED"}]_vars
    BY NextPermanent DEF Permanent
  <1> QED BY <1>1, Invariance, PTL DEF Spec, SealIsPermanent

-----------------------------------------------------------------------------
(* The limits, and the check of a user range against them *)

(***************************************************************************)
(* What the set_ methods keep true whatever the host passes to them.  That *)
(* no alignment is zero is stated apart: alignment - 1 is used as a mask.  *)
(***************************************************************************)
Limits ==
  /\ allocator_phase \in Phase
  /\ bounds \in [lower : 1..U64Max, upper : 1..U64Max, max_len : 1..U64Max]
  /\ bounds.lower < bounds.upper
  /\ alignment \in PowerOfTwo /\ alignment # 0

LEMMA InitLimits == Init => Limits
  <1> SUFFICES ASSUME Init PROVE Limits
    OBVIOUS
  <1>1. U64Max >= 1 /\ U64Max \in Nat
    BY ManagerAssumption
  <1>2. 1 \in PowerOfTwo
    <2>1. 2^0 = 1 /\ 0 \in 0..U64Max /\ 1 \in Address
      BY <1>1 DEF Address
    <2> QED BY <2>1 DEF PowerOfTwo
  <1>3. /\ bounds \in [lower : 1..U64Max, upper : 1..U64Max, max_len : 1..U64Max]
        /\ bounds.lower < bounds.upper
    BY ManagerAssumption DEF Init
  <1> QED BY <1>2, <1>3 DEF Init, Limits, Phase

LEMMA NextLimits == Limits /\ [Next]_vars => Limits'
  <1> SUFFICES ASSUME Limits, [Next]_vars PROVE Limits'
    OBVIOUS
  <1>1. CASE UNCHANGED <<allocator_phase, bounds, alignment>>
    BY <1>1 DEF Limits
  <1>2. ASSUME NEW phase \in Phase, SetAllocatorPhase(phase) PROVE Limits'
    BY <1>2 DEF SetAllocatorPhase, Limits
  <1>3. ASSUME NEW lower \in HostValue, NEW upper \in HostValue,
               SetUserBounds(lower, upper)
        PROVE  Limits'
    <2>1. lower \in 1..U64Max /\ upper \in 1..U64Max /\ lower < upper
      BY <1>3, ManagerAssumption DEF SetUserBounds
    <2>2. /\ bounds' \in [lower : 1..U64Max, upper : 1..U64Max, max_len : 1..U64Max]
          /\ bounds'.lower = lower /\ bounds'.upper = upper
      BY <1>3, <2>1 DEF SetUserBounds, Limits
    <2> QED BY <1>3, <2>1, <2>2 DEF SetUserBounds, Limits
  <1>4. ASSUME NEW max_len \in HostValue, SetMaxUserBufferLen(max_len) PROVE Limits'
    <2>1. max_len \in 1..U64Max
      BY <1>4, ManagerAssumption DEF SetMaxUserBufferLen
    <2>2. /\ bounds' \in [lower : 1..U64Max, upper : 1..U64Max, max_len : 1..U64Max]
          /\ bounds'.lower = bounds.lower /\ bounds'.upper = bounds.upper
      BY <1>4, <2>1 DEF SetMaxUserBufferLen, Limits
    <2> QED BY <1>4, <2>1, <2>2 DEF SetMaxUserBufferLen, Limits
  <1>5. ASSUME NEW n \in HostValue, SetMinimumUserAlignment(n) PROVE Limits'
    BY <1>5 DEF SetMinimumUserAlignment, AlignmentAllowed, Limits
  <1> QED BY <1>1, <1>2, <1>3, <1>4, <1>5
          DEF Next, vars, ShareRegion, SealSharedRegion

\* Every variable has its type: no setter lets an unusable limit through.
THEOREM TypeCorrect == Spec => []TypeOK
  <1>1. TableType /\ Limits => TypeOK
    BY DEF TableType, Limits, TypeOK
  <1>2. IInv => TableType
    BY DEF IInv
  <1> QED BY <1>1, <1>2, InitLimits, NextLimits, Invariance, PTL DEF Spec

LEMMA MultipleHasNoRest ==
  ASSUME NEW k \in Nat, NEW n \in Nat \ {0}
  PROVE  (k * n) % n = 0
  OBVIOUS

\* A pointer the mask leaves nothing of is a multiple of the alignment, and conversely.
LEMMA MaskIsMultiple ==
  ASSUME NEW ptr \in Address, NEW n \in Nat \ {0}
  PROVE  ptr % n = 0 <=> \E k \in Address : ptr = k * n
  <1>1. ptr \in Nat /\ U64Max \in Nat /\ ptr <= U64Max
    BY ManagerAssumption DEF Address
  <1>2. ASSUME ptr % n = 0
        PROVE  \E k \in Address : ptr = k * n
    <2>1. ptr = (ptr \div n) * n
      BY <1>1, <1>2
    <2>2. ptr \div n \in Nat /\ ptr \div n <= ptr
      BY <1>1
    <2> DEFINE quotient == ptr \div n
    <2>3. quotient \in Address
      BY <1>1, <2>2 DEF Address
    <2>4. ptr = quotient * n
      BY <2>1
    <2> HIDE DEF quotient
    <2> WITNESS quotient \in Address
    <2> QED BY <2>4
  <1>3. ASSUME NEW k \in Address, ptr = k * n
        PROVE  ptr % n = 0
    <2>1. k \in Nat
      BY <1>1 DEF Address
    <2>2. (k * n) % n = 0
      BY <2>1, MultipleHasNoRest
    <2> QED BY <1>3, <2>2, Zenon
  <1> QED BY <1>2, <1>3, Zenon

\* A range lies between two bounds exactly when its ends do.
LEMMA BytesWithin ==
  ASSUME NEW ptr \in Nat, NEW len \in Nat \ {0}, NEW lower \in Nat, NEW upper \in Nat
  PROVE  Bytes(ptr, len) \subseteq lower..(upper - 1)
           <=> ptr >= lower /\ ptr + len <= upper
  <1>1. ASSUME Bytes(ptr, len) \subseteq lower..(upper - 1)
        PROVE  ptr >= lower /\ ptr + len <= upper
    <2>1. ptr \in Bytes(ptr, len) /\ ptr + len - 1 \in Bytes(ptr, len)
      BY DEF Bytes
    <2>2. ptr \in lower..(upper - 1) /\ ptr + len - 1 \in lower..(upper - 1)
      BY <1>1, <2>1
    <2> QED BY <2>2
  <1>2. ASSUME ptr >= lower, ptr + len <= upper
        PROVE  Bytes(ptr, len) \subseteq lower..(upper - 1)
    BY <1>2 DEF Bytes
  <1> QED BY <1>1, <1>2

LEMMA LimitsMakeExact ==
  ASSUME Limits
  PROVE  RangeCheckIsExact
  <1> SUFFICES ASSUME NEW ptr \in Address, NEW len \in Address
               PROVE  RangeResult(ptr, len) = "Ok" <=>
                        /\ len \in 1..bounds.max_len
                        /\ Bytes(ptr, len) \subseteq bounds.lower..(bounds.upper - 1)
                        /\ \E k \in Address : ptr = k * alignment
    BY DEF RangeCheckIsExact
  <1>1. /\ ptr \in Nat /\ len \in Nat /\ U64Max \in Nat
        /\ bounds.lower \in 1..U64Max /\ bounds.upper \in 1..U64Max
        /\ bounds.max_len \in 1..U64Max
        /\ alignment \in Nat \ {0}
    BY ManagerAssumption DEF Address, Limits, PowerOfTwo
  <1> DEFINE multiple == \E k \in Address : ptr = k * alignment
             within == Bytes(ptr, len) \subseteq bounds.lower..(bounds.upper - 1)
  <1>2. ptr % alignment = 0 <=> multiple
    BY <1>1, MaskIsMultiple
  <1>3. len # 0 => (within <=> ptr >= bounds.lower /\ ptr + len <= bounds.upper)
    <2>1. bounds.lower \in Nat /\ bounds.upper \in Nat
      BY <1>1
    <2> QED BY <1>1, <2>1, BytesWithin
  <1>4. RangeResult(ptr, len) = "Ok" <=>
          /\ ptr # 0 /\ len # 0
          /\ ~(len > bounds.max_len) /\ ~(ptr + len > U64Max)
          /\ ~(ptr < bounds.lower) /\ ~(ptr + len > bounds.upper)
          /\ ptr % alignment = 0
    BY DEF RangeResult
  <1> HIDE DEF multiple, within
  <1>5. RangeResult(ptr, len) = "Ok" <=> len \in 1..bounds.max_len /\ within /\ multiple
    BY <1>1, <1>2, <1>3, <1>4
  <1> QED BY <1>5 DEF multiple, within

\* validate_user_range lets through the ranges of user bytes and no others, whatever
\* bounds, limit and alignment the host has chosen by then.
THEOREM RangesAreExact == Spec => []RangeCheckIsExact
  BY LimitsMakeExact, InitLimits, NextLimits, PTL DEF Spec

-----------------------------------------------------------------------------
(* Searches *)

(***************************************************************************)
(* While a slot is free, the next id names the first one; an id is found   *)
(* in one slot at most.  So share_region and seal_shared_region, once      *)
(* their checks have passed, have one slot to write, and share_region      *)
(* never gets as far as running out of ids (its Internal).                 *)
(***************************************************************************)
SearchesSucceed ==
  /\ (\E i \in Slot : IsFree(i)) =>
       IsFirstFree(next_shared_id) /\ \A i : IsFirstFree(i) => i = next_shared_id
  /\ \A id \in Address : SealResult(id) = "Ok" => Finds(id) = {id}
  /\ \A start, len \in Address, permissions \in SUBSET Permission :
       ShareResult(start, len, permissions) # "Internal"

LEMMA SearchesFollow ==
  ASSUME IInv PROVE SearchesSucceed
  <1>1. /\ MaxShared \in Nat /\ U64Max \in Nat /\ MaxShared < U64Max
        /\ next_shared_id \in 1..(MaxShared + 1) /\ Slot = 1..MaxShared
        /\ \A j \in Slot : shared_regions[j].id = IF j < next_shared_id THEN j ELSE 0
    BY ManagerAssumption DEF IInv, IdsNameSlots, Slot, NoRegion
  <1>2. ASSUME NEW k \in Slot, IsFree(k)
        PROVE  IsFirstFree(next_shared_id) /\ next_shared_id \in Slot
    <2>1. next_shared_id <= k
      BY <1>1, <1>2 DEF IsFree, NoRegion
    <2>2. next_shared_id \in Slot
      BY <1>1, <2>1
    <2>3. \A j \in Slot : IsFree(j) <=> next_shared_id <= j
      BY <1>1 DEF IsFree, NoRegion
    <2> QED BY <1>1, <2>2, <2>3 DEF IsFirstFree
  <1>3. \A i : IsFirstFree(i) => i = next_shared_id
    BY FirstFreeIsNext
  <1>4. ASSUME NEW id \in Address, SealResult(id) = "Ok"
        PROVE  Finds(id) = {id}
    <2>1. PICK i \in Finds(id) : TRUE
      BY <1>4 DEF SealResult
    <2>2. \A j \in Finds(id) : j = id
      BY <1>1 DEF Finds, NoRegion
    <2> QED BY <2>1, <2>2
  <1>5. ASSUME NEW start \in Address, NEW len \in Address,
               NEW permissions \in SUBSET Permission
        PROVE  ShareResult(start, len, permissions) # "Internal"
    <2>1. RangeResult(start, len) # "Internal"
      BY DEF RangeResult
    <2>2. ASSUME NEW k \in Slot, IsFree(k)
          PROVE  next_shared_id # U64Max
      BY <1>1, <1>2, <2>2
    <2> QED BY <2>1, <2>2 DEF ShareResult
  <1> QED BY <1>2, <1>3, <1>4, <1>5 DEF SearchesSucceed

\* A call on shared memory that its checks let through is never stuck, and a table that
\* is full is always found full before the id counter is looked at.
THEOREM MethodsAreNeverStuck == Spec => []SearchesSucceed
  BY SearchesFollow, Invariance, PTL
=============================================================================
