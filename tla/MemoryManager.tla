--------------------------- MODULE MemoryManager ---------------------------
(***************************************************************************)
(* The memory manager of src/src/memory.rs without its boot map, which is  *)
(* MemoryMap: allocator phase, validation of user ranges and buffers, and  *)
(* the table of sealable shared ranges.  Refused calls change nothing and  *)
(* are stuttering steps.                                                   *)
(***************************************************************************)
EXTENDS Integers

CONSTANTS
  MaxShared,    \* MAX_SHARED_REGIONS
  U64Max,       \* largest address, length or id (u64)
  Task,         \* owners of shared ranges
  Permission,   \* the known permission bits
  HostValue,    \* what the host passes to the set_ methods
  CallerRange,  \* the [start, len] tasks ask to share
  InitBounds    \* the [lower, upper, max_len] of MemoryManager::new

ASSUME ManagerAssumption ==
  /\ MaxShared \in Nat \ {0}
  /\ U64Max \in Nat
  /\ MaxShared < U64Max
  /\ Task # {}
  /\ {"WRITE", "SEALED"} \subseteq Permission
  /\ HostValue \subseteq 0..U64Max
  /\ CallerRange \subseteq [start : 0..U64Max, len : 0..U64Max]
  /\ InitBounds \in [lower : 1..U64Max, upper : 1..U64Max, max_len : 1..U64Max]
  /\ InitBounds.lower < InitBounds.upper

VARIABLES
  allocator_phase,
  bounds,          \* user_lower_bound, user_upper_bound, max_user_buffer_len
  alignment,       \* minimum_user_alignment
  shared_regions,  \* slot -> shared region; a free slot has id NoRegion
  next_shared_id

vars == <<allocator_phase, bounds, alignment, shared_regions, next_shared_id>>

Slot == 1..MaxShared
Address == 0..U64Max
NoRegion == 0
Phase == {"Uninitialized", "BootBump", "Frame", "Heap"}

\* u64::is_power_of_two, on the values a u64 can have
PowerOfTwo == {2^k : k \in 0..U64Max} \cap Address

SharedRegion ==
  [id : Address, owner_task : Task, permissions : SUBSET Permission,
   start : Address, len : Address, sealed : BOOLEAN]

\* SharedRegion::EMPTY
EmptyRegion ==
  [id |-> NoRegion, owner_task |-> CHOOSE t \in Task : TRUE, permissions |-> {},
   start |-> 0, len |-> 0, sealed |-> TRUE]

-----------------------------------------------------------------------------
(* Validation *)

\* Fault: the end of the range is computed with an addition that wraps.
RangeResult_Wraps(ptr, len) ==
  IF ptr = 0 \/ len = 0 THEN "InvalidUserBuffer"
  ELSE IF len > bounds.max_len THEN "BufferTooLarge"
  ELSE IF \/ ptr < bounds.lower
          \/ (ptr + len) % (U64Max + 1) > bounds.upper THEN "BufferOutOfRange"
  ELSE IF ptr % alignment # 0 THEN "InvalidUserBuffer"
  ELSE "Ok"

(***************************************************************************)
(* validate_user_range.  The code masks the pointer with alignment - 1:    *)
(* the remainder, because alignment is a power of two.                     *)
(***************************************************************************)
RangeResult(ptr, len) ==
  IF ptr = 0 \/ len = 0 THEN "InvalidUserBuffer"
  ELSE IF len > bounds.max_len THEN "BufferTooLarge"
  ELSE IF ptr + len > U64Max THEN "InvalidUserBuffer"
  ELSE IF ptr < bounds.lower \/ ptr + len > bounds.upper THEN "BufferOutOfRange"
  ELSE IF ptr % alignment # 0 THEN "InvalidUserBuffer"
  ELSE "Ok"

\* USER_BUFFER_KNOWN_FLAGS; a flag is one bit of a mask.
KnownFlags == {"READ", "WRITE", "PINNABLE"}

\* UserBuffer::new: reserved is zero in every buffer the kernel builds.
UserBuffer(ptr, len, flags) == [ptr |-> ptr, len |-> len, flags |-> flags, reserved |-> 0]

HasUnknownFlags(buffer) == ~(buffer.flags \subseteq KnownFlags)

\* The flags a buffer must carry for a BufferAccess.
AccessFlags(access) ==
  CASE access = "Read" -> {"READ"}
    [] access = "Write" -> {"WRITE"}
    [] access = "ReadWrite" -> {"READ", "WRITE"}

\* validate_user_buffer
BufferResult(buffer, access) ==
  IF buffer.reserved # 0 \/ HasUnknownFlags(buffer) THEN "ReservedBits"
  ELSE IF ~(AccessFlags(access) \subseteq buffer.flags) THEN "PermissionDenied"
  ELSE RangeResult(buffer.ptr, buffer.len)

\* MemoryPermissions::from_bits: a mask with a bit that is not known is refused.
PermissionsResult(bits) == IF bits \subseteq Permission THEN "Ok" ELSE "ReservedBits"

-----------------------------------------------------------------------------
(* Shared ranges *)

\* Fault: the slot of a sealed range counts as free.
IsFree_Sealed(i) == shared_regions[i].sealed

IsFree(i) == shared_regions[i].id = NoRegion

IsFirstFree(i) ==
  /\ i \in Slot /\ IsFree(i)
  /\ \A j \in Slot : IsFree(j) => i <= j

\* The slots seal_shared_region and shared_region find.
Finds(id) == {i \in Slot : shared_regions[i].id = id /\ id # NoRegion}

ShareResult(start, len, permissions) ==
  IF RangeResult(start, len) # "Ok" THEN RangeResult(start, len)
  ELSE IF "SEALED" \in permissions THEN "Sealed"
  ELSE IF \A i \in Slot : ~IsFree(i) THEN "CapacityExceeded"
  ELSE IF next_shared_id = U64Max THEN "Internal"
  ELSE "Ok"

SealResult(id) == IF Finds(id) = {} THEN "NotFound" ELSE "Ok"

\* Fault: the flag is set and the permission bits are left as they were.
Sealed_FlagOnly(region) == [region EXCEPT !.sealed = TRUE]

Sealed(region) ==
  [region EXCEPT !.sealed = TRUE,
                 !.permissions = (@ \ {"WRITE"}) \cup {"SEALED"}]

-----------------------------------------------------------------------------

Init ==
  /\ allocator_phase = "Uninitialized"
  /\ bounds = InitBounds
  /\ alignment = 1
  /\ shared_regions = [i \in Slot |-> EmptyRegion]
  /\ next_shared_id = 1

PhaseAllowed(from, to) ==
  \/ from = to
  \/ <<from, to>> \in {<<"Uninitialized", "BootBump">>, <<"BootBump", "Frame">>,
                       <<"Frame", "Heap">>}

SetAllocatorPhase(phase) ==
  /\ PhaseAllowed(allocator_phase, phase)
  /\ allocator_phase' = phase
  /\ UNCHANGED <<bounds, alignment, shared_regions, next_shared_id>>

SetUserBounds(lower, upper) ==
  /\ lower # 0 /\ lower < upper
  /\ bounds' = [bounds EXCEPT !.lower = lower, !.upper = upper]
  /\ UNCHANGED <<allocator_phase, alignment, shared_regions, next_shared_id>>

SetMaxUserBufferLen(max_len) ==
  /\ max_len # 0
  /\ bounds' = [bounds EXCEPT !.max_len = max_len]
  /\ UNCHANGED <<allocator_phase, alignment, shared_regions, next_shared_id>>

\* Fault: any alignment but zero is accepted.
AlignmentAllowed_NonZero(n) == n # 0

AlignmentAllowed(n) == n # 0 /\ n \in PowerOfTwo

SetMinimumUserAlignment(n) ==
  /\ AlignmentAllowed(n)
  /\ alignment' = n
  /\ UNCHANGED <<allocator_phase, bounds, shared_regions, next_shared_id>>

\* Fault: the id is taken before the slot is looked for, as spawn does.
ShareRegion_BurnsId(owner_task, start, len, permissions) ==
  /\ \/ /\ ShareResult(start, len, permissions) = "CapacityExceeded"
        /\ next_shared_id < U64Max
        /\ UNCHANGED shared_regions
     \/ /\ ShareResult(start, len, permissions) = "Ok"
        /\ \E i \in Slot :
             /\ IsFirstFree(i)
             /\ shared_regions' =
                  [shared_regions EXCEPT ![i] =
                     [id |-> next_shared_id, owner_task |-> owner_task,
                      permissions |-> permissions, start |-> start, len |-> len,
                      sealed |-> FALSE]]
  /\ next_shared_id' = next_shared_id + 1
  /\ UNCHANGED <<allocator_phase, bounds, alignment>>

ShareRegion(owner_task, start, len, permissions) ==
  /\ ShareResult(start, len, permissions) = "Ok"
  /\ \E i \in Slot :
       /\ IsFirstFree(i)
       /\ shared_regions' =
            [shared_regions EXCEPT ![i] =
               [id |-> next_shared_id, owner_task |-> owner_task,
                permissions |-> permissions, start |-> start, len |-> len,
                sealed |-> FALSE]]
  /\ next_shared_id' = next_shared_id + 1
  /\ UNCHANGED <<allocator_phase, bounds, alignment>>

\* The caller's handle is matched by id; its owner is not looked at.
SealSharedRegion(id) ==
  /\ \E i \in Finds(id) :
       shared_regions' = [shared_regions EXCEPT ![i] = Sealed(@)]
  /\ UNCHANGED <<allocator_phase, bounds, alignment, next_shared_id>>

Next ==
  \/ \E phase \in Phase : SetAllocatorPhase(phase)
  \/ \E lower, upper \in HostValue : SetUserBounds(lower, upper)
  \/ \E max_len \in HostValue : SetMaxUserBufferLen(max_len)
  \/ \E n \in HostValue : SetMinimumUserAlignment(n)
  \/ \E owner_task \in Task, range \in CallerRange, permissions \in SUBSET Permission :
       ShareRegion(owner_task, range.start, range.len, permissions)
  \/ \E id \in Address : SealSharedRegion(id)

Spec == Init /\ [][Next]_vars

-----------------------------------------------------------------------------

\* Every variable has its type.
TypeOK ==
  /\ allocator_phase \in Phase
  /\ bounds \in [lower : 1..U64Max, upper : 1..U64Max, max_len : 1..U64Max]
  /\ bounds.lower < bounds.upper
  /\ alignment \in PowerOfTwo
  /\ shared_regions \in [Slot -> SharedRegion]
  /\ next_shared_id \in 1..U64Max

Bytes(start, len) == start..(start + len - 1)

(***************************************************************************)
(* validate_user_range accepts a range exactly when it is not empty, not   *)
(* longer than the limit, aligned, and each of its bytes is a user         *)
(* address: whatever bounds the host chose, with no wraparound at the top. *)
(***************************************************************************)
RangeCheckIsExact ==
  \A ptr, len \in Address :
    RangeResult(ptr, len) = "Ok" <=>
      /\ len \in 1..bounds.max_len
      /\ Bytes(ptr, len) \subseteq bounds.lower..(bounds.upper - 1)
      /\ \E k \in Address : ptr = k * alignment

(***************************************************************************)
(* The table is filled from the front and an id is its slot's number: ids  *)
(* are never given twice, a lookup by id finds one slot, and the id        *)
(* counter stops at MAX_SHARED_REGIONS + 1, so its checked_add in          *)
(* share_region never fails.                                               *)
(***************************************************************************)
IdsNameSlots ==
  /\ next_shared_id \in 1..(MaxShared + 1)
  /\ \A i \in Slot :
       shared_regions[i].id = IF i < next_shared_id THEN i ELSE NoRegion

\* The three ways a region says that it is sealed agree: the flag, the SEALED
\* bit, and (when sealed) no WRITE bit, although share takes arbitrary bits.
SealIsCoherent ==
  \A i \in Slot : shared_regions[i].id # NoRegion =>
    /\ shared_regions[i].sealed <=> "SEALED" \in shared_regions[i].permissions
    /\ shared_regions[i].sealed => "WRITE" \notin shared_regions[i].permissions

(***************************************************************************)
(* "Whether writes are permanently disabled" (SharedRegion::sealed): once  *)
(* a region is sealed nothing about it changes again, and no region's      *)
(* range or owner ever changes or gains a permission other than SEALED.    *)
(***************************************************************************)
SealIsPermanent ==
  [][\A i \in Slot : shared_regions[i].id # NoRegion =>
       /\ shared_regions[i].sealed => shared_regions'[i] = shared_regions[i]
       /\ shared_regions'[i].id = shared_regions[i].id
       /\ shared_regions'[i].owner_task = shared_regions[i].owner_task
       /\ shared_regions'[i].start = shared_regions[i].start
       /\ shared_regions'[i].len = shared_regions[i].len
       /\ shared_regions'[i].permissions
            \subseteq shared_regions[i].permissions \cup {"SEALED"}]_vars
=============================================================================
