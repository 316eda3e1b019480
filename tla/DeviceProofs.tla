---------------------------- MODULE DeviceProofs ----------------------------
(***************************************************************************)
(* The device registry's table is well formed, its two authorization       *)
(* checks agree about authority, and registering a device changes no       *)
(* answer about another.                                                   *)
(***************************************************************************)
EXTENDS DeviceRegistry, TLAPS

LEMMA RegisterFills ==
  ASSUME TypeOK, NEW descriptor \in Descriptor, Register(descriptor)
  PROVE  \E n \in 0..(MaxDevices - 1) :
           /\ DOMAIN slots = 1..n /\ DOMAIN slots' = 1..(n + 1)
           /\ slots'[n + 1] = descriptor
           /\ \A i \in 1..n : slots'[i] = slots[i]
<1>1. PICK n \in 0..MaxDevices : DOMAIN slots = 1..n
  BY DEF TypeOK
<1>2. PICK free \in (1..MaxDevices) \ DOMAIN slots :
        /\ \A j \in (1..MaxDevices) \ DOMAIN slots : free <= j
        /\ slots' = [i \in DOMAIN slots \cup {free} |->
                       IF i = free THEN descriptor ELSE slots[i]]
  BY DEF Register
<1>3. n < MaxDevices /\ free = n + 1
  <2>1. /\ n \in Nat /\ MaxDevices \in Nat /\ free \in 1..MaxDevices
        /\ free \notin 1..n
    BY <1>1, RegistryAssumption
  <2>2. free > n /\ free <= MaxDevices
    BY <2>1
  <2>3. n + 1 \in 1..MaxDevices /\ n + 1 \notin 1..n
    BY <2>1, <2>2
  <2>4. free <= n + 1
    BY <1>1, <1>2, <2>3
  <2>5. QED
    BY <2>1, <2>2, <2>4
<1>4. DOMAIN slots' = 1..(n + 1)
  <2>1. (1..n) \cup {n + 1} = 1..(n + 1)
    OBVIOUS
  <2>2. QED
    BY <1>1, <1>2, <1>3, <2>1
<1>5. slots'[n + 1] = descriptor /\ \A i \in 1..n : slots'[i] = slots[i]
  BY <1>1, <1>2, <1>3, <1>4
<1>6. QED
  BY <1>1, <1>3, <1>4, <1>5, RegistryAssumption

LEMMA RegisterKeepsType ==
  ASSUME TypeOK, NEW descriptor \in Descriptor, Register(descriptor)
  PROVE  TypeOK'
<1>1. PICK n \in 0..(MaxDevices - 1) :
        /\ DOMAIN slots = 1..n /\ DOMAIN slots' = 1..(n + 1)
        /\ slots'[n + 1] = descriptor
        /\ \A i \in 1..n : slots'[i] = slots[i]
  BY RegisterFills
<1>2. descriptor.id # NoDevice /\ \A i \in 1..n : slots[i].id # descriptor.id
  BY <1>1 DEF Register, RegisterResult, SlotsOf
<1>3. n + 1 \in 0..MaxDevices
  BY RegistryAssumption
<1>4. \A i \in 1..(n + 1) : i = n + 1 \/ i \in 1..n
  OBVIOUS
<1>5. \A i \in 1..(n + 1) : slots'[i] \in Descriptor /\ slots'[i].id # NoDevice
  BY <1>1, <1>2, <1>4 DEF TypeOK
<1>6. \A i, j \in 1..(n + 1) : slots'[i].id = slots'[j].id => i = j
  BY <1>1, <1>2, <1>4 DEF TypeOK
<1>7. QED
  BY <1>1, <1>3, <1>5, <1>6 DEF TypeOK

LEMMA InitType == Init => TypeOK
  BY RegistryAssumption DEF Init, TypeOK

LEMMA NextType == TypeOK /\ [Next]_slots => TypeOK'
<1>1. TypeOK /\ UNCHANGED slots => TypeOK'
  BY DEF TypeOK
<1>2. QED
  BY <1>1, RegisterKeepsType DEF Next

\* register keeps the devices in the first slots, each with an id of its own.
THEOREM TypeCorrect == Spec => []TypeOK
  BY InitType, NextType, PTL DEF Spec

-----------------------------------------------------------------------------

LEMMA OpenGrowsWithAuthority ==
  ASSUME NEW id, NEW caller, NEW more, caller \subseteq more, OpenResult(id, caller) = "Ok"
  PROVE  OpenResult(id, more) = "Ok"
  BY DEF OpenResult, HoldsRequired

LEMMA CallGrowsWithAuthority ==
  ASSUME NEW id, NEW op, NEW caller, NEW more, NEW len, caller \subseteq more,
         CallResult(id, op, caller, len, len) = "Ok"
  PROVE  CallResult(id, op, more, len, len) = "Ok"
  BY DEF CallResult, HoldsRequired

LEMMA CallImpliesOpen ==
  ASSUME NEW id, NEW op, NEW caller, NEW len, CallResult(id, op, caller, len, len) = "Ok"
  PROVE  OpenResult(id, caller \cup {"DeviceOpen"}) = "Ok"
  BY DEF CallResult, OpenResult, HoldsRequired

\* authorize_open and authorize_call ask for capabilities and never for their absence.
THEOREM AuthorityMonotone == Spec => []AuthorityIsMonotone
<1>1. ASSUME NEW id \in DeviceId, NEW caller \in SUBSET Capability,
             NEW more \in SUBSET Capability, caller \subseteq more
      PROVE  /\ OpenResult(id, caller) = "Ok" => OpenResult(id, more) = "Ok"
             /\ \A op \in Operation, len \in 0..MaxLen :
                  CallResult(id, op, caller, len, len) = "Ok" =>
                    CallResult(id, op, more, len, len) = "Ok"
  BY <1>1, OpenGrowsWithAuthority, CallGrowsWithAuthority
<1>2. ASSUME NEW id \in DeviceId, NEW caller \in SUBSET Capability,
             NEW op \in Operation, NEW len \in 0..MaxLen,
             CallResult(id, op, caller, len, len) = "Ok"
      PROVE  OpenResult(id, caller \cup {"DeviceOpen"}) = "Ok"
  BY <1>2, CallImpliesOpen
<1>3. AuthorityIsMonotone
  BY <1>1, <1>2, Zenon DEF AuthorityIsMonotone
<1>4. QED
  BY <1>3, PTL

-----------------------------------------------------------------------------

LEMMA RegisterShadowsNothing ==
  ASSUME TypeOK, NEW descriptor \in Descriptor, Register(descriptor),
         NEW id \in {slots[i].id : i \in DOMAIN slots}
  PROVE  /\ SlotsOf(id)' = SlotsOf(id) /\ SlotsOf(id) # {}
         /\ Get(id)' = Get(id)
<1>1. PICK n \in 0..(MaxDevices - 1) :
        /\ DOMAIN slots = 1..n /\ DOMAIN slots' = 1..(n + 1)
        /\ slots'[n + 1] = descriptor
        /\ \A i \in 1..n : slots'[i] = slots[i]
  BY RegisterFills
<1>2. PICK k \in 1..n : slots[k].id = id
  BY <1>1
<1>3. descriptor.id # id
  BY <1>1, <1>2 DEF Register, RegisterResult, SlotsOf
<1>4. \A i \in 1..(n + 1) : i = n + 1 \/ i \in 1..n
  OBVIOUS
<1>5. SlotsOf(id) = {k}
  BY <1>1, <1>2 DEF SlotsOf, TypeOK
<1>6. SlotsOf(id)' = {k}
  BY <1>1, <1>2, <1>3, <1>4, <1>5 DEF SlotsOf
<1>7. Get(id) = slots[k] /\ Get(id)' = slots'[k]
  <2>1. (CHOOSE i \in {k} : \A j \in {k} : i <= j) = k
    OBVIOUS
  <2>2. QED
    BY <1>5, <1>6, <2>1 DEF Get
<1>8. QED
  BY <1>1, <1>2, <1>5, <1>6, <1>7

\* No later registration changes what a caller may do with a registered device.
THEOREM AnswersStay == Spec => AnswersAreStable
<1> DEFINE Stable ==
      \A id \in {slots[i].id : i \in DOMAIN slots}, caller \in SUBSET Capability :
        /\ OpenResult(id, caller)' = OpenResult(id, caller)
        /\ \A op \in Operation, in_len, out_len \in 0..MaxLen :
             CallResult(id, op, caller, in_len, out_len)'
               = CallResult(id, op, caller, in_len, out_len)
<1>1. TypeOK /\ [Next]_slots => [Stable]_slots
  <2> SUFFICES ASSUME TypeOK, NEW descriptor \in Descriptor, Register(descriptor)
               PROVE  Stable
    BY DEF Next
  <2>1. ASSUME NEW id \in {slots[i].id : i \in DOMAIN slots}, NEW caller
        PROVE  /\ OpenResult(id, caller)' = OpenResult(id, caller)
               /\ \A op, in_len, out_len :
                    CallResult(id, op, caller, in_len, out_len)'
                      = CallResult(id, op, caller, in_len, out_len)
    BY RegisterShadowsNothing DEF OpenResult, CallResult
  <2>2. QED
    BY <2>1
<1>2. QED
  BY <1>1, TypeCorrect, PTL DEF Spec, AnswersAreStable

-----------------------------------------------------------------------------

(***************************************************************************)
(* A device that is registered is found in one slot, the one get returns,  *)
(* and a registration that passes its checks finds a free slot.            *)
(***************************************************************************)
SearchesSucceed ==
  /\ \A id : SlotsOf(id) # {} =>
       \E k \in DOMAIN slots : SlotsOf(id) = {k} /\ Get(id) = slots[k]
  /\ \A descriptor \in Descriptor :
       RegisterResult(descriptor) = "Ok" =>
         \E free \in (1..MaxDevices) \ DOMAIN slots :
           \A j \in (1..MaxDevices) \ DOMAIN slots : free <= j

LEMMA SearchesFollow ==
  ASSUME TypeOK PROVE SearchesSucceed
<1>1. ASSUME NEW id, SlotsOf(id) # {}
      PROVE  \E k \in DOMAIN slots : SlotsOf(id) = {k} /\ Get(id) = slots[k]
  <2>1. PICK k \in DOMAIN slots : slots[k].id = id
    BY <1>1 DEF SlotsOf
  <2>2. SlotsOf(id) = {k}
    BY <2>1 DEF SlotsOf, TypeOK
  <2>3. k \in Nat
    BY RegistryAssumption DEF TypeOK
  <2>4. (CHOOSE i \in {k} : \A j \in {k} : i <= j) = k
    BY <2>3
  <2>5. QED
    BY <2>2, <2>4 DEF Get
<1>2. ASSUME NEW descriptor \in Descriptor, RegisterResult(descriptor) = "Ok"
      PROVE  \E free \in (1..MaxDevices) \ DOMAIN slots :
               \A j \in (1..MaxDevices) \ DOMAIN slots : free <= j
  <2>1. PICK n \in 0..MaxDevices : DOMAIN slots = 1..n
    BY DEF TypeOK
  <2>2. DOMAIN slots # 1..MaxDevices
    BY <1>2 DEF RegisterResult
  <2>3. n < MaxDevices /\ MaxDevices \in Nat
    BY <2>1, <2>2, RegistryAssumption
  <2>4. /\ n + 1 \in (1..MaxDevices) \ DOMAIN slots
        /\ \A j \in (1..MaxDevices) \ DOMAIN slots : n + 1 <= j
    BY <2>1, <2>3
  <2>5. QED
    BY <2>4
<1>3. QED
  BY <1>1, <1>2 DEF SearchesSucceed

\* No call on the registry is stuck, and none has to choose between two devices.
THEOREM MethodsAreNeverStuck == Spec => []SearchesSucceed
  BY SearchesFollow, TypeCorrect, PTL
=============================================================================
