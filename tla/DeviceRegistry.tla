--------------------------- MODULE DeviceRegistry ---------------------------
(***************************************************************************)
(* The device registry of src/src/device.rs: a bounded table of device     *)
(* descriptors and the two authorization checks made before a driver sees  *)
(* a request.  A descriptor's class and dma_policy are stored and never    *)
(* read.  Nothing changes a descriptor once it is registered.  A refused   *)
(* registration changes nothing and is a stuttering step.                  *)
(***************************************************************************)
EXTENDS Integers, FiniteSets

CONSTANTS
  MaxDevices,   \* MAX_DEVICES
  Descriptor,   \* the descriptors the host may try to register
  Capability,   \* the bits of a capability set
  Operation,    \* the operations in requests
  MaxLen        \* bound on the lengths in requests

DeviceOperation == {"Query", "Read", "Write", "Submit", "Cancel", "Reset", "Health"}

DeviceLifecycle ==
  {"Discovered", "Probed", "Registered", "Configured", "Open", "Suspended", "Removed"}

DeviceDescriptor ==
  [id : Nat, lifecycle : DeviceLifecycle, required_capabilities : SUBSET Capability,
   supported_operations : SUBSET DeviceOperation,
   max_input_len : Nat, max_output_len : Nat]

ASSUME RegistryAssumption ==
  /\ MaxDevices \in Nat \ {0}
  /\ {"DeviceOpen", "DeviceCall"} \subseteq Capability
  /\ MaxLen \in Nat
  /\ Operation \subseteq DeviceOperation
  /\ Descriptor \subseteq DeviceDescriptor

VARIABLE slots   \* occupied slot -> descriptor

NoDevice == 0

DeviceId == {d.id : d \in Descriptor} \cup {NoDevice}

-----------------------------------------------------------------------------

\* The devices get could return: it takes the first.
SlotsOf(id) == {i \in DOMAIN slots : slots[i].id = id}

Get(id) == slots[CHOOSE i \in SlotsOf(id) : \A j \in SlotsOf(id) : i <= j]

\* Fault: ids are not compared.
RegisterResult_NoDuplicate(descriptor) ==
  IF descriptor.id = NoDevice THEN "InvalidArgument"
  ELSE IF DOMAIN slots = 1..MaxDevices THEN "CapacityExceeded"
  ELSE "Ok"

RegisterResult(descriptor) ==
  IF descriptor.id = NoDevice THEN "InvalidArgument"
  ELSE IF SlotsOf(descriptor.id) # {} THEN "Duplicate"
  ELSE IF DOMAIN slots = 1..MaxDevices THEN "CapacityExceeded"
  ELSE "Ok"

IsAvailable(descriptor) ==
  descriptor.lifecycle \in {"Registered", "Configured", "Open"}

Supports(descriptor, operation) == operation \in descriptor.supported_operations

\* CapabilitySet::contains_all
HoldsRequired(caller, descriptor) ==
  descriptor.required_capabilities \subseteq caller

\* authorize_open
OpenResult(id, caller) ==
  IF "DeviceOpen" \notin caller THEN "MissingCapability"
  ELSE IF SlotsOf(id) = {} THEN "NotFound"
  ELSE IF ~IsAvailable(Get(id)) THEN "Busy"
  ELSE IF ~HoldsRequired(caller, Get(id)) THEN "MissingCapability"
  ELSE "Ok"

\* Fault: the capabilities a device requires are checked for open only.
CallResult_Unguarded(id, operation, caller, input_len, output_len) ==
  IF "DeviceCall" \notin caller THEN "MissingCapability"
  ELSE IF SlotsOf(id) = {} THEN "NotFound"
  ELSE IF ~IsAvailable(Get(id)) THEN "Busy"
  ELSE IF ~Supports(Get(id), operation) THEN "InvalidArgument"
  ELSE IF \/ input_len > Get(id).max_input_len
          \/ output_len > Get(id).max_output_len THEN "BufferTooLarge"
  ELSE "Ok"

\* authorize_call
CallResult(id, operation, caller, input_len, output_len) ==
  IF "DeviceCall" \notin caller THEN "MissingCapability"
  ELSE IF SlotsOf(id) = {} THEN "NotFound"
  ELSE IF ~IsAvailable(Get(id)) THEN "Busy"
  ELSE IF ~Supports(Get(id), operation) THEN "InvalidArgument"
  ELSE IF ~HoldsRequired(caller, Get(id)) THEN "MissingCapability"
  ELSE IF \/ input_len > Get(id).max_input_len
          \/ output_len > Get(id).max_output_len THEN "BufferTooLarge"
  ELSE "Ok"

-----------------------------------------------------------------------------

Init == slots = [i \in {} |-> NoDevice]

\* Fault: the first slot is used when all are taken.
Register_Evicts(descriptor) ==
  /\ RegisterResult(descriptor) \in {"Ok", "CapacityExceeded"}
  /\ LET taken == {i \in 1..MaxDevices : i \in DOMAIN slots}
         free == IF taken = 1..MaxDevices THEN 1
                 ELSE CHOOSE i \in (1..MaxDevices) \ taken :
                        \A j \in (1..MaxDevices) \ taken : i <= j
     IN  slots' = [i \in DOMAIN slots \cup {free} |->
                     IF i = free THEN descriptor ELSE slots[i]]

Register(descriptor) ==
  /\ RegisterResult(descriptor) = "Ok"
  /\ \E free \in (1..MaxDevices) \ DOMAIN slots :
       /\ \A j \in (1..MaxDevices) \ DOMAIN slots : free <= j
       /\ slots' = [i \in DOMAIN slots \cup {free} |->
                      IF i = free THEN descriptor ELSE slots[i]]

\* len()
RegisteredCount == Cardinality(DOMAIN slots)

Next == \E descriptor \in Descriptor : Register(descriptor)

Spec == Init /\ [][Next]_slots

-----------------------------------------------------------------------------

\* The occupied slots are the first ones and hold descriptors, each with an id of
\* its own, so that "the first slot with this id" is no choice.
TypeOK ==
  /\ \E n \in 0..MaxDevices : DOMAIN slots = 1..n
  /\ \A i \in DOMAIN slots : slots[i] \in Descriptor /\ slots[i].id # NoDevice
  /\ \A i, j \in DOMAIN slots : slots[i].id = slots[j].id => i = j

(***************************************************************************)
(* The two checks agree about authority: who may call a device and holds   *)
(* DeviceOpen may open it, and a caller with more capabilities is allowed  *)
(* whatever one with fewer is.                                             *)
(***************************************************************************)
AuthorityIsMonotone ==
  \A id \in DeviceId, caller, more \in SUBSET Capability :
    /\ caller \subseteq more =>
         /\ OpenResult(id, caller) = "Ok" => OpenResult(id, more) = "Ok"
         /\ \A op \in Operation, len \in 0..MaxLen :
              CallResult(id, op, caller, len, len) = "Ok" =>
                CallResult(id, op, more, len, len) = "Ok"
    /\ \A op \in Operation, len \in 0..MaxLen :
         CallResult(id, op, caller, len, len) = "Ok" =>
           OpenResult(id, caller \cup {"DeviceOpen"}) = "Ok"

(***************************************************************************)
(* Registering a device changes no answer about a device that was already  *)
(* there: nobody can shadow or evict it.                                   *)
(***************************************************************************)
AnswersAreStable ==
  [][\A id \in {slots[i].id : i \in DOMAIN slots}, caller \in SUBSET Capability :
       /\ OpenResult(id, caller)' = OpenResult(id, caller)
       /\ \A op \in Operation, in_len, out_len \in 0..MaxLen :
            CallResult(id, op, caller, in_len, out_len)'
              = CallResult(id, op, caller, in_len, out_len)]_slots
=============================================================================
