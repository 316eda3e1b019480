------------------------- MODULE CapabilityRegistry -------------------------
(***************************************************************************)
(* The bounded registry of capability handles of src/src/capability.rs.    *)
(*                                                                         *)
(* A rights mask is the set of its bits; bits outside KnownRight can enter *)
(* through CapabilitySet::from_known_bits, which does not validate.  The   *)
(* registry stores a handle's owner_task and never reads it.  The caller's *)
(* handle is a plain struct, so any id and generation can be presented.    *)
(* Calls that return Err change nothing and are stuttering steps.          *)
(*                                                                         *)
(* issued and revoked are history variables: no action's guard reads them. *)
(***************************************************************************)
EXTENDS Naturals

CONSTANTS
  MaxRecords,  \* MAX_CAPABILITY_RECORDS
  IdMax,       \* u64::MAX, the last value of next_id
  GenMax,      \* u32::MAX
  Right,       \* the bits of a u64 mask
  KnownRight   \* KNOWN_CAPABILITY_BITS

ASSUME RegistryAssumption ==
  /\ MaxRecords \in Nat \ {0}
  /\ IdMax \in Nat \ {0} /\ GenMax \in Nat \ {0}
  /\ KnownRight \subseteq Right

VARIABLES
  records,          \* slot -> record
  next_id,
  next_generation,
  issued,           \* id -> the handle it was issued with, and its parent
  revoked           \* ids of the handles that revoke was called for

vars == <<records, next_id, next_generation, issued, revoked>>

Slot == 1..MaxRecords
NoHandle == 0   \* the id that is never issued; as a parent, of a root handle

Record == [id : 0..IdMax, generation : 0..GenMax, rights : SUBSET Right,
           revoked : BOOLEAN]
Handle == [id : 0..IdMax, generation : 0..GenMax]
Issue == [rights : SUBSET Right, generation : 1..GenMax, parent : 0..IdMax]

\* CapabilityRecord::EMPTY
EmptyRecord == [id |-> NoHandle, generation |-> 0, rights |-> {}, revoked |-> TRUE]

\* Fault: only the id of a handle is compared.
Matches_IgnoresRevoked(i, handle) ==
  records[i].id = handle.id /\ records[i].generation = handle.generation

\* The record revoke and resolve look for.
Matches(i, handle) ==
  /\ ~records[i].revoked
  /\ records[i].id = handle.id
  /\ records[i].generation = handle.generation

IsFirstMatch(i, handle) ==
  /\ i \in Slot /\ Matches(i, handle)
  /\ \A j \in Slot : Matches(j, handle) => i <= j

\* Whether resolve returns Ok(rights): a mask with an unknown bit is refused.
Resolves(handle, rights) ==
  /\ handle.id # NoHandle
  /\ \E i \in Slot : IsFirstMatch(i, handle) /\ records[i].rights = rights
  /\ rights \subseteq KnownRight

\* Fault: the last slot is reused although its handle is live.
IsFree_Any(i) == records[i].id = NoHandle \/ records[i].revoked \/ i = MaxRecords

\* A slot that issue may take.
IsFree(i) == records[i].id = NoHandle \/ records[i].revoked

IsFirstFree(i) ==
  /\ i \in Slot /\ IsFree(i)
  /\ \A j \in Slot : IsFree(j) => i <= j

-----------------------------------------------------------------------------

Init ==
  /\ records = [i \in Slot |-> EmptyRecord]
  /\ next_id = 1
  /\ next_generation = 1
  /\ issued = [id \in {} |-> EmptyRecord]
  /\ revoked = {}

\* Fault: the generation is incremented without a look at its width.
NextGeneration_Unwrapped == next_generation + 1

\* checked_add(1).unwrap_or(1)
NextGeneration == IF next_generation < GenMax THEN next_generation + 1 ELSE 1

\* issue, on behalf of itself or of derive.
IssueTo(rights, parent) ==
  \E i \in Slot :
    /\ next_id < IdMax
    /\ IsFirstFree(i)
    /\ records' = [records EXCEPT ![i] =
                     [id |-> next_id, generation |-> next_generation,
                      rights |-> rights, revoked |-> FALSE]]
    /\ next_id' = next_id + 1
    /\ next_generation' = NextGeneration
    /\ issued' = [id \in DOMAIN issued \cup {next_id} |->
                    IF id = next_id
                      THEN [rights |-> rights, generation |-> next_generation,
                            parent |-> parent]
                      ELSE issued[id]]
    /\ UNCHANGED revoked

IssueRoot(rights) == IssueTo(rights, NoHandle)

\* Fault: an intersection test stands in for contains_all.
Derive_Overlap(handle, requested) ==
  \E rights \in SUBSET Right :
    /\ Resolves(handle, rights)
    /\ rights \cap requested # {} \/ requested = {}
    /\ IssueTo(requested, handle.id)

Derive(handle, requested) ==
  \E rights \in SUBSET Right :
    /\ Resolves(handle, rights)
    /\ requested \subseteq rights
    /\ IssueTo(requested, handle.id)

Revoke(handle) ==
  /\ \E i \in Slot :
       /\ IsFirstMatch(i, handle)
       /\ records' = [records EXCEPT ![i].revoked = TRUE]
  /\ revoked' = revoked \cup {handle.id}
  /\ UNCHANGED <<next_id, next_generation, issued>>

Next ==
  \/ \E rights \in SUBSET Right : IssueRoot(rights)
  \/ \E handle \in Handle, requested \in SUBSET Right : Derive(handle, requested)
  \/ \E handle \in Handle : Revoke(handle)

Spec == Init /\ [][Next]_vars

-----------------------------------------------------------------------------

\* Every variable has its type, and the history covers the ids given so far.
TypeOK ==
  /\ records \in [Slot -> Record]
  /\ next_id \in 1..IdMax
  /\ next_generation \in 1..GenMax
  /\ issued \in [1..(next_id - 1) -> Issue]
  /\ revoked \subseteq 1..(next_id - 1)

(***************************************************************************)
(* Stale handles stay dead and live ones stay whole: until it is revoked a *)
(* handle resolves to exactly the rights it was issued with (or is refused *)
(* for an unknown bit); from then on it resolves to nothing, although its  *)
(* slot is reused and the generation counter comes round again.            *)
(***************************************************************************)
HandlesAreFaithful ==
  \A id \in 1..(next_id - 1), rights \in SUBSET Right :
    Resolves([id |-> id, generation |-> issued[id].generation], rights) <=>
      /\ id \notin revoked
      /\ rights = issued[id].rights
      /\ rights \subseteq KnownRight

(***************************************************************************)
(* Authority is only attenuated: a handle derived from another, directly   *)
(* or through handles since revoked, has known rights within those of      *)
(* every handle it descends from.                                          *)
(***************************************************************************)
OnlyAttenuated ==
  \A id \in 1..(next_id - 1) :
    issued[id].parent # NoHandle =>
      /\ issued[id].parent < id
      /\ issued[id].rights \subseteq issued[issued[id].parent].rights \cap KnownRight

LiveRecords == {i \in Slot : ~records[i].revoked}

\* The live grants: id -> rights.
Grants ==
  [id \in {records[i].id : i \in LiveRecords} |->
     records[CHOOSE i \in LiveRecords : records[i].id = id].rights]

Promise == INSTANCE Authority WITH grants <- Grants

(***************************************************************************)
(* The registry is the table of live grants, whatever its slots are reused *)
(* for: identities are fresh, a call adds, removes and disturbs one grant  *)
(* at most.  A root grant may carry anything, so the abstract table allows *)
(* every rights mask; that derive only attenuates is OnlyAttenuated's.     *)
(***************************************************************************)
ImplementsAuthority == Promise!Spec
=============================================================================
