-------------------------- MODULE CapabilityProofs --------------------------
(***************************************************************************)
(* Theorems about the capability registry, for every number of slots, of   *)
(* ids and of generations: a handle means what it was issued with until it *)
(* is revoked and nothing afterwards, authority is only attenuated, and    *)
(* the registry implements the table of grants of Authority.               *)
(***************************************************************************)
EXTENDS CapabilityRegistry, TLAPS

-----------------------------------------------------------------------------
(* The inductive invariant *)

(***************************************************************************)
(* How the slots and the history fit together.  An id is in one slot at    *)
(* most, which is why generations may come round again; a slot agrees with *)
(* what was issued; and no live handle is without a slot.                  *)
(***************************************************************************)
SlotsFitHistory ==
  /\ \A i \in Slot :
       /\ records[i].id = NoHandle => records[i].revoked
       /\ records[i].id # NoHandle =>
            /\ records[i].id \in 1..(next_id - 1)
            /\ records[i].rights = issued[records[i].id].rights
            /\ records[i].generation = issued[records[i].id].generation
            /\ records[i].revoked <=> records[i].id \in revoked
  /\ \A i, j \in Slot : records[i].id # NoHandle /\ records[i].id = records[j].id => i = j
  /\ \A id \in 1..(next_id - 1) : id \notin revoked => \E i \in Slot : records[i].id = id

IInv == TypeOK /\ SlotsFitHistory

LEMMA InitIInv == Init => IInv
<1> SUFFICES ASSUME Init PROVE IInv
  OBVIOUS
<1>1. 1..(next_id - 1) = {}
  BY DEF Init
<1>2. EmptyRecord \in Record
  BY RegistryAssumption DEF EmptyRecord, Record, NoHandle
<1>3. TypeOK
  BY <1>1, <1>2, RegistryAssumption DEF Init, TypeOK
<1>4. SlotsFitHistory
  BY <1>1 DEF Init, SlotsFitHistory, EmptyRecord
<1>5. QED
  BY <1>3, <1>4 DEF IInv

LEMMA IssueToStep ==
  ASSUME IInv, NEW rights \in SUBSET Right, NEW parent \in 0..IdMax, IssueTo(rights, parent)
  PROVE  /\ IInv'
         /\ \A id \in 1..(next_id - 1) : issued'[id] = issued[id]
         /\ issued'[next_id] = [rights |-> rights, generation |-> next_generation,
                                parent |-> parent]
         /\ next_id' = next_id + 1
<1> USE DEF IInv
<1> DEFINE handle == [rights |-> rights, generation |-> next_generation, parent |-> parent]
           record == [id |-> next_id, generation |-> next_generation,
                      rights |-> rights, revoked |-> FALSE]
<1>1. PICK k \in Slot : IsFirstFree(k) /\ records' = [records EXCEPT ![k] = record]
  BY DEF IssueTo
<1>2. /\ next_id < IdMax /\ next_id' = next_id + 1 /\ revoked' = revoked
      /\ next_generation' = IF next_generation < GenMax THEN next_generation + 1 ELSE 1
  BY DEF IssueTo, NextGeneration
<1>3. /\ next_id \in Nat /\ 1 <= next_id /\ next_id \in 0..IdMax
      /\ next_generation \in 1..GenMax /\ next_generation \in 0..GenMax
  BY RegistryAssumption DEF TypeOK
<1>4. DOMAIN issued = 1..(next_id - 1) /\ 1..(next_id' - 1) = 1..(next_id - 1) \cup {next_id}
  BY <1>2, <1>3 DEF TypeOK
<1>5. issued' = [id \in 1..(next_id' - 1) |-> IF id = next_id THEN handle ELSE issued[id]]
  BY <1>4 DEF IssueTo
<1>6. /\ \A id \in 1..(next_id - 1) : id # next_id /\ issued'[id] = issued[id]
      /\ issued'[next_id] = handle
  BY <1>3, <1>4, <1>5
<1>7. handle \in Issue /\ record \in Record
  BY <1>3 DEF Issue, Record
<1>8. /\ \A i \in Slot : i # k => records'[i] = records[i]
      /\ records'[k] = record
  BY <1>1 DEF TypeOK
<1>9. TypeOK'
  <2>1. records' \in [Slot -> Record]
    BY <1>1, <1>7 DEF TypeOK
  <2>2. next_id' \in 1..IdMax /\ next_generation' \in 1..GenMax
    BY <1>2, <1>3, RegistryAssumption DEF TypeOK
  <2>3. issued' \in [1..(next_id' - 1) -> Issue]
    BY <1>4, <1>5, <1>7 DEF TypeOK
  <2>4. revoked' \subseteq 1..(next_id' - 1)
    BY <1>2, <1>4 DEF TypeOK
  <2>5. QED
    BY <2>1, <2>2, <2>3, <2>4 DEF TypeOK
<1>10. SlotsFitHistory'
  <2>1. next_id \notin revoked /\ next_id # NoHandle
    BY <1>3 DEF TypeOK, NoHandle
  <2>2. ASSUME NEW i \in Slot
        PROVE  /\ records'[i].id = NoHandle => records'[i].revoked
               /\ records'[i].id # NoHandle =>
                    /\ records'[i].id \in 1..(next_id' - 1)
                    /\ records'[i].rights = issued'[records'[i].id].rights
                    /\ records'[i].generation = issued'[records'[i].id].generation
                    /\ records'[i].revoked <=> records'[i].id \in revoked'
    <3>1. CASE i = k
      BY <1>2, <1>4, <1>6, <1>8, <2>1, <3>1
    <3>2. CASE i # k
      BY <1>2, <1>4, <1>6, <1>8, <3>2 DEF SlotsFitHistory
    <3>3. QED
      BY <3>1, <3>2
  <2>3. ASSUME NEW i \in Slot, NEW j \in Slot, records'[i].id # NoHandle,
               records'[i].id = records'[j].id
        PROVE  i = j
    BY <1>3, <1>8, <2>3 DEF SlotsFitHistory
  <2>4. ASSUME NEW id \in 1..(next_id' - 1), id \notin revoked'
        PROVE  \E i \in Slot : records'[i].id = id
    <3>1. CASE id = next_id
      BY <1>8, <3>1
    <3>2. CASE id # next_id
      <4>1. PICK i \in Slot : records[i].id = id
        BY <1>2, <1>4, <2>4, <3>2 DEF SlotsFitHistory
      <4>2. ~records[i].revoked /\ id # NoHandle
        BY <1>2, <1>4, <2>4, <3>2, <4>1, <1>3 DEF SlotsFitHistory, NoHandle
      <4>3. i # k
        BY <1>1, <4>1, <4>2 DEF IsFirstFree, IsFree
      <4>4. QED
        BY <1>8, <4>1, <4>3
    <3>3. QED
      BY <3>1, <3>2
  <2>5. QED
    BY <2>2, <2>3, <2>4 DEF SlotsFitHistory
<1>11. QED
  BY <1>2, <1>6, <1>9, <1>10

LEMMA RevokeStep ==
  ASSUME IInv, NEW handle \in Handle, Revoke(handle)
  PROVE  IInv'
<1> USE DEF IInv
<1>1. PICK k \in Slot : Matches(k, handle) /\ records' = [records EXCEPT ![k].revoked = TRUE]
  BY DEF Revoke, IsFirstMatch
<1>2. /\ revoked' = revoked \cup {handle.id}
      /\ UNCHANGED <<next_id, next_generation, issued>>
  BY DEF Revoke
<1>3. /\ records[k].id = handle.id /\ handle.id # NoHandle
      /\ handle.id \in 1..(next_id - 1) /\ handle.id \notin revoked
  BY <1>1 DEF Matches, SlotsFitHistory
<1>4. \A i \in Slot :
        /\ records'[i].id = records[i].id /\ records'[i].rights = records[i].rights
        /\ records'[i].generation = records[i].generation
        /\ records'[i].revoked = IF i = k THEN TRUE ELSE records[i].revoked
  BY <1>1 DEF TypeOK, Record
<1>5. TypeOK'
  <2>1. records' \in [Slot -> Record]
    BY <1>1 DEF TypeOK, Record
  <2>2. revoked' \subseteq 1..(next_id' - 1)
    BY <1>2, <1>3 DEF TypeOK
  <2>3. QED
    BY <1>2, <2>1, <2>2 DEF TypeOK
<1>6. /\ \A i \in Slot :
           /\ records[i].id = NoHandle => records[i].revoked
           /\ records[i].id # NoHandle =>
                /\ records[i].id \in 1..(next_id - 1)
                /\ records[i].rights = issued[records[i].id].rights
                /\ records[i].generation = issued[records[i].id].generation
                /\ records[i].revoked <=> records[i].id \in revoked
      /\ \A i, j \in Slot : records[i].id # NoHandle /\ records[i].id = records[j].id => i = j
      /\ \A id \in 1..(next_id - 1) : id \notin revoked => \E i \in Slot : records[i].id = id
  BY DEF SlotsFitHistory
<1>7. /\ \A i, j \in Slot :
           records'[i].id # NoHandle /\ records'[i].id = records'[j].id => i = j
      /\ \A id \in 1..(next_id' - 1) :
           id \notin revoked' => \E i \in Slot : records'[i].id = id
  <2> HIDE DEF IInv
  <2>1. \A i \in Slot : records'[i].id = records[i].id
    BY <1>4
  <2>2. next_id' = next_id /\ revoked \subseteq revoked'
    BY <1>2
  <2>3. \A i, j \in Slot :
          records'[i].id # NoHandle /\ records'[i].id = records'[j].id => i = j
    BY <1>6, <2>1
  <2>4. \A id \in 1..(next_id' - 1) :
          id \notin revoked' => \E i \in Slot : records'[i].id = id
    BY <1>6, <2>1, <2>2
  <2>5. QED
    BY <2>3, <2>4
<1>8. ASSUME NEW i \in Slot
      PROVE  /\ records'[i].id = NoHandle => records'[i].revoked
             /\ records'[i].id # NoHandle =>
                  /\ records'[i].id \in 1..(next_id' - 1)
                  /\ records'[i].rights = issued'[records'[i].id].rights
                  /\ records'[i].generation = issued'[records'[i].id].generation
                  /\ records'[i].revoked <=> records'[i].id \in revoked'
  <2> HIDE DEF IInv
  <2>1. CASE i = k
    <3>1. records'[i].id = handle.id /\ records'[i].revoked
      BY <1>3, <1>4, <2>1
    <3>2. handle.id \in revoked'
      BY <1>2
    <3>3. /\ records'[i].rights = issued[handle.id].rights
          /\ records'[i].generation = issued[handle.id].generation
      <4>1. records'[k].rights = records[k].rights /\ records'[k].generation = records[k].generation
        BY <1>4
      <4>2. /\ records[k].rights = issued[records[k].id].rights
            /\ records[k].generation = issued[records[k].id].generation
        BY <1>3, <1>6
      <4>3. QED
        BY <1>3, <2>1, <4>1, <4>2
    <3>4. issued' = issued /\ next_id' = next_id
      BY <1>2
    <3>5. QED
      BY <1>3, <3>1, <3>2, <3>3, <3>4
  <2>2. CASE i # k
    <3>1. records[i].id # handle.id
      BY <1>3, <1>6, <2>2
    <3>2. records'[i].revoked = records[i].revoked
      BY <1>4, <2>2
    <3>3. /\ records'[i].id = records[i].id /\ records'[i].rights = records[i].rights
          /\ records'[i].generation = records[i].generation
      BY <1>4
    <3>4. /\ next_id' = next_id /\ issued' = issued
          /\ records[i].id \in revoked' <=> records[i].id \in revoked
      BY <1>2, <3>1
    <3>5. QED
      BY <1>6, <3>2, <3>3, <3>4
  <2>3. QED
    BY <2>1, <2>2
<1>9. SlotsFitHistory'
  BY <1>7, <1>8 DEF SlotsFitHistory
<1>10. QED
  BY <1>5, <1>9

LEMMA NextIInv == IInv /\ [Next]_vars => IInv'
<1> SUFFICES ASSUME IInv, [Next]_vars PROVE IInv'
  OBVIOUS
<1>1. ASSUME NEW rights \in SUBSET Right, IssueRoot(rights)
      PROVE  IInv'
  <2>1. IssueTo(rights, NoHandle) /\ NoHandle \in 0..IdMax
    BY <1>1, RegistryAssumption DEF IssueRoot, NoHandle
  <2>2. QED
    BY <2>1, IssueToStep
<1>2. ASSUME NEW handle \in Handle, NEW requested \in SUBSET Right,
             Derive(handle, requested)
      PROVE  IInv'
  BY <1>2, IssueToStep DEF Derive, Handle
<1>3. ASSUME NEW handle \in Handle, Revoke(handle)
      PROVE  IInv'
  BY <1>3, RevokeStep
<1>4. CASE UNCHANGED vars
  BY <1>4 DEF vars, IInv, TypeOK, SlotsFitHistory
<1>5. QED
  BY <1>1, <1>2, <1>3, <1>4 DEF Next

THEOREM Invariance == Spec => []IInv
  BY InitIInv, NextIInv, PTL DEF Spec

\* Ids, generations and the history keep their types, whatever is presented.
THEOREM TypeCorrect == Spec => []TypeOK
  BY Invariance, PTL DEF IInv

-----------------------------------------------------------------------------
(* What a handle means *)

LEMMA FaithfulFromIInv == IInv => HandlesAreFaithful
<1> SUFFICES ASSUME IInv, NEW id \in 1..(next_id - 1), NEW rights \in SUBSET Right
             PROVE  Resolves([id |-> id, generation |-> issued[id].generation], rights) <=>
                      /\ id \notin revoked
                      /\ rights = issued[id].rights
                      /\ rights \subseteq KnownRight
  BY DEF HandlesAreFaithful
<1> USE DEF IInv
<1> DEFINE handle == [id |-> id, generation |-> issued[id].generation]
<1>1. id # NoHandle /\ handle.id = id /\ handle.generation = issued[id].generation
  BY RegistryAssumption DEF NoHandle, TypeOK
<1> HIDE DEF handle
<1>2. ASSUME Resolves(handle, rights)
      PROVE  id \notin revoked /\ rights = issued[id].rights /\ rights \subseteq KnownRight
  <2>1. PICK i \in Slot : Matches(i, handle) /\ records[i].rights = rights
    BY <1>2 DEF Resolves, IsFirstMatch
  <2>2. records[i].id = id /\ ~records[i].revoked
    BY <1>1, <2>1 DEF Matches
  <2>3. records[i].rights = issued[id].rights /\ id \notin revoked
    BY <1>1, <2>2 DEF SlotsFitHistory
  <2>4. QED
    BY <1>2, <2>1, <2>3 DEF Resolves
<1>3. ASSUME id \notin revoked, rights = issued[id].rights, rights \subseteq KnownRight
      PROVE  Resolves(handle, rights)
  <2>1. PICK i \in Slot : records[i].id = id
    BY <1>3 DEF SlotsFitHistory
  <2>2. /\ ~records[i].revoked /\ records[i].rights = rights
        /\ records[i].generation = handle.generation
    BY <1>1, <1>3, <2>1 DEF SlotsFitHistory
  <2>3. Matches(i, handle)
    BY <1>1, <2>1, <2>2 DEF Matches
  <2>4. \A j \in Slot : Matches(j, handle) => i = j
    BY <1>1, <2>1 DEF Matches, SlotsFitHistory
  <2>5. i <= i
    BY RegistryAssumption DEF Slot
  <2>6. IsFirstMatch(i, handle)
    BY <2>3, <2>4, <2>5 DEF IsFirstMatch
  <2>7. QED
    BY <1>1, <1>3, <2>2, <2>6 DEF Resolves
<1>4. QED
  BY <1>2, <1>3 DEF handle

(***************************************************************************)
(* No reuse of a slot and no wraparound of the generation counter revives  *)
(* a revoked handle or changes what a live one means.                      *)
(***************************************************************************)
THEOREM HandlesStayFaithful == Spec => []HandlesAreFaithful
  BY Invariance, FaithfulFromIInv, PTL

LEMMA IssueAttenuates ==
  ASSUME IInv, OnlyAttenuated, NEW rights \in SUBSET Right, NEW parent \in 0..IdMax,
         IssueTo(rights, parent),
         parent # NoHandle =>
           /\ parent \in 1..(next_id - 1)
           /\ rights \subseteq issued[parent].rights \cap KnownRight
  PROVE  OnlyAttenuated'
<1>1. /\ \A id \in 1..(next_id - 1) : issued'[id] = issued[id]
      /\ issued'[next_id] = [rights |-> rights, generation |-> next_generation,
                             parent |-> parent]
      /\ next_id' = next_id + 1
  BY IssueToStep
<1>2. next_id \in Nat /\ 1 <= next_id
  BY RegistryAssumption DEF IInv, TypeOK
<1>3. ASSUME NEW id \in 1..(next_id' - 1), issued'[id].parent # NoHandle
      PROVE  /\ issued'[id].parent < id
             /\ issued'[id].rights \subseteq issued'[issued'[id].parent].rights \cap KnownRight
  <2>1. CASE id = next_id
    <3>1. issued'[id].parent = parent /\ issued'[id].rights = rights
      BY <1>1, <2>1
    <3>2. parent \in 1..(next_id - 1) /\ rights \subseteq issued[parent].rights \cap KnownRight
      BY <1>3, <3>1
    <3>3. issued'[parent] = issued[parent] /\ parent < id
      BY <1>1, <1>2, <2>1, <3>2
    <3>4. QED
      BY <3>1, <3>2, <3>3
  <2>2. CASE id # next_id
    <3>1. id \in 1..(next_id - 1)
      BY <1>1, <1>2, <2>2
    <3>2. issued'[id] = issued[id]
      BY <1>1, <3>1
    <3> DEFINE up == issued[id].parent
    <3>3. up < id /\ issued[id].rights \subseteq issued[up].rights \cap KnownRight
      BY <1>3, <3>1, <3>2 DEF OnlyAttenuated
    <3>4. up \in 0..IdMax /\ up # NoHandle
      BY <1>3, <3>1, <3>2 DEF IInv, TypeOK, Issue
    <3>5. up \in 1..(next_id - 1)
      BY <1>2, <3>1, <3>3, <3>4, RegistryAssumption DEF NoHandle
    <3>6. issued'[up] = issued[up]
      BY <1>1, <3>5
    <3>7. QED
      BY <3>2, <3>3, <3>6
  <2>3. QED
    BY <2>1, <2>2
<1>4. QED
  BY <1>3 DEF OnlyAttenuated

LEMMA NextAttenuates ==
  ASSUME IInv, OnlyAttenuated, [Next]_vars
  PROVE  OnlyAttenuated'
<1>1. ASSUME NEW rights \in SUBSET Right, IssueRoot(rights)
      PROVE  OnlyAttenuated'
  <2>1. IssueTo(rights, NoHandle) /\ NoHandle \in 0..IdMax
    BY <1>1, RegistryAssumption DEF IssueRoot, NoHandle
  <2>2. QED
    BY <2>1, IssueAttenuates
<1>2. ASSUME NEW handle \in Handle, NEW requested \in SUBSET Right,
             Derive(handle, requested)
      PROVE  OnlyAttenuated'
  <2>1. PICK rights \in SUBSET Right :
          /\ Resolves(handle, rights) /\ requested \subseteq rights
          /\ IssueTo(requested, handle.id)
    BY <1>2 DEF Derive
  <2>2. PICK i \in Slot : Matches(i, handle) /\ records[i].rights = rights
    BY <2>1 DEF Resolves, IsFirstMatch
  <2>3. handle.id # NoHandle /\ rights \subseteq KnownRight
    BY <2>1 DEF Resolves
  <2>4. handle.id \in 1..(next_id - 1) /\ issued[handle.id].rights = rights
    BY <2>2, <2>3 DEF Matches, IInv, SlotsFitHistory
  <2>5. handle.id \in 0..IdMax
    BY DEF Handle
  <2>6. QED
    BY <2>1, <2>3, <2>4, <2>5, IssueAttenuates
<1>3. ASSUME NEW handle \in Handle, Revoke(handle)
      PROVE  OnlyAttenuated'
  BY <1>3 DEF Revoke, OnlyAttenuated
<1>4. CASE UNCHANGED vars
  BY <1>4 DEF vars, OnlyAttenuated
<1>5. QED
  BY <1>1, <1>2, <1>3, <1>4 DEF Next

(***************************************************************************)
(* Whatever is issued, derived and revoked, and in which order, a derived  *)
(* handle never holds a right that the one it came from did not.           *)
(***************************************************************************)
THEOREM AuthorityOnlyAttenuates == Spec => []OnlyAttenuated
<1>1. Init => OnlyAttenuated
  BY DEF Init, OnlyAttenuated
<1>2. IInv /\ OnlyAttenuated /\ [Next]_vars => OnlyAttenuated'
  BY NextAttenuates
<1>3. QED
  BY <1>1, <1>2, Invariance, PTL DEF Spec

-----------------------------------------------------------------------------
(* The registry implements a table of grants *)

Unrevoked == (1..(next_id - 1)) \ revoked

GrantsFitHistory == Grants = [id \in Unrevoked |-> issued[id].rights]

\* The slots hold neither more nor less than the history says is live.
LEMMA GrantsAreIssued == IInv => GrantsFitHistory
<1> SUFFICES ASSUME IInv PROVE Grants = [id \in Unrevoked |-> issued[id].rights]
  BY DEF GrantsFitHistory
<1>1. ASSUME NEW i \in LiveRecords
      PROVE  /\ records[i].id \in Unrevoked
             /\ records[i].rights = issued[records[i].id].rights
  BY <1>1 DEF LiveRecords, Unrevoked, IInv, SlotsFitHistory
<1>2. ASSUME NEW id \in Unrevoked
      PROVE  \E i \in LiveRecords : records[i].id = id
  <2>1. id \in 1..(next_id - 1) /\ id \notin revoked
    BY DEF Unrevoked
  <2>2. id # NoHandle
    BY <2>1 DEF NoHandle
  <2>3. PICK i \in Slot : records[i].id = id
    BY <2>1 DEF IInv, SlotsFitHistory
  <2>4. ~records[i].revoked
    BY <2>1, <2>2, <2>3 DEF IInv, SlotsFitHistory
  <2>5. QED
    BY <2>3, <2>4 DEF LiveRecords
<1>3. {records[i].id : i \in LiveRecords} = Unrevoked
  BY <1>1, <1>2
<1>4. ASSUME NEW id \in Unrevoked
      PROVE  records[CHOOSE i \in LiveRecords : records[i].id = id].rights = issued[id].rights
  <2> DEFINE i == CHOOSE j \in LiveRecords : records[j].id = id
  <2>1. i \in LiveRecords /\ records[i].id = id
    BY <1>2
  <2> HIDE DEF i
  <2>2. records[i].rights = issued[id].rights
    BY <1>1, <2>1
  <2>3. QED
    BY <2>2 DEF i
<1>5. QED
  BY <1>3, <1>4 DEF Grants

LEMMA GrantsStayIssued == IInv' => GrantsFitHistory'
  BY GrantsAreIssued, PTL

\* Issuing adds the new id to the table and touches no other grant.
LEMMA IssueGrants ==
  ASSUME IInv, NEW rights \in SUBSET Right, NEW parent \in 0..IdMax, IssueTo(rights, parent)
  PROVE  Promise!Grant(rights)
<1> DEFINE handle == [rights |-> rights, generation |-> next_generation, parent |-> parent]
<1>1. /\ IInv' /\ next_id' = next_id + 1
      /\ \A id \in 1..(next_id - 1) : issued'[id] = issued[id]
      /\ issued'[next_id].rights = rights
  <2>1. /\ IInv' /\ next_id' = next_id + 1
        /\ \A id \in 1..(next_id - 1) : issued'[id] = issued[id]
        /\ issued'[next_id] = handle
    BY IssueToStep
  <2>2. handle.rights = rights
    OBVIOUS
  <2> HIDE DEF handle
  <2>3. QED
    BY <2>1, <2>2
<1>2. revoked' = revoked
  BY DEF IssueTo
<1>3. Grants = [id \in Unrevoked |-> issued[id].rights]
  BY GrantsAreIssued DEF GrantsFitHistory
<1>4. Grants' = [id \in Unrevoked' |-> issued'[id].rights]
  BY <1>1, GrantsStayIssued DEF GrantsFitHistory
<1>5. next_id \in Nat /\ 1 <= next_id /\ revoked \subseteq 1..(next_id - 1)
  BY RegistryAssumption DEF IInv, TypeOK
<1>6. /\ Unrevoked' = Unrevoked \cup {next_id}
      /\ \A id \in Unrevoked : id # next_id /\ issued'[id].rights = issued[id].rights
  BY <1>1, <1>2, <1>5 DEF Unrevoked
<1>7. DOMAIN Grants = Unrevoked
  BY <1>3
<1>8. Grants' = [id \in DOMAIN Grants \cup {next_id} |->
                   IF id = next_id THEN rights ELSE Grants[id]]
  BY <1>1, <1>3, <1>4, <1>6, <1>7
<1>9. QED
  BY <1>1, <1>8 DEF Promise!Grant

\* What a handle resolves to is what the table grants under its id.
LEMMA ResolvedIsGranted ==
  ASSUME IInv, NEW handle \in Handle, NEW i \in Slot, Matches(i, handle),
         handle.id # NoHandle
  PROVE  handle.id \in DOMAIN Grants /\ Grants[handle.id] = records[i].rights
<1>1. /\ handle.id \in Unrevoked
      /\ records[i].rights = issued[handle.id].rights
  BY DEF Matches, Unrevoked, IInv, SlotsFitHistory
<1>2. QED
  BY <1>1, GrantsAreIssued DEF GrantsFitHistory

LEMMA DeriveAttenuates ==
  ASSUME IInv, NEW handle \in Handle, NEW requested \in SUBSET Right,
         Derive(handle, requested)
  PROVE  Promise!Attenuate(handle.id, requested)
<1>1. PICK rights \in SUBSET Right :
        /\ Resolves(handle, rights) /\ requested \subseteq rights
        /\ IssueTo(requested, handle.id)
  BY DEF Derive
<1>2. PICK i \in Slot : Matches(i, handle) /\ records[i].rights = rights
  BY <1>1 DEF Resolves, IsFirstMatch
<1>3. handle.id # NoHandle /\ rights \subseteq KnownRight
  BY <1>1 DEF Resolves
<1>4. handle.id \in DOMAIN Grants /\ Grants[handle.id] = rights
  BY <1>2, <1>3, ResolvedIsGranted
<1>5. handle.id \in 0..IdMax
  BY DEF Handle
<1>6. Promise!Grant(requested)
  BY <1>1, <1>5, IssueGrants
<1>7. QED
  BY <1>1, <1>3, <1>4, <1>6 DEF Promise!Attenuate

\* Revoking takes the grant under the handle's id out of the table, and no other.
LEMMA RevokeRemoves ==
  ASSUME IInv, NEW handle \in Handle, Revoke(handle)
  PROVE  Promise!Revoke(handle.id)
<1>1. PICK i \in Slot : Matches(i, handle)
  BY DEF Revoke, IsFirstMatch
<1>2. handle.id # NoHandle
  BY <1>1 DEF Matches, IInv, SlotsFitHistory
<1>3. handle.id \in DOMAIN Grants
  BY <1>1, <1>2, ResolvedIsGranted
<1>4. Grants = [id \in Unrevoked |-> issued[id].rights]
  BY GrantsAreIssued DEF GrantsFitHistory
<1>5. Grants' = [id \in Unrevoked' |-> issued'[id].rights]
  BY RevokeStep, GrantsStayIssued DEF GrantsFitHistory
<1>6. /\ revoked' = revoked \cup {handle.id}
      /\ next_id' = next_id /\ issued' = issued
  BY DEF Revoke
<1>7. Unrevoked' = Unrevoked \ {handle.id}
  BY <1>6 DEF Unrevoked
<1>8. DOMAIN Grants = Unrevoked
  BY <1>4
<1>9. Grants' = [other \in DOMAIN Grants \ {handle.id} |-> Grants[other]]
  BY <1>4, <1>5, <1>6, <1>7, <1>8
<1>10. QED
  BY <1>3, <1>6, <1>9 DEF Promise!Revoke

(***************************************************************************)
(* Slots that are reused, generations that come round and handles that     *)
(* anybody can make up add nothing to, and lose nothing of, a table of     *)
(* live grants with identities that are never given twice.                 *)
(***************************************************************************)
THEOREM RegistryIsAuthority == Spec => ImplementsAuthority
<1>1. Init => Promise!Init
  <2> SUFFICES ASSUME Init PROVE Promise!Init
    OBVIOUS
  <2>1. LiveRecords = {} /\ next_id = 1
    BY DEF Init, LiveRecords, EmptyRecord
  <2>2. {records[i].id : i \in LiveRecords} = {}
    BY <2>1
  <2>3. Grants = [id \in {} |-> {}]
    BY <2>2 DEF Grants
  <2>4. QED
    BY <2>1, <2>3 DEF Promise!Init
<1>2. IInv /\ [Next]_vars => [Promise!Next]_(Promise!vars)
  <2> SUFFICES ASSUME IInv, [Next]_vars PROVE [Promise!Next]_(Promise!vars)
    OBVIOUS
  <2>1. ASSUME NEW rights \in SUBSET Right, IssueRoot(rights)
        PROVE  Promise!Next
    <3>1. IssueTo(rights, NoHandle) /\ NoHandle \in 0..IdMax
      BY <2>1, RegistryAssumption DEF IssueRoot, NoHandle
    <3>2. Promise!Grant(rights)
      BY <3>1, IssueGrants
    <3>3. QED
      BY <3>2 DEF Promise!Next
  <2>2. ASSUME NEW handle \in Handle, NEW requested \in SUBSET Right,
               Derive(handle, requested)
        PROVE  Promise!Next
    <3>1. Promise!Attenuate(handle.id, requested)
      BY <2>2, DeriveAttenuates
    <3>2. handle.id \in DOMAIN Grants
      BY <3>1 DEF Promise!Attenuate
    <3>3. QED
      BY <3>1, <3>2 DEF Promise!Next
  <2>3. ASSUME NEW handle \in Handle, Revoke(handle)
        PROVE  Promise!Next
    <3>1. Promise!Revoke(handle.id)
      BY <2>3, RevokeRemoves
    <3>2. handle.id \in DOMAIN Grants
      BY <3>1 DEF Promise!Revoke
    <3>3. QED
      BY <3>1, <3>2 DEF Promise!Next
  <2>4. CASE UNCHANGED vars
    BY <2>4 DEF vars, Promise!vars, Grants, LiveRecords
  <2>5. QED
    BY <2>1, <2>2, <2>3, <2>4 DEF Next
<1>3. QED
  BY <1>1, <1>2, Invariance, PTL DEF Spec, ImplementsAuthority, Promise!Spec

=============================================================================
