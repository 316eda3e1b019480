------------------------------ MODULE RingLog ------------------------------
(***************************************************************************)
(* The ring buffer behind AuditLog (src/src/audit.rs) and FaultReporter    *)
(* (src/src/fault.rs): an array, a cursor, a count of retained entries and *)
(* a wrapping sequence counter.  The two Rust types have the same fields   *)
(* and the same append and last; get exists in AuditLog only.              *)
(***************************************************************************)
EXTENDS Naturals, Sequences

CONSTANTS
  Size,       \* MAX_AUDIT_EVENTS, MAX_FAULT_RECORDS
  SeqSpace,   \* 2^64, the number of values of a sequence counter
  Entry,      \* what the caller records (kind, status, task, ...)
  EmptyEntry, \* the content of AuditEvent::EMPTY and FaultRecord::EMPTY
  Nothing     \* Option::None

ASSUME RingAssumption ==
  /\ Size \in Nat \ {0}
  /\ SeqSpace \in Nat \ {0, 1} /\ Size <= SeqSpace
  /\ EmptyEntry \notin Entry

VARIABLES
  events,         \* the array: index -> [sequence, entry]
  cursor,         \* the index append writes next
  count,          \* retained entries
  next_sequence   \* sequence number of the next entry

vars == <<events, cursor, count, next_sequence>>

Index == 0..(Size - 1)
Event == [sequence : 0..(SeqSpace - 1), entry : Entry \cup {EmptyEntry}]

Init ==
  /\ events = [i \in Index |-> [sequence |-> 0, entry |-> EmptyEntry]]
  /\ cursor = 0
  /\ count = 0
  /\ next_sequence = 1

\* Fault: saturating_add for wrapping_add on the sequence counter.
Append_Saturates(entry) ==
  /\ events' = [events EXCEPT ![cursor] = [sequence |-> next_sequence, entry |-> entry]]
  /\ cursor' = (cursor + 1) % Size
  /\ count' = IF count < Size THEN count + 1 ELSE count
  /\ next_sequence' = IF next_sequence + 1 < SeqSpace THEN next_sequence + 1
                                                     ELSE next_sequence

\* AuditLog::append, FaultReporter::record
AppendEvent(entry) ==
  /\ events' = [events EXCEPT ![cursor] = [sequence |-> next_sequence, entry |-> entry]]
  /\ cursor' = (cursor + 1) % Size
  /\ count' = IF count < Size THEN count + 1 ELSE count
  /\ next_sequence' = (next_sequence + 1) % SeqSpace

\* Fault: the slot before index 0 is taken to be the one at count.
Last_Unwrapped ==
  IF count = 0 THEN Nothing
  ELSE events[IF cursor = 0 THEN 0 ELSE cursor - 1]

Last ==
  IF count = 0 THEN Nothing
  ELSE events[IF cursor = 0 THEN Size - 1 ELSE cursor - 1]

\* Fault: the oldest entry is always looked for at index 0.
Get_FromZero(index) ==
  IF index >= count THEN Nothing ELSE events[index % Size]

Get(index) ==
  IF index >= count THEN Nothing
  ELSE LET oldest == IF count = Size THEN cursor ELSE 0
       IN  events[(oldest + index) % Size]

Next == \E entry \in Entry : AppendEvent(entry)

Spec == Init /\ [][Next]_vars

-----------------------------------------------------------------------------

\* Every variable has its type, and an index that was never written is not retained.
TypeOK ==
  /\ events \in [Index -> Event]
  /\ cursor \in Index
  /\ count \in 0..Size
  /\ next_sequence \in 0..(SeqSpace - 1)
  /\ \A i \in Index : i < count <=> events[i].entry \in Entry

(***************************************************************************)
(* The two ways to read the newest entry agree, with the cursor anywhere   *)
(* in the array: last() and get(len() - 1).                                *)
(***************************************************************************)
LastIsNewest == Last = IF count = 0 THEN Nothing ELSE Get(count - 1)

(***************************************************************************)
(* Retained entries carry consecutive sequence numbers, modulo 2^64, that  *)
(* end just before next_sequence, across the wraparound of the array and   *)
(* of the counter: a reader can tell how many entries it missed.  audit.rs *)
(* and fault.rs call the sequence monotonic; wrapping_add makes it so only *)
(* between two wraps, when the numbers of all retained entries grow.       *)
(***************************************************************************)
SequencesContiguous ==
  /\ \A i \in 0..(count - 1) :
       (Get(i).sequence + (count - i)) % SeqSpace = next_sequence
  /\ count <= next_sequence =>
       \A i, j \in 0..(count - 1) : i < j => Get(i).sequence < Get(j).sequence

\* What get returns for the indexes 0, 1, ..., len() - 1.
Retained == [i \in 1..count |-> Get(i - 1)]

History == INSTANCE BoundedHistory WITH retained <- Retained

\* Read through get, the ring is the list of the last Size entries recorded.
ImplementsHistory == History!Spec
==============================================================================
