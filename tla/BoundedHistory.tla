--------------------------- MODULE BoundedHistory ---------------------------
(***************************************************************************)
(* What a diagnostic log promises its readers: the last Size entries that  *)
(* were recorded, oldest first, each with the number it was given when it  *)
(* was recorded.  Nothing is said about how they are stored.               *)
(***************************************************************************)
EXTENDS Naturals, Sequences

CONSTANTS
  Size,       \* entries kept
  SeqSpace,   \* sequence numbers wrap around at this value
  Entry       \* what can be recorded

VARIABLES
  retained,       \* the kept entries, numbered, oldest first
  next_sequence   \* the number the next entry will get

vars == <<retained, next_sequence>>

Init ==
  /\ retained = << >>
  /\ next_sequence = 1 % SeqSpace

Record(entry) ==
  LET numbered == Append(retained, [sequence |-> next_sequence, entry |-> entry])
  IN  /\ retained' = IF Len(retained) < Size THEN numbered ELSE Tail(numbered)
      /\ next_sequence' = (next_sequence + 1) % SeqSpace

Next == \E entry \in Entry : Record(entry)

Spec == Init /\ [][Next]_vars
==============================================================================
