---------------------------- MODULE RingLogProofs ----------------------------
(***************************************************************************)
(* The ring of audit.rs and fault.rs is, for every size and every width of *)
(* the sequence counter, the list of the last Size entries recorded.       *)
(***************************************************************************)
EXTENDS RingLog, SequenceTheorems, TLAPS

-----------------------------------------------------------------------------
(* Wrapping arithmetic *)

Wrapped(k, n) == k % n

LEMMA WrapOnce ==
  ASSUME NEW n \in Nat, n # 0, NEW k \in Nat, k < n + n
  PROVE  Wrapped(k, n) = IF k < n THEN k ELSE k - n
<1>1. CASE k < n
  BY <1>1 DEF Wrapped
<1>2. CASE n <= k
  BY <1>2 DEF Wrapped
<1>3. QED
  BY <1>1, <1>2

\* The index after i.
LEMMA NextIndex ==
  ASSUME NEW i \in Index
  PROVE  /\ (i + 1) % Size = IF i = Size - 1 THEN 0 ELSE i + 1
         /\ (i + 1) % Size \in Index
<1>1. i \in Nat /\ i <= Size - 1 /\ Size \in Nat /\ Size # 0
  BY RingAssumption DEF Index
<1>2. i + 1 \in Nat /\ i + 1 < Size + Size
  BY <1>1
<1>3. Wrapped(i + 1, Size) = IF i + 1 < Size THEN i + 1 ELSE i + 1 - Size
  BY <1>1, <1>2, WrapOnce
<1>4. (i + 1) % Size = Wrapped(i + 1, Size)
  BY DEF Wrapped
<1> DEFINE next == (i + 1) % Size
<1> HIDE DEF next
<1>5. next = IF i = Size - 1 THEN 0 ELSE i + 1
  BY <1>1, <1>3, <1>4 DEF next
<1>6. next \in Index
  BY <1>1, <1>5 DEF Index
<1>7. QED
  BY <1>5, <1>6 DEF next

LEMMA NextSequence ==
  ASSUME NEW s \in 0..(SeqSpace - 1)
  PROVE  (s + 1) % SeqSpace \in 0..(SeqSpace - 1)
  BY RingAssumption

-----------------------------------------------------------------------------
(* The retained entries as a sequence *)

\* Where the i-th oldest entry is, with the cursor and count given.
Place(cur, n, i) ==
  IF n < Size THEN i - 1
  ELSE IF cur + (i - 1) < Size THEN cur + (i - 1) ELSE cur + (i - 1) - Size

RetainedOf(array, cur, n) ==
  [i \in 1..n |-> array[((IF n = Size THEN cur ELSE 0) + (i - 1)) % Size]]

LEMMA PlaceIsGet ==
  ASSUME NEW cur \in Index, NEW n \in 0..Size, NEW i \in 1..n
  PROVE  /\ ((IF n = Size THEN cur ELSE 0) + (i - 1)) % Size = Place(cur, n, i)
         /\ Place(cur, n, i) \in Index
<1> DEFINE k == (IF n = Size THEN cur ELSE 0) + (i - 1)
<1>1. /\ Size \in Nat /\ Size # 0 /\ cur \in Nat /\ cur < Size
      /\ n \in Nat /\ n <= Size /\ i \in Nat /\ 1 <= i /\ i <= n
  BY RingAssumption DEF Index
<1>2. k \in Nat /\ k < Size + Size
  BY <1>1
<1>3. Wrapped(k, Size) = IF k < Size THEN k ELSE k - Size
  <2> HIDE DEF k
  <2>1. QED
    BY <1>1, <1>2, WrapOnce
<1>4. k % Size = Wrapped(k, Size)
  BY DEF Wrapped
<1>5. Wrapped(k, Size) = Place(cur, n, i)
  BY <1>1, <1>3 DEF Place
<1>6. Place(cur, n, i) \in Index
  BY <1>1 DEF Place, Index
<1>7. QED
  BY <1>4, <1>5, <1>6

LEMMA RetainedSeq ==
  ASSUME NEW array \in [Index -> Event], NEW cur \in Index, NEW n \in 0..Size
  PROVE  LET list == RetainedOf(array, cur, n)
         IN  /\ list \in Seq(Event) /\ Len(list) = n
             /\ \A i \in 1..n : list[i] = array[Place(cur, n, i)]
<1> DEFINE list == RetainedOf(array, cur, n)
<1>1. n \in Nat
  BY RingAssumption
<1>2. \A i \in 1..n : list[i] = array[Place(cur, n, i)] /\ list[i] \in Event
  BY PlaceIsGet DEF RetainedOf
<1>3. list \in [1..n -> Event]
  BY <1>2 DEF RetainedOf
<1>4. list \in Seq(Event) /\ Len(list) = n
  BY <1>1, <1>3, SeqDef
<1>5. QED
  BY <1>2, <1>4

-----------------------------------------------------------------------------
(* The inductive invariant *)

(***************************************************************************)
(* TypeOK needs to know where the entries are: until the array is full the *)
(* cursor and the count move together.                                     *)
(***************************************************************************)
IInv == TypeOK /\ (count < Size => cursor = count)

LEMMA InitIInv == Init => IInv
  BY RingAssumption DEF Init, IInv, TypeOK, Event, Index

LEMMA AppendIInv ==
  ASSUME IInv, NEW entry \in Entry, AppendEvent(entry)
  PROVE  IInv'
<1>1. /\ Size \in Nat \ {0} /\ cursor \in Nat /\ cursor < Size
      /\ count \in Nat /\ count <= Size
  BY RingAssumption DEF IInv, TypeOK, Index
<1>2. /\ cursor' = IF cursor = Size - 1 THEN 0 ELSE cursor + 1
      /\ cursor' \in Index
  BY NextIndex DEF AppendEvent, IInv, TypeOK
<1>3. count' = IF count < Size THEN count + 1 ELSE count
  BY DEF AppendEvent
<1>4. next_sequence' \in 0..(SeqSpace - 1)
  BY NextSequence DEF AppendEvent, IInv, TypeOK
<1>5. events' = [events EXCEPT ![cursor] = [sequence |-> next_sequence, entry |-> entry]]
  BY DEF AppendEvent
<1>6. events' \in [Index -> Event]
  BY <1>5 DEF IInv, TypeOK, Event
<1>7. count' < Size => cursor' = count'
  BY <1>1, <1>2, <1>3 DEF IInv
<1>8. \A i \in Index : i < count' <=> events'[i].entry \in Entry
  <2>1. \A i \in Index : events'[i].entry = IF i = cursor THEN entry ELSE events[i].entry
    BY <1>5 DEF IInv, TypeOK
  <2>2. \A i \in Index : i \in Nat /\ i < Size
    BY RingAssumption DEF Index
  <2>3. QED
    BY <1>1, <1>3, <2>1, <2>2 DEF IInv, TypeOK
<1>9. count' \in 0..Size
  BY <1>1, <1>3
<1>10. QED
  BY <1>2, <1>4, <1>6, <1>7, <1>8, <1>9 DEF IInv, TypeOK

LEMMA NextIInv == IInv /\ [Next]_vars => IInv'
  BY AppendIInv DEF Next, vars, IInv, TypeOK

THEOREM Invariance == Spec => []IInv
  BY InitIInv, NextIInv, PTL DEF Spec

\* Indexes stay inside the array, and exactly the written ones are retained.
THEOREM TypeCorrect == Spec => []TypeOK
  BY Invariance, PTL DEF IInv

-----------------------------------------------------------------------------
(* The ring implements the bounded history *)

\* What reading an array through get gives, written out as Retained has it.
LEMMA ReadThroughGet ==
  ASSUME NEW array, NEW cur, NEW n \in Nat
  PROVE  [i \in 1..n |->
            IF i - 1 >= n THEN Nothing
            ELSE LET oldest == IF n = Size THEN cur ELSE 0
                 IN  array[(oldest + (i - 1)) % Size]]
         = RetainedOf(array, cur, n)
<1>1. \A i \in 1..n : ~(i - 1 >= n)
  OBVIOUS
<1>2. QED
  BY <1>1, Zenon DEF RetainedOf

LEMMA RetainedIsOf ==
  ASSUME IInv, IInv'
  PROVE  /\ Retained = RetainedOf(events, cursor, count)
         /\ Retained' = RetainedOf(events', cursor', count')
<1>1. count \in Nat /\ count' \in Nat
  BY RingAssumption DEF IInv, TypeOK
<1>2. QED
  BY <1>1, ReadThroughGet DEF Retained, Get

\* The ring's newest entry is the one before the cursor.
LEMMA LastPlace ==
  ASSUME NEW cur \in Index, NEW n \in 1..Size, n < Size => cur = n
  PROVE  Place(cur, n, n) = IF cur = 0 THEN Size - 1 ELSE cur - 1
<1>1. Size \in Nat /\ cur \in Nat /\ cur < Size /\ n \in Nat /\ 1 <= n /\ n <= Size
  BY RingAssumption DEF Index
<1>2. QED
  BY <1>1 DEF Place

\* Recording moves every kept entry one place towards the front, or none at all.
LEMMA PlaceMoves ==
  ASSUME IInv, NEW entry \in Entry, AppendEvent(entry), NEW i \in 1..count'
  PROVE  /\ i = count' => Place(cursor', count', i) = cursor
         /\ i # count' =>
              LET old == IF count < Size THEN i ELSE i + 1
              IN  /\ old \in 1..count
                  /\ Place(cursor', count', i) = Place(cursor, count, old)
                  /\ Place(cursor, count, old) # cursor
<1>1. /\ Size \in Nat /\ Size # 0 /\ cursor \in Nat /\ cursor < Size
      /\ count \in Nat /\ count <= Size /\ (count < Size => cursor = count)
  BY RingAssumption DEF IInv, TypeOK, Index
<1>2. /\ cursor' = IF cursor = Size - 1 THEN 0 ELSE cursor + 1
      /\ count' = IF count < Size THEN count + 1 ELSE count
  BY NextIndex DEF AppendEvent, IInv, TypeOK
<1>3. i \in Nat /\ 1 <= i /\ i <= count'
  BY <1>1, <1>2
<1>4. CASE count < Size
  BY <1>1, <1>2, <1>3, <1>4 DEF Place
<1>5. CASE count = Size
  BY <1>1, <1>2, <1>3, <1>5 DEF Place
<1>6. QED
  BY <1>1, <1>4, <1>5

LEMMA RecordStep ==
  ASSUME IInv, IInv', NEW entry \in Entry, AppendEvent(entry)
  PROVE  History!Record(entry)
<1> DEFINE event == [sequence |-> next_sequence, entry |-> entry]
           old == RetainedOf(events, cursor, count)
           new == RetainedOf(events', cursor', count')
           numbered == Append(old, event)
           kept == IF Len(old) < Size THEN numbered ELSE Tail(numbered)
<1>1. /\ Size \in Nat /\ Size # 0 /\ count \in Nat /\ count <= Size
      /\ count' = IF count < Size THEN count + 1 ELSE count
  BY RingAssumption DEF AppendEvent, IInv, TypeOK
<1>2. /\ events \in [Index -> Event] /\ cursor \in Index /\ count \in 0..Size
      /\ events' \in [Index -> Event] /\ cursor' \in Index /\ count' \in 0..Size
      /\ events' = [events EXCEPT ![cursor] = event]
  BY DEF IInv, TypeOK, AppendEvent
<1>3. event \in Event
  BY DEF Event, IInv, TypeOK
<1>4. /\ old \in Seq(Event) /\ Len(old) = count
      /\ \A i \in 1..count : old[i] = events[Place(cursor, count, i)]
  BY <1>2, RetainedSeq
<1>5. /\ new \in Seq(Event) /\ Len(new) = count'
      /\ \A i \in 1..count' : new[i] = events'[Place(cursor', count', i)]
  <2>1. /\ events' \in [Index -> Event] /\ cursor' \in Index /\ count' \in 0..Size
    BY <1>2
  <2>2. QED
    BY <2>1, RetainedSeq
<1> HIDE DEF event, old, new
<1>6. /\ numbered \in Seq(Event) /\ numbered # << >> /\ Len(numbered) = count + 1
      /\ \A i \in 1..count : numbered[i] = old[i]
      /\ numbered[count + 1] = event
  BY <1>3, <1>4, AppendProperties
<1> HIDE DEF numbered
<1>7. \A i \in 1..count' :
        new[i] = IF i = count' THEN event ELSE old[IF count < Size THEN i ELSE i + 1]
  <2> TAKE i \in 1..count'
  <2>1. CASE i = count'
    <3>1. Place(cursor', count', i) = cursor
      BY <2>1, PlaceMoves
    <3>2. QED
      BY <1>2, <1>5, <2>1, <3>1
  <2>2. CASE i # count'
    <3> DEFINE j == IF count < Size THEN i ELSE i + 1
    <3>1. /\ j \in 1..count
          /\ Place(cursor', count', i) = Place(cursor, count, j)
          /\ Place(cursor, count, j) # cursor
      BY <2>2, PlaceMoves
    <3> HIDE DEF j
    <3>2. Place(cursor, count, j) \in Index
      BY <1>2, <3>1, PlaceIsGet
    <3>3. new[i] = old[j]
      BY <1>2, <1>4, <1>5, <3>1, <3>2
    <3>4. QED
      BY <2>2, <3>3 DEF j
  <2>3. QED
    BY <2>1, <2>2
<1>8. ASSUME count < Size PROVE new = kept
  <2>1. kept = numbered /\ Len(numbered) = count'
    BY <1>1, <1>4, <1>6, <1>8
  <2>2. \A i \in 1..Len(new) : new[i] = numbered[i]
    BY <1>1, <1>5, <1>6, <1>7, <1>8
  <2>3. new = numbered
    BY <1>5, <1>6, <2>1, <2>2, SeqEqual
  <2>4. QED
    BY <2>1, <2>3
<1>9. ASSUME count = Size PROVE new = kept
  <2>1. kept = Tail(numbered)
    BY <1>1, <1>4, <1>9
  <2>2. /\ Tail(numbered) \in Seq(Event) /\ Len(Tail(numbered)) = count
        /\ \A i \in 1..count : Tail(numbered)[i] = numbered[i + 1]
    BY <1>1, <1>6, HeadTailProperties
  <2>3. \A i \in 1..Len(new) : new[i] = Tail(numbered)[i]
    BY <1>1, <1>5, <1>6, <1>7, <1>9, <2>2
  <2>4. new = Tail(numbered)
    BY <1>1, <1>5, <1>9, <2>2, <2>3, SeqEqual
  <2>5. QED
    BY <2>1, <2>4
<1>10. new = kept
  BY <1>1, <1>8, <1>9
<1>11. Retained = old /\ Retained' = new
  BY RetainedIsOf DEF old, new
<1>12. next_sequence' = (next_sequence + 1) % SeqSpace
  BY DEF AppendEvent
<1>13. QED
  BY <1>10, <1>11, <1>12 DEF History!Record, numbered, event

(***************************************************************************)
(* Whatever its size, the ring read through get is the bounded history:    *)
(* no entry is lost before Size later ones, none is out of order.          *)
(***************************************************************************)
THEOREM RingIsHistory == Spec => ImplementsHistory
<1>1. Init => History!Init
  <2> SUFFICES ASSUME Init PROVE History!Init
    OBVIOUS
  <2>1. Retained = << >>
    BY DEF Init, Retained
  <2>2. next_sequence = 1 % SeqSpace
    BY RingAssumption DEF Init
  <2>3. QED
    BY <2>1, <2>2 DEF History!Init
<1>2. IInv /\ IInv' /\ [Next]_vars => [History!Next]_(History!vars)
  <2>1. CASE Next /\ IInv /\ IInv'
    BY <2>1, RecordStep DEF Next, History!Next
  <2>2. CASE UNCHANGED vars
    BY <2>2 DEF vars, History!vars, Retained, Get
  <2>3. QED
    BY <2>1, <2>2
<1>3. QED
  BY <1>1, <1>2, Invariance, PTL DEF Spec, ImplementsHistory, History!Spec

\* last and get agree on which entry is the newest.
THEOREM NewestAgrees == Spec => []LastIsNewest
<1>1. IInv => LastIsNewest
  <2> SUFFICES ASSUME IInv, count # 0 PROVE Last = Get(count - 1)
    BY DEF LastIsNewest, Last
  <2>1. /\ cursor \in Index /\ count \in 1..Size /\ (count < Size => cursor = count)
        /\ count \in 0..Size /\ count \in Nat /\ ~(count - 1 >= count)
    BY RingAssumption DEF IInv, TypeOK
  <2>2. Get(count - 1) = events[((IF count = Size THEN cursor ELSE 0) + (count - 1)) % Size]
    BY <2>1, Zenon DEF Get
  <2>3. count \in 1..count
    BY <2>1
  <2>4. Get(count - 1) = events[Place(cursor, count, count)]
    BY <2>1, <2>2, <2>3, PlaceIsGet
  <2>5. QED
    BY <2>1, <2>4, LastPlace DEF Last
<1>2. QED
  BY <1>1, Invariance, PTL

-----------------------------------------------------------------------------
(* Sequence numbers *)

(***************************************************************************)
(* The contiguity of sequence numbers, with places for get: the distance   *)
(* of the i-th oldest entry to the next one to be recorded is the number   *)
(* of entries from it to the newest.                                       *)
(***************************************************************************)
Contiguous ==
  \A i \in 1..count :
    Wrapped(events[Place(cursor, count, i)].sequence + (count + 1 - i), SeqSpace)
      = next_sequence

\* Numbers no further apart than the ring is long wrap around once at most.
LEMMA OneFurther ==
  ASSUME NEW s \in 0..(SeqSpace - 1), NEW d \in 0..(Size - 1)
  PROVE  Wrapped(s + (d + 1), SeqSpace) = Wrapped(Wrapped(s + d, SeqSpace) + 1, SeqSpace)
<1>1. /\ SeqSpace \in Nat /\ SeqSpace # 0 /\ SeqSpace >= 2 /\ Size \in Nat
      /\ Size <= SeqSpace /\ s \in Nat /\ s < SeqSpace /\ d \in Nat /\ d < Size
  BY RingAssumption
<1> DEFINE near == Wrapped(s + d, SeqSpace)
<1>2. near = IF s + d < SeqSpace THEN s + d ELSE s + d - SeqSpace
  BY <1>1, WrapOnce
<1>3. Wrapped(s + (d + 1), SeqSpace)
        = IF s + (d + 1) < SeqSpace THEN s + (d + 1) ELSE s + (d + 1) - SeqSpace
  BY <1>1, WrapOnce
<1> HIDE DEF near
<1>4. near \in Nat /\ near + 1 < SeqSpace + SeqSpace
  BY <1>1, <1>2
<1>5. Wrapped(near + 1, SeqSpace)
        = IF near + 1 < SeqSpace THEN near + 1 ELSE near + 1 - SeqSpace
  BY <1>1, <1>4, WrapOnce
<1>6. Wrapped(s + (d + 1), SeqSpace) = Wrapped(near + 1, SeqSpace)
  BY <1>1, <1>2, <1>3, <1>5
<1>7. QED
  BY <1>6 DEF near

LEMMA AppendContiguous ==
  ASSUME IInv, Contiguous, NEW entry \in Entry, AppendEvent(entry)
  PROVE  Contiguous'
<1> DEFINE event == [sequence |-> next_sequence, entry |-> entry]
<1>1. /\ Size \in Nat /\ Size # 0 /\ count \in Nat /\ count <= Size
      /\ count' = IF count < Size THEN count + 1 ELSE count
      /\ count \in 0..Size /\ count' \in 0..Size /\ cursor \in Index
  BY RingAssumption DEF AppendEvent, IInv, TypeOK
<1>2. /\ events \in [Index -> Event]
      /\ events' = [events EXCEPT ![cursor] = event]
      /\ next_sequence \in 0..(SeqSpace - 1)
  BY DEF IInv, TypeOK, AppendEvent
<1>3. next_sequence' = Wrapped(next_sequence + 1, SeqSpace)
  BY DEF AppendEvent, Wrapped
<1>4. /\ events'[cursor].sequence = next_sequence
      /\ \A k \in Index : k # cursor => events'[k] = events[k]
  BY <1>1, <1>2
<1> HIDE DEF event
<1>5. ASSUME NEW i \in 1..count'
      PROVE  Wrapped(events'[Place(cursor', count', i)].sequence + (count' + 1 - i),
                     SeqSpace) = next_sequence'
  <2>1. CASE i = count'
    <3>1. Place(cursor', count', i) = cursor
      BY <2>1, PlaceMoves
    <3>2. count' + 1 - i = 1
      BY <1>1, <2>1
    <3>3. QED
      BY <1>3, <1>4, <3>1, <3>2
  <2>2. CASE i # count'
    <3> DEFINE j == IF count < Size THEN i ELSE i + 1
               s == events[Place(cursor, count, j)].sequence
               d == count + 1 - j
    <3>1. /\ j \in 1..count
          /\ Place(cursor', count', i) = Place(cursor, count, j)
          /\ Place(cursor, count, j) # cursor
      BY <2>2, PlaceMoves
    <3>2. count' + 1 - i = d + 1
      BY <1>1
    <3> HIDE DEF j
    <3>3. Place(cursor, count, j) \in Index
      BY <1>1, <3>1, PlaceIsGet
    <3>4. s \in 0..(SeqSpace - 1) /\ events'[Place(cursor', count', i)].sequence = s
      BY <1>2, <1>4, <3>1, <3>3 DEF Event
    <3>5. Wrapped(s + d, SeqSpace) = next_sequence
      BY <3>1 DEF Contiguous
    <3>6. d \in 0..Size /\ d >= 1
      BY <1>1, <3>1
    <3>7. count = Size => j # 1
      BY <1>1, <2>2 DEF j
    <3>8. d \in 0..(Size - 1)
      BY <1>1, <3>1, <3>6, <3>7
    <3> HIDE DEF s, d
    <3>9. Wrapped(s + (d + 1), SeqSpace) = next_sequence'
      BY <1>3, <3>4, <3>5, <3>8, OneFurther
    <3>10. QED
      BY <3>2, <3>4, <3>9
  <2>3. QED
    BY <2>1, <2>2
<1>6. QED
  BY <1>5 DEF Contiguous

\* Retained entries carry consecutive sequence numbers up to the next one, wherever
\* the array and the counter wrap around; they grow unless the counter has wrapped since
\* the oldest of them was recorded.
THEOREM NumbersAreContiguous == Spec => []SequencesContiguous
<1>1. Init => Contiguous
  BY DEF Init, Contiguous
<1>2. IInv /\ Contiguous /\ [Next]_vars => Contiguous'
  <2> SUFFICES ASSUME IInv, Contiguous, [Next]_vars PROVE Contiguous'
    OBVIOUS
  <2>1. CASE Next
    BY <2>1, AppendContiguous DEF Next
  <2>2. CASE UNCHANGED vars
    BY <2>2 DEF vars, Contiguous
  <2>3. QED
    BY <2>1, <2>2
<1>3. ASSUME IInv, Contiguous, NEW i \in 0..(count - 1)
      PROVE  /\ Wrapped(Get(i).sequence + (count - i), SeqSpace) = next_sequence
             /\ Get(i).sequence \in 0..(SeqSpace - 1)
  <2> USE <1>3
  <2>1. /\ count \in Nat /\ count \in 0..Size /\ cursor \in Index /\ Size \in Nat
    BY RingAssumption DEF IInv, TypeOK
  <2>2. i \in Nat /\ i < count /\ ~(i >= count) /\ i + 1 \in 1..count
        /\ (i + 1) - 1 = i /\ count + 1 - (i + 1) = count - i
    BY <2>1
  <2>3. Get(i) = events[((IF count = Size THEN cursor ELSE 0) + i) % Size]
    BY <2>2, Zenon DEF Get
  <2>4. Get(i) = events[Place(cursor, count, i + 1)]
    <3>1. ((IF count = Size THEN cursor ELSE 0) + ((i + 1) - 1)) % Size
            = Place(cursor, count, i + 1)
      BY <2>1, <2>2, PlaceIsGet
    <3>2. QED
      BY <2>2, <2>3, <3>1
  <2>5. Wrapped(Get(i).sequence + (count - i), SeqSpace) = next_sequence
    BY <2>2, <2>4 DEF Contiguous
  <2>6. Place(cursor, count, i + 1) \in Index
    BY <2>1, <2>2, PlaceIsGet
  <2>7. QED
    BY <2>4, <2>5, <2>6 DEF IInv, TypeOK, Event
\* Where the counter has not wrapped since the entry was recorded, the number is the
\* next one less the entries from it to the newest.
<1>4. ASSUME IInv, Contiguous, NEW i \in 0..(count - 1), count <= next_sequence
      PROVE  Get(i).sequence = next_sequence - (count - i)
  <2> DEFINE s == Get(i).sequence
             d == count - i
  <2>1. /\ s \in 0..(SeqSpace - 1) /\ Wrapped(s + d, SeqSpace) = next_sequence
    BY <1>3, <1>4
  <2>2. /\ SeqSpace \in Nat /\ SeqSpace # 0 /\ count \in Nat /\ count <= SeqSpace
        /\ next_sequence \in Nat /\ count <= next_sequence
    BY <1>4, RingAssumption DEF IInv, TypeOK
  <2>3. d \in Nat /\ d >= 1 /\ d <= count
    BY <2>2
  <2> HIDE DEF s, d
  <2>4. Wrapped(s + d, SeqSpace) = IF s + d < SeqSpace THEN s + d ELSE s + d - SeqSpace
    BY <2>1, <2>2, <2>3, WrapOnce
  <2>5. s = next_sequence - d
    BY <2>1, <2>2, <2>3, <2>4
  <2>6. QED
    BY <2>5 DEF s, d
<1>5. ASSUME IInv, Contiguous PROVE SequencesContiguous
  <2>1. ASSUME NEW i \in 0..(count - 1)
        PROVE  (Get(i).sequence + (count - i)) % SeqSpace = next_sequence
    BY <1>3, <1>5 DEF Wrapped
  <2>2. ASSUME count <= next_sequence,
               NEW i \in 0..(count - 1), NEW j \in 0..(count - 1), i < j
        PROVE  Get(i).sequence < Get(j).sequence
    <3>1. /\ Get(i).sequence = next_sequence - (count - i)
          /\ Get(j).sequence = next_sequence - (count - j)
      BY <1>4, <1>5, <2>2
    <3>2. count \in Nat /\ next_sequence \in Nat
      BY <1>5, RingAssumption DEF IInv, TypeOK
    <3>3. QED
      BY <2>2, <3>1, <3>2
  <2>3. QED
    BY <2>1, <2>2 DEF SequencesContiguous
<1>6. QED
  BY <1>1, <1>2, <1>5, Invariance, PTL DEF Spec
==============================================================================
