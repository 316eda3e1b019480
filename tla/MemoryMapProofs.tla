--------------------------- MODULE MemoryMapProofs ---------------------------
(***************************************************************************)
(* The boot map never gives a byte to two regions, for any number of       *)
(* regions and any width of an address.                                    *)
(***************************************************************************)
EXTENDS MemoryMap, FiniteSetTheorems, TLAPS

IInv == TypeOK /\ RegionsDisjoint

\* MemoryRegion::new accepts only ranges with a last byte.
LEMMA RegionType ==
  ASSUME NEW region \in Region, IsRegion(region)
  PROVE  /\ region.start \in Nat /\ region.len \in Nat /\ region.len # 0
         /\ End(region) = region.start + region.len /\ End(region) \in Address
  BY MapAssumption DEF Region, IsRegion, End, Address

\* The test of push on end points is the test for a common byte.
LEMMA OverlapIsSharing ==
  ASSUME NEW s1 \in Nat, NEW l1 \in Nat, NEW s2 \in Nat, NEW l2 \in Nat,
         ~(s1 < s2 + l2 /\ s2 < s1 + l1)
  PROVE  Bytes(s1, l1) \cap Bytes(s2, l2) = {}
  <1> SUFFICES ASSUME NEW b \in Bytes(s1, l1), b \in Bytes(s2, l2)
               PROVE  FALSE
    OBVIOUS
  <1>1. b \in Int /\ s1 <= b /\ b <= s1 + l1 - 1 /\ s2 <= b /\ b <= s2 + l2 - 1
    BY DEF Bytes
  <1> QED BY <1>1

-----------------------------------------------------------------------------

LEMMA InitIInv == Init => IInv
  BY MapAssumption DEF Init, IInv, TypeOK, RegionsDisjoint

LEMMA PushStep ==
  ASSUME IInv, NEW region \in Region, IsRegion(region), Push(region)
  PROVE  IInv'
  <1> DEFINE n == Len(regions)
  <1>1. /\ regions \in Seq(Region) /\ n \in Nat /\ n < MaxRegions
        /\ MaxRegions \in Nat /\ DOMAIN regions = 1..n
        /\ \A i \in 1..n : regions[i] \in Region
    BY MapAssumption DEF IInv, TypeOK, Push
  <1>2. /\ regions' \in Seq(Region) /\ Len(regions') = n + 1
        /\ DOMAIN regions' = 1..(n + 1)
        /\ \A i \in 1..n : regions'[i] = regions[i]
        /\ regions'[n + 1] = region
    BY <1>1 DEF Push
  <1>3. \A i \in 1..(n + 1) : i \in 1..n \/ i = n + 1
    BY <1>1
  <1>4. TypeOK'
    <2>1. \A i \in 1..n : regions[i].len # 0 /\ End(regions[i]) \in Address
      BY <1>1 DEF IInv, TypeOK
    <2>2. region.len # 0 /\ End(region) \in Address
      BY RegionType
    <2>3. ASSUME NEW i \in 1..(n + 1)
          PROVE  regions'[i].len # 0 /\ End(regions'[i]) \in Address
      BY <1>2, <1>3, <2>1, <2>2
    <2> QED BY <1>1, <1>2, <2>3 DEF TypeOK, End, Address
  <1>5. ASSUME NEW i \in 1..n
        PROVE  Bytes(regions[i].start, regions[i].len)
                 \cap Bytes(region.start, region.len) = {}
    <2> DEFINE old == regions[i]
    <2>1. /\ old.start \in Nat /\ old.len \in Nat
      BY <1>1 DEF Region, Address
    <2>2. region.start \in Nat /\ region.len \in Nat
      BY RegionType
    <2>3. ~(old.start < region.start + region.len /\ region.start < old.start + old.len)
      BY <1>1 DEF Push, Overlaps, End
    <2> QED BY <2>1, <2>2, <2>3, OverlapIsSharing
  <1>6. RegionsDisjoint'
    <2> SUFFICES ASSUME NEW i \in 1..(n + 1), NEW j \in 1..(n + 1), i # j
                 PROVE  Bytes(regions'[i].start, regions'[i].len)
                          \cap Bytes(regions'[j].start, regions'[j].len) = {}
      BY <1>2 DEF RegionsDisjoint, Bytes
    <2>1. CASE i \in 1..n /\ j \in 1..n
      BY <1>1, <1>2, <2>1 DEF IInv, RegionsDisjoint
    <2>2. CASE i \in 1..n /\ j = n + 1
      BY <1>2, <1>5, <2>2
    <2>3. CASE i = n + 1 /\ j \in 1..n
      BY <1>2, <1>5, <2>3
    <2> QED BY <1>3, <2>1, <2>2, <2>3
  <1> QED BY <1>4, <1>6 DEF IInv

LEMMA NextIInv == IInv /\ [Next]_regions => IInv'
  <1>1. ASSUME IInv, UNCHANGED regions PROVE IInv'
    BY <1>1 DEF IInv, TypeOK, RegionsDisjoint, End, Bytes, Address
  <1> QED BY <1>1, PushStep DEF Next

THEOREM Invariance == Spec => []IInv
  BY InitIInv, NextIInv, PTL DEF Spec

\* The map's regions keep their type: MemoryRegion::end never overflows.
THEOREM TypeCorrect == Spec => []TypeOK
  BY Invariance, PTL DEF IInv

\* push keeps the regions of the boot map disjoint.
THEOREM MapIsDisjoint == Spec => []RegionsDisjoint
  BY Invariance, PTL DEF IInv

-----------------------------------------------------------------------------
(* find_containing *)

\* A non-empty range lies in a region exactly when contains_range says so.
LEMMA ContainsIsInclusion ==
  ASSUME NEW region \in Region, region.len # 0, End(region) \in Address,
         NEW start \in Address, NEW len \in Address \ {0}
  PROVE  ContainsRange(region, start, len) <=>
           Bytes(start, len) \subseteq Bytes(region.start, region.len)
  <1>1. /\ start \in Nat /\ len \in Nat /\ len # 0 /\ U64Max \in Nat
        /\ region.start \in Nat /\ region.len \in Nat
        /\ region.start + region.len <= U64Max
    BY MapAssumption DEF Region, Address, End
  <1>2. ASSUME ContainsRange(region, start, len), NEW b \in Bytes(start, len)
        PROVE  b \in Bytes(region.start, region.len)
    BY <1>1, <1>2 DEF ContainsRange, Bytes, End
  <1>3. ASSUME Bytes(start, len) \subseteq Bytes(region.start, region.len)
        PROVE  ContainsRange(region, start, len)
    <2>1. start \in Bytes(start, len) /\ start + len - 1 \in Bytes(start, len)
      BY <1>1 DEF Bytes
    <2>2. start >= region.start /\ start + len - 1 <= region.start + region.len - 1
      BY <1>1, <1>3, <2>1 DEF Bytes
    <2> QED BY <1>1, <2>2 DEF ContainsRange, End
  <1> QED BY <1>2, <1>3

\* A range that is found is found in one region only.
LEMMA FoundOnce ==
  ASSUME IInv, NEW start \in Address, NEW len \in Address \ {0},
         NEW i \in DOMAIN regions, NEW j \in DOMAIN regions,
         Bytes(start, len) \subseteq Bytes(regions[i].start, regions[i].len),
         Bytes(start, len) \subseteq Bytes(regions[j].start, regions[j].len)
  PROVE  i = j
  <1>1. start \in Bytes(start, len)
    BY DEF Bytes, Address
  <1> QED BY <1>1 DEF IInv, RegionsDisjoint

LEMMA FindInvariant == IInv => FindIsExact
  <1> SUFFICES ASSUME IInv, NEW start \in Address, NEW len \in Address \ {0},
                      NEW i \in DOMAIN regions
               PROVE  FindContaining(start, len) = i <=>
                        Bytes(start, len) \subseteq Bytes(regions[i].start, regions[i].len)
    BY DEF FindIsExact
  <1> DEFINE found == {k \in DOMAIN regions : ContainsRange(regions[k], start, len)}
  <1>1. DOMAIN regions \subseteq Nat \ {0}
    BY DEF IInv, TypeOK
  <1>2. ASSUME NEW k \in DOMAIN regions
        PROVE  k \in found <=>
                 Bytes(start, len) \subseteq Bytes(regions[k].start, regions[k].len)
    <2>1. regions[k] \in Region /\ regions[k].len # 0 /\ End(regions[k]) \in Address
      BY DEF IInv, TypeOK
    <2> QED BY <2>1, ContainsIsInclusion
  <1>3. \A j, k \in found : j = k
    BY <1>2, FoundOnce
  <1>4. FindContaining(start, len) = IF found = {} THEN 0 ELSE Min(found)
    BY DEF FindContaining
  <1>5. ASSUME NEW k \in found PROVE Min(found) = k
    <2>1. \A y \in found : k <= y
      BY <1>1, <1>3
    <2> HIDE DEF found
    <2> QED BY <1>3, <2>1 DEF Min
  <1> HIDE DEF found
  <1>6. CASE i \in found
    BY <1>2, <1>4, <1>5, <1>6
  <1>7. CASE i \notin found
    <2>1. CASE found = {}
      BY <1>1, <1>2, <1>4, <1>7, <2>1
    <2>2. CASE found # {}
      <3>1. PICK k \in found : TRUE
        BY <2>2
      <3>2. FindContaining(start, len) = k /\ k # i
        BY <1>4, <1>5, <1>7, <2>2, <3>1
      <3> QED BY <1>2, <1>7, <3>2
    <2> QED BY <2>1, <2>2
  <1> QED BY <1>6, <1>7

\* find_containing finds a range exactly when one region holds all its bytes.
THEOREM FindIsRight == Spec => []FindIsExact
  BY FindInvariant, Invariance, PTL

-----------------------------------------------------------------------------
(* total_by_kind *)

\* The bytes of the regions with these indexes.
BytesIn(indexes) ==
  UNION {Bytes(regions[i].start, regions[i].len) : i \in indexes}

LEMMA BytesOfRegion ==
  ASSUME IInv, NEW i \in DOMAIN regions
  PROVE  /\ regions[i].len \in Nat
         /\ Bytes(regions[i].start, regions[i].len) \subseteq 0..(U64Max - 1)
         /\ IsFiniteSet(Bytes(regions[i].start, regions[i].len))
         /\ Cardinality(Bytes(regions[i].start, regions[i].len)) = regions[i].len
  <1> DEFINE start == regions[i].start
             len == regions[i].len
  <1>1. regions[i] \in Region /\ len # 0 /\ End(regions[i]) \in Address
    BY DEF IInv, TypeOK
  <1>2. start \in Nat /\ len \in Nat /\ start + len <= U64Max /\ U64Max \in Nat
    BY <1>1, MapAssumption DEF Region, Address, End
  <1> HIDE DEF start, len
  <1>3. /\ IsFiniteSet(start..(start + len - 1))
        /\ Cardinality(start..(start + len - 1)) =
             IF start > start + len - 1 THEN 0 ELSE (start + len - 1) - start + 1
    BY <1>2, FS_Interval
  <1>4. Cardinality(start..(start + len - 1)) = len
    BY <1>2, <1>3
  <1>5. start..(start + len - 1) \subseteq 0..(U64Max - 1)
    BY <1>2
  <1> QED BY <1>2, <1>3, <1>4, <1>5 DEF Bytes, start, len

LEMMA BytesAreFinite ==
  ASSUME IInv, NEW indexes \in SUBSET DOMAIN regions
  PROVE  /\ IsFiniteSet(BytesIn(indexes))
         /\ Cardinality(BytesIn(indexes)) \in Nat
         /\ Cardinality(BytesIn(indexes)) <= U64Max
  <1>1. BytesIn(indexes) \subseteq 0..(U64Max - 1)
    BY BytesOfRegion DEF BytesIn
  <1>2. U64Max \in Nat \ {0}
    BY MapAssumption
  <1>3. IsFiniteSet(0..(U64Max - 1)) /\ Cardinality(0..(U64Max - 1)) = U64Max
    BY <1>2, FS_Interval
  <1> QED BY <1>1, <1>2, <1>3, FS_Subset, FS_CardinalityType

\* Regions share no byte, so one region more means that region's bytes more.
LEMMA BytesAddUp ==
  ASSUME IInv, NEW indexes \in SUBSET DOMAIN regions, NEW i \in indexes
  PROVE  Cardinality(BytesIn(indexes)) =
           regions[i].len + Cardinality(BytesIn(indexes \ {i}))
  <1> DEFINE one == Bytes(regions[i].start, regions[i].len)
             rest == BytesIn(indexes \ {i})
  <1>1. BytesIn(indexes) = one \cup rest
    BY DEF BytesIn
  <1>2. one \cap rest = {}
    BY DEF BytesIn, IInv, RegionsDisjoint
  <1>3. IsFiniteSet(one) /\ Cardinality(one) = regions[i].len /\ regions[i].len \in Nat
    BY BytesOfRegion
  <1>4. IsFiniteSet(rest) /\ Cardinality(rest) \in Nat
    BY BytesAreFinite
  <1> HIDE DEF one, rest
  <1>5. Cardinality(one \cup rest) = Cardinality(one) + Cardinality(rest) - Cardinality({})
    BY <1>2, <1>3, <1>4, FS_Union
  <1> QED BY <1>1, <1>3, <1>4, <1>5, FS_EmptySet DEF rest

\* A collection of subsets of a finite set has a smallest one.
LEMMA SmallestSubset ==
  ASSUME NEW S, IsFiniteSet(S), NEW C, C \subseteq SUBSET S, C # {}
  PROVE  \E T \in C : \A U \in C : U \subseteq T => U = T
  <1> DEFINE R == StrictSubsetOrdering(S)
  <1>1. IsWellFoundedOn(R, SUBSET S)
    BY FS_StrictSubsetOrderingWellFounded, FS_FiniteSubsetsOfFinite
  <1>2. \E T \in C : \A U \in C : ~(<<U, T>> \in R)
    <2> HIDE DEF R
    <2> QED BY <1>1, WFMin
  <1>3. ASSUME NEW T \in C, NEW U \in C, U \subseteq T, U # T
        PROVE  <<U, T>> \in R
    BY <1>3 DEF StrictSubsetOrdering
  <1> QED BY <1>2, <1>3

(***************************************************************************)
(* The fold behind total_by_kind.  That its equation has a solution is     *)
(* shown by giving one, the number of bytes; that every solution is that   *)
(* one, by taking the smallest set of indexes where they differ.           *)
(***************************************************************************)
LEMMA TotalCountsBytes ==
  ASSUME IInv, NEW kind
  PROVE  TotalByKind(kind) = Cardinality(BytesOf(kind))
  <1> DEFINE S == {i \in DOMAIN regions : regions[i].kind = kind}
             pick(s) == CHOOSE x \in s : TRUE
             IsTotal(g) == g = [s \in SUBSET S |->
                                  IF s = {} THEN 0
                                  ELSE regions[pick(s)].len + g[s \ {pick(s)}]]
             total == CHOOSE g : IsTotal(g)
             bytes == [s \in SUBSET S |-> Cardinality(BytesIn(s))]
  <1>1. TotalByKind(kind) = total[S]
    BY DEF TotalByKind, MapThenSumSet, MapThenFoldSet
  <1>2. ASSUME NEW s \in SUBSET S
        PROVE  bytes[s] = IF s = {} THEN 0
                          ELSE regions[pick(s)].len + bytes[s \ {pick(s)}]
    <2>1. CASE s = {}
      BY <2>1, FS_EmptySet DEF BytesIn
    <2>2. CASE s # {}
      <3>1. pick(s) \in s
        BY <2>2
      <3> HIDE DEF pick
      <3>2. Cardinality(BytesIn(s)) =
              regions[pick(s)].len + Cardinality(BytesIn(s \ {pick(s)}))
        BY <3>1, BytesAddUp
      <3> QED BY <2>2, <3>2
    <2> QED BY <2>1, <2>2
  <1>3. IsTotal(bytes)
    <2> HIDE DEF pick
    <2> QED BY <1>2, Zenon
  <1>4. IsTotal(total)
    <2> HIDE DEF IsTotal, bytes
    <2> QED BY <1>3, Zenon
  <1>5. ASSUME NEW s \in SUBSET S
        PROVE  total[s] = IF s = {} THEN 0
                          ELSE regions[pick(s)].len + total[s \ {pick(s)}]
    <2> HIDE DEF total, pick
    <2> QED BY <1>4, Zenon
  <1> DEFINE wrong == {s \in SUBSET S : total[s] # bytes[s]}
  <1> HIDE DEF total, bytes
  <1>6. wrong = {}
    <2> SUFFICES ASSUME wrong # {} PROVE FALSE
      OBVIOUS
    <2>1. IsFiniteSet(S)
      <3>1. Len(regions) \in Nat /\ DOMAIN regions = 1..Len(regions)
        BY DEF IInv, TypeOK
      <3>2. IsFiniteSet(1..Len(regions)) /\ S \in SUBSET (1..Len(regions))
        BY <3>1, FS_Interval
      <3> QED BY <3>2, FS_Subset
    <2>2. PICK s \in wrong : \A u \in wrong : u \subseteq s => u = s
      <3> HIDE DEF S
      <3>1. wrong \subseteq SUBSET S
        OBVIOUS
      <3> HIDE DEF wrong
      <3> QED BY <2>1, <3>1, SmallestSubset
    <2>3. s \in SUBSET S /\ total[s] # bytes[s]
      OBVIOUS
    <2>4. s # {}
      BY <1>2, <1>5, <2>3
    <2>5. pick(s) \in s
      BY <2>4
    <2> HIDE DEF pick
    <2>6. s \ {pick(s)} \in SUBSET S /\ s \ {pick(s)} # s
      BY <2>3, <2>5
    <2>7. total[s \ {pick(s)}] = bytes[s \ {pick(s)}]
      BY <2>2, <2>6
    <2> QED BY <1>2, <1>5, <2>3, <2>4, <2>7
  <1>7. total[S] = bytes[S]
    BY <1>6
  <1>8. bytes[S] = Cardinality(BytesIn(S)) /\ BytesIn(S) = BytesOf(kind)
    BY DEF bytes, BytesIn, BytesOf
  <1> QED BY <1>1, <1>7, <1>8

LEMMA TotalsInvariant == IInv => TotalsAreBytes
  <1> SUFFICES ASSUME IInv, NEW kind \in Kind
               PROVE  /\ TotalByKind(kind) = Cardinality(BytesOf(kind))
                      /\ TotalByKind(kind) <= U64Max
    BY DEF TotalsAreBytes
  <1> DEFINE indexes == {i \in DOMAIN regions : regions[i].kind = kind}
  <1>1. BytesOf(kind) = BytesIn(indexes) /\ indexes \in SUBSET DOMAIN regions
    BY DEF BytesOf, BytesIn
  <1> HIDE DEF indexes
  <1> QED BY <1>1, TotalCountsBytes, BytesAreFinite

\* total_by_kind counts every byte of a kind once and never overflows.
THEOREM TotalsAreRight == Spec => []TotalsAreBytes
  BY TotalsInvariant, Invariance, PTL
=============================================================================
