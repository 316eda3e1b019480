----------------------------- MODULE MemoryMap -----------------------------
(***************************************************************************)
(* The boot memory map of src/src/memory.rs: a bounded, append-only list   *)
(* of regions.  A region's fields are public and push checks no more than  *)
(* overlap; the model assumes regions made by MemoryRegion::new.  A        *)
(* region's permissions are stored and never read by the map.  Refused     *)
(* calls change nothing and are stuttering steps.                          *)
(***************************************************************************)
EXTENDS Integers, Sequences, FiniteSetsExt

CONSTANTS
  MaxRegions,   \* MAX_MEMORY_REGIONS
  U64Max,       \* largest address or length (u64)
  Kind          \* MemoryRegionKind

ASSUME MapAssumption ==
  /\ MaxRegions \in Nat \ {0}
  /\ U64Max \in Nat \ {0}

VARIABLE regions   \* the active regions, in the order they were added

Address == 0..U64Max
Region == [start : Address, len : Address, kind : Kind]

\* Fault: an addition that wraps instead of one that is checked.
IsRegion_Wraps(region) == region.len # 0

\* MemoryRegion::new accepts the range: it is not empty and does not wrap.
IsRegion(region) == region.len # 0 /\ region.start + region.len <= U64Max

End(region) == region.start + region.len

\* Fault: regions that share a start are let through.
Overlaps_Strict(r1, r2) ==
  \/ r1.start < r2.start /\ r2.start < End(r1)
  \/ r2.start < r1.start /\ r1.start < End(r2)

Overlaps(r1, r2) == r1.start < End(r2) /\ r2.start < End(r1)

\* Fault: only the first byte of the range is looked for.
ContainsRange_Start(region, start, len) ==
  start + len <= U64Max /\ start >= region.start /\ start < End(region)

ContainsRange(region, start, len) ==
  /\ start + len <= U64Max
  /\ start >= region.start
  /\ start + len <= End(region)

\* The index find_containing stops at, 0 when it returns None.
FindContaining(start, len) ==
  LET found == {i \in DOMAIN regions : ContainsRange(regions[i], start, len)}
  IN  IF found = {} THEN 0 ELSE Min(found)

\* The mathematical sum; the code adds u64 values.
TotalByKind(kind) ==
  MapThenSumSet(LAMBDA i : regions[i].len,
                {i \in DOMAIN regions : regions[i].kind = kind})

-----------------------------------------------------------------------------

Init == regions = << >>

Push(region) ==
  /\ Len(regions) < MaxRegions
  /\ \A i \in DOMAIN regions : ~Overlaps(regions[i], region)
  /\ regions' = Append(regions, region)

Next == \E region \in Region : IsRegion(region) /\ Push(region)

Spec == Init /\ [][Next]_regions

-----------------------------------------------------------------------------

\* Every region is one that MemoryRegion::new builds, so MemoryRegion::end never
\* overflows, and the list fits the array.
TypeOK ==
  /\ Len(regions) <= MaxRegions
  /\ regions \in Seq(Region)
  /\ \A i \in DOMAIN regions : regions[i].len # 0 /\ End(regions[i]) \in Address

\* The bytes of a range, and of all regions of a kind.
Bytes(start, len) == start..(start + len - 1)
BytesOf(kind) ==
  UNION {Bytes(regions[i].start, regions[i].len) :
           i \in {j \in DOMAIN regions : regions[j].kind = kind}}

(***************************************************************************)
(* No byte of memory belongs to two regions, so none has two kinds: the    *)
(* overlap test of push on the end points is right for regions that touch, *)
(* nest or reach the end of the address space.                             *)
(***************************************************************************)
RegionsDisjoint ==
  \A i, j \in DOMAIN regions :
    i # j => Bytes(regions[i].start, regions[i].len)
               \cap Bytes(regions[j].start, regions[j].len) = {}

(***************************************************************************)
(* find_containing answers "the first region", and there is never a choice *)
(* to make: it finds a non-empty range exactly when all its bytes lie in   *)
(* one region, and then that one.                                          *)
(***************************************************************************)
FindIsExact ==
  \A start \in Address, len \in Address \ {0}, i \in DOMAIN regions :
    FindContaining(start, len) = i <=>
      Bytes(start, len) \subseteq Bytes(regions[i].start, regions[i].len)

(***************************************************************************)
(* total_by_kind counts every byte of a kind once and its u64 sum cannot   *)
(* overflow, with regions anywhere up to the end of the address space.     *)
(***************************************************************************)
TotalsAreBytes ==
  \A kind \in Kind : /\ TotalByKind(kind) = Cardinality(BytesOf(kind))
                     /\ TotalByKind(kind) <= U64Max
=============================================================================
