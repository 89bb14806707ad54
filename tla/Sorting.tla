------------------------------- MODULE Sorting -------------------------------
(***************************************************************************)
(* The sorts of src/src/core.c: quicksort over Hoare's partition with an   *)
(* insertion sort for short ranges, the radix sort that copies (least      *)
(* significant digit first) and the radix sort in place (most significant  *)
(* digit first, the "American flag").  An array of n elements is a         *)
(* function on 0 .. n - 1.                                                 *)
(*                                                                         *)
(* The code has one instance of each for 32 and for 64 bits; here a number *)
(* has Digits digits of base Radix, and the lengths at which one method    *)
(* hands over to the next are constants.                                   *)
(***************************************************************************)
EXTENDS Integers, FiniteSets

CONSTANTS
    Radix,           \* 256 in place, 65536 for the sort that copies
    Digits,          \* digits of a number: 4 or 8 in place, 2
    RangeCutoff,     \* 12: a longer part of a range is partitioned again
    QuickCutoff,     \* 32: a longer array is partitioned at all
    FlagCutoff,      \* 128: a larger bucket is distributed again
    MaxLevel,        \* 5: no deeper level is begun from here on
    CopyLimit        \* 65536: a shorter array is sorted with a copy

ASSUME SortingAssumption ==
    /\ {Radix, Digits} \subseteq Nat \ {0}
    /\ {RangeCutoff, QuickCutoff, FlagCutoff, MaxLevel, CopyLimit} \subseteq Nat

Length(x) == Cardinality(DOMAIN x)

Swapped(x, i, j) == [x EXCEPT ![i] = x[j], ![j] = x[i]]

-----------------------------------------------------------------------------
(***************************************************************************)
(* insertsort: x[i] is moved down past every greater element before it, to *)
(* where the inner loop stops.                                             *)
(***************************************************************************)
Place(x, first, i) ==
    CHOOSE p \in first .. i : /\ \A k \in p .. i - 1 : x[k] > x[i]
                              /\ p > first => x[p - 1] <= x[i]

Inserted(x, first, i) ==
    LET p == Place(x, first, i)
    IN  [k \in DOMAIN x |-> IF k = p THEN x[i]
                            ELSE IF k \in p + 1 .. i THEN x[k - 1]
                            ELSE x[k]]

Insertsort(x, first, last) ==
    LET after[k \in 0 .. last - first] ==
            IF k = 0 THEN x ELSE Inserted(after[k - 1], first, first + k)
    IN  IF last <= first THEN x ELSE after[last - first]

(***************************************************************************)
(* The loop of quicksort_range: i and j close in on each other, two        *)
(* elements on the wrong side of the pivot change places.  Each step       *)
(* brings them closer by one at least.                                     *)
(***************************************************************************)
PartitionStep(s, pivot) ==
    IF s.i > s.j THEN s
    ELSE IF s.v[s.i] < pivot THEN [s EXCEPT !.i = @ + 1]
    ELSE IF s.v[s.j] > pivot THEN [s EXCEPT !.j = @ - 1]
    ELSE [v |-> Swapped(s.v, s.i, s.j), i |-> s.i + 1, j |-> s.j - 1]

Partition(v, first, last) ==
    LET pivot == v[(first + last) \div 2]
        after[k \in 0 .. last - first + 1] ==
            IF k = 0 THEN [v |-> v, i |-> first, j |-> last]
            ELSE PartitionStep(after[k - 1], pivot)
    IN  after[last - first + 1]

(***************************************************************************)
(* quicksort_range.  Sorter[d] is its recursion for the ranges that have   *)
(* at most d elements; both parts of a range are shorter than the range.   *)
(***************************************************************************)
Ranges(v) == {r \in [x : [DOMAIN v -> Int], first : DOMAIN v, last : DOMAIN v] :
                r.first <= r.last}

SortPart(sorter, x, first, last) ==
    IF first >= last THEN x
    ELSE IF last - first > RangeCutoff
         THEN sorter[[x |-> x, first |-> first, last |-> last]]
    ELSE Insertsort(x, first, last)

SortBothParts(sorter, r) ==
    LET split == Partition(r.x, r.first, r.last)
    IN  SortPart(sorter, SortPart(sorter, split.v, r.first, split.j), split.i, r.last)

QuicksortRange(v, first, last) ==
    LET Sorter[d \in 0 .. last - first + 1] ==
            IF d = 0 THEN [r \in Ranges(v) |-> r.x]
            ELSE [r \in Ranges(v) |-> SortBothParts(Sorter[d - 1], r)]
    IN  Sorter[last - first + 1][[x |-> v, first |-> first, last |-> last]]

\* The part of x from `first' on that has len elements.
QuicksortPart(x, first, len) ==
    IF len > QuickCutoff THEN QuicksortRange(x, first, first + len - 1)
    ELSE Insertsort(x, first, first + len - 1)

Quicksort(x) == QuicksortPart(x, 0, Length(x))

-----------------------------------------------------------------------------
RadixPower[k \in 0 .. Digits] == IF k = 0 THEN 1 ELSE Radix * RadixPower[k - 1]

Digit(u, shr) == (u \div RadixPower[shr]) % Radix

(***************************************************************************)
(* countsort32: elements go, the last one first, to the end of what is     *)
(* left of the place of their digit.                                       *)
(***************************************************************************)
Offsets(x, shr) ==
    [d \in 0 .. Radix - 1 |-> Cardinality({i \in DOMAIN x : Digit(x[i], shr) <= d})]

CountStep(s, x, shr, i) ==
    LET d == Digit(x[i], shr)
    IN  [offsets |-> [s.offsets EXCEPT ![d] = @ - 1],
         out     |-> [s.out EXCEPT ![s.offsets[d] - 1] = x[i]]]

Countsort(x, shr) ==
    LET n == Length(x)
        after[k \in 0 .. n] ==
            IF k = 0 THEN [offsets |-> Offsets(x, shr), out |-> x]
            ELSE CountStep(after[k - 1], x, shr, n - k)
    IN  after[n].out

Radixsort(x) ==
    LET after[k \in 0 .. Digits] ==
            IF k = 0 THEN x ELSE Countsort(after[k - 1], k - 1)
    IN  after[Digits]

-----------------------------------------------------------------------------
(***************************************************************************)
(* countsort_inplace.  The shift for a level below the last digit is       *)
(* negative, which C leaves undefined: `wild' is the digit that the        *)
(* processor delivers in this case.                                        *)
(***************************************************************************)
LevelDigit(u, level, wild) ==
    Digit(u, IF level < Digits THEN Digits - 1 - level ELSE wild)

\* Mutant: the scan goes on after every swap.
AdvancesAlways(pos, i) == TRUE

\* Whether the scan of bucket i goes on after a swap into bucket pos.
Advances(pos, i) == pos = i

(***************************************************************************)
(* One level on the part of x from `first' on that has len elements: lb    *)
(* and ub are the limits of the buckets; the element at j is swapped with  *)
(* the next place of its own bucket until it already stands in it.  Each   *)
(* step puts one element in its bucket or goes on to the next bucket.      *)
(***************************************************************************)
Upper(x, first, len, level, wild) ==
    [d \in 0 .. Radix - 1 |->
        first + Cardinality({k \in first .. first + len - 1 :
                                LevelDigit(x[k], level, wild) <= d})]

Lower(ub, first) == [d \in 0 .. Radix - 1 |-> IF d = 0 THEN first ELSE ub[d - 1]]

ScanStep(s, ub, level, wild) ==
    IF s.i = Radix THEN s
    ELSE IF s.j >= ub[s.i]
         THEN [s EXCEPT !.i = @ + 1,
                        !.j = IF s.i + 1 < Radix THEN s.lb[s.i + 1] ELSE @]
    ELSE LET pos == LevelDigit(s.x[s.j], level, wild)
         IN  [x  |-> Swapped(s.x, s.j, s.lb[pos]),
              lb |-> [s.lb EXCEPT ![pos] = @ + 1],
              i  |-> s.i,
              j  |-> IF Advances(pos, s.i) THEN s.j + 1 ELSE s.j]

Scan(x, first, len, level, wild) ==
    LET ub == Upper(x, first, len, level, wild)
        lb == Lower(ub, first)
        after[k \in 0 .. len + Radix] ==
            IF k = 0 THEN [x |-> x, lb |-> lb, i |-> 0, j |-> lb[0]]
            ELSE ScanStep(after[k - 1], ub, level, wild)
    IN  after[len + Radix].x

(***************************************************************************)
(* The levels.  Sorter[m] is the recursion from the level on below which m *)
(* levels, itself included, may still be begun.                            *)
(***************************************************************************)
Parts(v) == {r \in [x : [DOMAIN v -> Nat], first : Nat, len : Nat] :
                r.first + r.len <= Length(v)}

SortBucket(sorter, x, first, len, level) ==
    IF len > FlagCutoff /\ level < MaxLevel
    THEN sorter[[x |-> x, first |-> first, len |-> len]]
    ELSE QuicksortPart(x, first, len)

SortBuckets(sorter, r, level, wild) ==
    LET ub == Upper(r.x, r.first, r.len, level, wild)
        lb == Lower(ub, r.first)
        after[k \in 0 .. Radix] ==
            IF k = 0 THEN Scan(r.x, r.first, r.len, level, wild)
            ELSE SortBucket(sorter, after[k - 1], lb[k - 1], ub[k - 1] - lb[k - 1], level)
    IN  after[Radix]

CountsortInplace(x, wild) ==
    LET Sorter[m \in 0 .. MaxLevel + 1] ==
            IF m = 0 THEN [r \in Parts(x) |-> r.x]
            ELSE [r \in Parts(x) |-> SortBuckets(Sorter[m - 1], r, MaxLevel + 1 - m, wild)]
    IN  Sorter[MaxLevel + 1][[x |-> x, first |-> 0, len |-> Length(x)]]

RadixsortInplace(x, wild) ==
    IF Length(x) < FlagCutoff THEN Quicksort(x) ELSE CountsortInplace(x, wild)

(***************************************************************************)
(* fastsort32 and fastsort64.                                              *)
(***************************************************************************)
Fastsort32(x, wild) ==
    IF Length(x) < CopyLimit THEN Radixsort(x) ELSE RadixsortInplace(x, wild)
Fastsort64(x, wild) == RadixsortInplace(x, wild)

-----------------------------------------------------------------------------
IsSortedCopy(y, x) ==
    /\ \A i, j \in DOMAIN y : i < j => y[i] <= y[j]
    /\ \A u \in {x[i] : i \in DOMAIN x} :
            Cardinality({i \in DOMAIN x : x[i] = u})
          = Cardinality({i \in DOMAIN y : y[i] = u})

=============================================================================
