------------------------------ MODULE CoreTests ------------------------------
(***************************************************************************)
(* The counting parts of the tests in src/src/coretests.c, but for the gap *)
(* tests: what each test makes of the outputs of a generator before        *)
(* statistics begins.  The options of a test are the record o, with the    *)
(* fields of the code.                                                     *)
(***************************************************************************)
EXTENDS Sorting, GapTests, SequencesExt

CONSTANTS
    Warmup           \* the 8 outputs drawn before the first overlapping tuple

ASSUME CoreTestsAssumption == Warmup \in Nat

\* The bits of output u that a test over several dimensions takes.
Coordinate(o, u) ==
    IF o.get_lower THEN u % 2^o.nbits_per_dim
    ELSE u \div 2^(OutBits - o.nbits_per_dim)

-----------------------------------------------------------------------------
(***************************************************************************)
(* Birthday spacings: points from ndims outputs each, sorted, differences, *)
(* sorted again; equal neighbours are counted.                             *)
(***************************************************************************)
BspacePoint(o, s, j) ==
    FoldLeft(LAMBDA acc, k : acc * 2^o.nbits_per_dim
                           + Coordinate(o, At(s, j * o.ndims + k)),
             0, [k \in 1 .. o.ndims |-> k - 1])

BspacePoints(o, s, len) == [j \in 0 .. len - 1 |-> BspacePoint(o, s, j)]

Spacings(x) == [i \in 0 .. Length(x) - 2 |-> x[i + 1] - x[i]]

\* Mutant: the second sort is missing.
UnsortedSpacings(x, wild) == Spacings(Fastsort32(x, wild))

\* The two sorts of bspace_get_ndups.
SortedSpacings(x, wild) == Fastsort32(Spacings(Fastsort32(x, wild)), wild)

EqualNeighbours(x) ==
    Cardinality({i \in 0 .. Length(x) - 2 : x[i] = x[i + 1]})

Ndups(x, wild) == EqualNeighbours(SortedSpacings(x, wild))

-----------------------------------------------------------------------------
(***************************************************************************)
(* CollisionOver: overlapping tuples; every output becomes the most        *)
(* significant of ndims digits.  Warmup outputs are shifted in before the  *)
(* first tuple is stored, whatever ndims is.                               *)
(***************************************************************************)
ShiftIn(o, tuple, u) ==
    tuple \div 2^o.nbits_per_dim
  + Coordinate(o, u) * 2^((o.ndims - 1) * o.nbits_per_dim)

OverlappingTuples(o, s, len) ==
    LET after[k \in 0 .. Warmup + len] ==
            IF k = 0 THEN 0 ELSE ShiftIn(o, after[k - 1], At(s, k - 1))
    IN  [i \in 0 .. len - 1 |-> after[Warmup + i + 1]]

\* Mutant: a run is counted by its copies.
RunClassCopies(ncopies) == IF ncopies < 3 THEN ncopies ELSE 3

\* Where a run of equal tuples with so many copies is counted.
RunClass(ncopies) == IF ncopies < 3 THEN ncopies + 1 ELSE 3

(***************************************************************************)
(* The frequencies of cells that hold 0, 1, 2, and 3 or more points.  A    *)
(* run is counted when the next one begins.                                *)
(***************************************************************************)
CollisionOver(o, s, len, wild) ==
    LET u == Fastsort64(OverlappingTuples(o, s, len), wild)
        Oi0 == [c \in 0 .. 3 |-> IF c = 0 THEN 2^(o.ndims * o.nbits_per_dim) ELSE 0]
        after[j \in 0 .. len - 1] ==
            IF j = 0 THEN [Oi |-> Oi0, ncopies |-> 0]
            ELSE LET b == after[j - 1]
                 IN  IF u[j - 1] = u[j] THEN [b EXCEPT !.ncopies = @ + 1]
                     ELSE [Oi |-> [b.Oi EXCEPT ![RunClass(b.ncopies)] = @ + 1,
                                               ![0] = @ - 1],
                           ncopies |-> 0]
    IN  after[len - 1].Oi

-----------------------------------------------------------------------------
(***************************************************************************)
(* SumCollector: how many outputs add up to no more than sum_max.  The     *)
(* output that would exceed it is dropped and the next sum begins with a   *)
(* new one.                                                                *)
(***************************************************************************)
SumCollector(sum_max, nmax, s, nvalues) ==
    LET after[i \in 0 .. nvalues] ==
            IF i = 0 THEN [Oi |-> [y \in 0 .. nmax |-> 0], sum |-> 0, y |-> 0, k |-> 0]
            ELSE LET b == after[i - 1]
                     u == At(s, b.k)
                     y == IF b.y > nmax THEN nmax ELSE b.y
                 IN  IF u + b.sum <= sum_max
                     THEN [b EXCEPT !.sum = @ + u, !.y = @ + 1, !.k = @ + 1]
                     ELSE [Oi |-> [b.Oi EXCEPT ![y] = @ + 1],
                           sum |-> At(s, b.k + 1), y |-> 1, k |-> b.k + 2]
    IN  [Oi |-> after[nvalues].Oi, drawn |-> after[nvalues].k]

(***************************************************************************)
(* mod3: overlapping tuples of base 3, after a tuple has been filled.      *)
(***************************************************************************)
\* Mutant: without the remainder.
Mod3WithoutRemainder(tuple, u, len) == (tuple * 3 + u) % 3^len

Mod3UpdateTuple(tuple, u, len) == (tuple * 3 + (u % 3)) % 3^len

Mod3(len, s, nvalues) ==
    LET tuple[i \in 0 .. len + nvalues] ==
            IF i = 0 THEN 0 ELSE Mod3UpdateTuple(tuple[i - 1], At(s, i - 1), len)
    IN  [t \in 0 .. 3^len - 1 |->
            Cardinality({i \in len .. len + nvalues - 1 : tuple[i] = t})]

(***************************************************************************)
(* MaxOfT: the bin of the greatest of t outputs, among nbins and one.      *)
(***************************************************************************)
MaxOfTBin(t, nbins, u_max) == (u_max^t * nbins) \div (2^OutBits)^t

MaxOfT(t, nbins, s, ntuples) ==
    LET u_max(i) == Max({At(s, i * t + j) : j \in 0 .. t - 1})
    IN  [b \in 0 .. nbins |->
            Cardinality({i \in 0 .. ntuples - 1 : MaxOfTBin(t, nbins, u_max(i)) = b})]

(***************************************************************************)
(* monobit: every byte counts its ones less half its bits.                 *)
(***************************************************************************)
Ones(u) == Cardinality({i \in 0 .. OutBits - 1 : (u \div 2^i) % 2 = 1})

Bitsum(s, len) ==
    FoldLeft(LAMBDA acc, i : acc + Ones(At(s, i)) - OutBits \div 2, 0,
             [i \in 1 .. len |-> i - 1])

(***************************************************************************)
(* nbit_words_freq: words of a block, as many from an output as fit.       *)
(***************************************************************************)
NBitWords(bits, average_freq, s) ==
    LET nwords_per_num == OutBits \div bits
        block_len      == (2^bits * average_freq) \div nwords_per_num
    IN  [w \in 0 .. 2^bits - 1 |->
            Cardinality({<<i, j>> \in (0 .. block_len - 1) \X (0 .. nwords_per_num - 1) :
                            (At(s, i) \div 2^(bits * j)) % 2^bits = w})]

=============================================================================
