----------------------------- MODULE ExtraTests -----------------------------
(***************************************************************************)
(* The discrete parts of src/src/extratests.c: the sample of the collision *)
(* test with decimation, the counters of the block frequency test, and the *)
(* lattice of the Ising model with its two ways to flip spins.             *)
(***************************************************************************)
EXTENDS CoreTests, BagsExt

CONSTANTS
    ctr_max,         \* 10^8: tries to find one value
    BlockBits        \* 8: bits of a byte of the block frequency test

ASSUME ExtraTestsAssumption == {ctr_max, BlockBits} \subseteq Nat \ {0}

(***************************************************************************)
(* Options of the collision test: 2^log2_len values of nbits_per_value     *)
(* bits, of which e bits are fixed.                                        *)
(***************************************************************************)
Collover64Options(nbits, log2_len, log2_lambda) ==
    LET nbits_per_value == IF nbits = 32 THEN 64 ELSE nbits
        a == nbits_per_value + log2_lambda + 1
        b == 2 * log2_len
    IN  [nbits_per_value |-> nbits_per_value, log2_len |-> log2_len,
         e |-> IF a >= b THEN a - b ELSE 0]

\* The binary logarithm of calc_lambda.
Log2Lambda(o) == 2 * o.log2_len - (o.nbits_per_value - o.e + 1)

\* Mutant: the square is not made odd.
Step5Even(x) == x + x * x

\* x * x | 5: the bits 0 and 2 of a square, which has no bit 1.
Square5(x) == LET y == x * x
              IN  y + (IF y % 2 = 0 THEN 1 ELSE 0) + (IF (y \div 4) % 2 = 0 THEN 4 ELSE 0)
Step5(x)   == x + Square5(x)

\* The next value of the fixed bits.
UpdateMvalue(e, mvalue) == (IF e > 4 THEN Step5(mvalue) ELSE mvalue + 1) % 2^e

\* The 64-bit value of try k: two outputs of a 32-bit generator, the lower
\* half first.
TryValue(s, wide, k) ==
    IF wide THEN At(s, k) ELSE At(s, 2 * k) + 2^OutBits * At(s, 2 * k + 1)

(***************************************************************************)
(* The tries for one value begin at k and end with the first that has the  *)
(* fixed bits, or with the last one, which counts as none even if it has   *)
(* them.                                                                   *)
(***************************************************************************)
GenTrvalue(s, wide, e, mvalue, k) ==
    LET Found(c) == TryValue(s, wide, k + c - 1) % 2^e = mvalue
        ctr == CHOOSE c \in 1 .. ctr_max :
                    /\ Found(c) \/ c = ctr_max
                    /\ \A d \in 1 .. c - 1 : ~Found(d)
    IN  [u |-> TryValue(s, wide, k + ctr - 1), k |-> k + ctr, is_ok |-> ctr < ctr_max]

\* Mutant: the try that found a value is used for the next one again.
AfterTryAgain(got) == got.k - 1

\* Where the tries for the next value begin.
AfterTry(got) == got.k

\* The sample of n values from try k on; it is given up with the first
\* value that is not found.
RECURSIVE Collect(_, _, _, _, _, _)
Collect(s, wide, e, mvalue, n, k) ==
    IF n = 0 THEN [x |-> <<>>, is_ok |-> TRUE]
    ELSE LET got == GenTrvalue(s, wide, e, mvalue, k)
         IN  IF ~got.is_ok THEN [x |-> <<>>, is_ok |-> FALSE]
             ELSE LET rest == Collect(s, wide, e, mvalue, n - 1, AfterTry(got))
                  IN  [rest EXCEPT !.x = <<got.u>> \o @]

\* calc_ndups
CollisionNdups(x, wild) ==
    EqualNeighbours(RadixsortInplace([i \in 0 .. Len(x) - 1 |-> x[i + 1]], wild))

-----------------------------------------------------------------------------
(***************************************************************************)
(* BlockFrequency_count: the bytes of nbytes-byte words, and their pairs.  *)
(***************************************************************************)
ChunkFrequency(us, bits, nchunks) ==
    [c \in 0 .. 2^bits - 1 |->
        Cardinality({<<k, i>> \in (DOMAIN us) \X (0 .. nchunks - 1) :
                        (us[k] \div 2^(bits * i)) % 2^bits = c})]

BlockFrequency(us, nbytes) ==
    [bytefreq |-> ChunkFrequency(us, BlockBits, nbytes),
     w16freq  |-> ChunkFrequency(us, 2 * BlockBits, nbytes \div 2)]

-----------------------------------------------------------------------------
(***************************************************************************)
(* The lattice of L x L spins is a function to {-1, 1} on 0 .. L * L - 1;  *)
(* the neighbours are at the right, left, below and above, on a torus.     *)
(***************************************************************************)
Cells(L)    == 0 .. L * L - 1
Lattices(L) == [Cells(L) -> {-1, 1}]

inc_modL(i, L) == (i + 1) % L
dec_modL(i, L) == IF i > 0 THEN i - 1 ELSE L - 1

\* Mutant: the row above the first one is the first one.
NeighboursNoWrap(L) ==
    [i \in Cells(L) |->
        LET ix == i % L  iy == i \div L
        IN  <<iy * L + inc_modL(ix, L), iy * L + dec_modL(ix, L),
              inc_modL(iy, L) * L + ix, (IF iy > 0 THEN iy - 1 ELSE 0) * L + ix>>]

Neighbours(L) ==
    [i \in Cells(L) |->
        LET ix == i % L  iy == i \div L
        IN  <<iy * L + inc_modL(ix, L), iy * L + dec_modL(ix, L),
              inc_modL(iy, L) * L + ix, dec_modL(iy, L) * L + ix>>]

\* calc_energy looks to the right and below.
Energy(L, s) ==
    LET nn == Neighbours(L)
        Bond(i, j) == IF s[i] = s[j] THEN 1 ELSE -1
    IN  MapThenSumSet(LAMBDA i : Bond(i, nn[i][1]) + Bond(i, nn[i][3]), Cells(L))

(***************************************************************************)
(* The Wolff algorithm from the cell ind, as a bag: how often each lattice *)
(* comes out if all draws occur equally often.  A spin is flipped before   *)
(* its neighbours are visited one after the other; a neighbour with the    *)
(* spin s0 of the first cell follows in two draws of three, where the code *)
(* has 1 - exp(-2 j).  Draws for other neighbours change nothing.          *)
(***************************************************************************)
\* Mutant: the draws that should not be followed are.
DrawsSwapped == 1

\* How many of three draws make a neighbour follow.
FollowingDraws == 2

RECURSIVE FlipWolff(_, _, _, _, _)
RECURSIVE Visit(_, _, _, _, _)
FlipWolff(L, s, ind, s0, weight) ==
    Visit(L, ind, s0, 1, [s EXCEPT ![ind] = -s0] :> weight)

Visit(L, ind, s0, i, bag) ==
    IF i > 4 THEN bag
    ELSE LET cell == Neighbours(L)[ind][i]
             third(s) == bag[s] \div 3
             From(s) == IF s[cell] # s0 THEN s :> bag[s]
                        ELSE (s :> (3 - FollowingDraws) * third(s))
                             (+) FlipWolff(L, s, cell, s0, FollowingDraws * third(s))
         IN  Visit(L, ind, s0, i + 1,
                   FoldSet(LAMBDA s, sum : sum (+) From(s), EmptyBag, DOMAIN bag))

(***************************************************************************)
(* One trial of the Metropolis algorithm: the chance to flip cell i, in    *)
(* units of 3^-4.  For two equal neighbours the code converts 2^nbits to   *)
(* uint64_t, which has no defined result for a 64-bit generator: `wild'.   *)
(***************************************************************************)
\* Mutant: the exponent for four equal neighbours is that for three.
FlipChanceFlat(n_same, wild) ==
    IF n_same < 2 THEN 81 ELSE IF n_same = 2 THEN wild ELSE 9

FlipChance(n_same, wild) ==
    CASE n_same < 2 -> 81
      [] n_same = 2 -> wild
      [] OTHER      -> 3^(4 - 2 * (n_same - 2))

Metropolis(L, s, i, wild) ==
    LET n_same == Cardinality({j \in 1 .. 4 : s[Neighbours(L)[i][j]] = s[i]})
    IN  FlipChance(n_same, wild)

=============================================================================
