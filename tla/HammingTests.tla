----------------------------- MODULE HammingTests -----------------------------
(***************************************************************************)
(* The tests of src/src/hwtests.c, up to the statistics: how the output of *)
(* a generator is cut into bytes, words and blocks, how overlapping tuples *)
(* are counted, and how rare tuples are merged into bins.                  *)
(*                                                                         *)
(* An output of the generator is the sequence of its bits, lowest first,   *)
(* where a bit may be any name: which bit goes where is what matters.      *)
(***************************************************************************)
EXTENDS Integers, Sequences, SequencesExt

CONSTANTS
    ByteBits,        \* 8
    BufferBits       \* 64, the buffer of ByteStreamGenerator

ASSUME HammingTestsAssumption ==
    /\ ByteBits \in Nat \ {0}
    /\ BufferBits \in Nat \ {0} /\ BufferBits % ByteBits = 0

-----------------------------------------------------------------------------
(***************************************************************************)
(* ByteStreamGenerator.  draws[k] is output number k of the generator; a  *)
(* refill takes one output, or the lowest bits (bytes) of as many as fill  *)
(* the buffer; bytes are then taken from the low end.                      *)
(***************************************************************************)
LowPart(u, n) == SubSeq(u, 1, n)

\* Mutant: the new part comes in at the bottom.
RefillReversed(mode, draws, drawn) ==
    LET Parts(n) == [i \in 1 .. BufferBits \div n |-> LowPart(draws[drawn + i - 1], n)]
    IN  CASE mode = "bytes"      -> [buffer |-> draws[drawn], drawn |-> drawn + 1]
          [] mode = "bytes_low8" -> [buffer |-> FlattenSeq(Reverse(Parts(ByteBits))),
                                     drawn  |-> drawn + BufferBits \div ByteBits]
          [] mode = "bytes_low1" -> [buffer |-> FlattenSeq(Reverse(Parts(1))),
                                     drawn  |-> drawn + BufferBits]

\* The buffer is shifted down and the new part comes in at the top.
Refill(mode, draws, drawn) ==
    LET Parts(n) == [i \in 1 .. BufferBits \div n |-> LowPart(draws[drawn + i - 1], n)]
    IN  CASE mode = "bytes"      -> [buffer |-> draws[drawn], drawn |-> drawn + 1]
          [] mode = "bytes_low8" -> [buffer |-> FlattenSeq(Parts(ByteBits)),
                                     drawn  |-> drawn + BufferBits \div ByteBits]
          [] mode = "bytes_low1" -> [buffer |-> FlattenSeq(Parts(1)),
                                     drawn  |-> drawn + BufferBits]

Bytes(mode, draws, n) ==
    LET after[k \in 0 .. n] ==
            IF k = 0 THEN [buffer |-> <<>>, drawn |-> 0, out |-> <<>>]
            ELSE LET b == after[k - 1]
                     full == IF b.buffer # <<>> THEN b
                             ELSE Refill(mode, draws, b.drawn) @@ b
                 IN  [buffer |-> SubSeq(full.buffer, ByteBits + 1, Len(full.buffer)),
                      drawn  |-> full.drawn,
                      out    |-> Append(b.out, LowPart(full.buffer, ByteBits))]
    IN  [bytes |-> after[n].out, drawn |-> after[n].drawn]

(***************************************************************************)
(* hamming_ot_test: tuples of `size' successive codes are counted; one     *)
(* code more than they need has been taken when the loop ends.             *)
(***************************************************************************)
PushCode(tuple, code, size) == SubSeq(Append(tuple, code), 2, size + 1)

CountedTuples(size, codes, ntuples) ==
    LET tuple[k \in 0 .. size + ntuples] ==
            IF k = 0 THEN [i \in 1 .. size |-> 0]
            ELSE PushCode(tuple[k - 1], codes[k - 1], size)
    IN  [i \in 0 .. ntuples - 1 |-> tuple[size + i]]

-----------------------------------------------------------------------------
(***************************************************************************)
(* HammingWeightsTuple_reduce_table.  A bin is the set `from' of the       *)
(* tuples that went into it, with the sums of their counts and weights;    *)
(* the probability of a tuple is its weight divided by the weight of all.  *)
(***************************************************************************)
Bins(weights, counts) ==
    [i \in 1 .. Len(weights) |->
        [p |-> weights[i], count |-> counts[i], from |-> {i}]]

Total(bins, field) == FoldLeft(LAMBDA acc, b : acc + b[field], 0, bins)

Merged(a, b) ==
    [p |-> a.p + b.p, count |-> a.count + b.count, from |-> a.from \cup b.from]

\* p >= Ei_min / count_total.
IsGood(b, Ei_min, count_total, weight_total) ==
    b.p * count_total >= Ei_min * weight_total

\* Mutant: without looking whether there is a bin on the left.
PrefersRightOnly(out, inp, pos) ==
    pos # Len(inp) /\ out # <<>> /\ Last(out).p > inp[pos + 1].p

\* Whether a rare bin goes to its right neighbour: it is the smaller one.
PrefersRight(out, inp, pos) ==
    pos # Len(inp) /\ (out = <<>> \/ Last(out).p > inp[pos + 1].p)

(***************************************************************************)
(* One pass over the table, from pos on.  A rare bin with no neighbour is  *)
(* added to info[-1], in front of the array: `underrun'.                   *)
(***************************************************************************)
RECURSIVE ReducePass(_, _, _, _, _)
ReducePass(inp, pos, Ei_min, totals, acc) ==
    IF pos > Len(inp) THEN acc
    ELSE LET b == inp[pos] IN
      CASE IsGood(b, Ei_min, totals[1], totals[2]) ->
             ReducePass(inp, pos + 1, Ei_min, totals,
                        [acc EXCEPT !.out = Append(@, b)])
        [] ~IsGood(b, Ei_min, totals[1], totals[2]) /\ PrefersRight(acc.out, inp, pos) ->
             ReducePass(inp, pos + 2, Ei_min, totals,
                        [acc EXCEPT !.out = Append(@, Merged(b, inp[pos + 1])),
                                    !.reduced = FALSE])
        [] OTHER ->
             ReducePass(inp, pos + 1, Ei_min, totals,
                        [acc EXCEPT !.out = IF @ = <<>> THEN @
                                            ELSE ReplaceAt(@, Len(@), Merged(Last(@), b)),
                                    !.underrun = @ \/ acc.out = <<>>,
                                    !.reduced = FALSE])

RECURSIVE ReduceLoop(_, _, _, _)
ReduceLoop(bins, Ei_min, totals, underrun) ==
    LET pass == ReducePass(bins, 1, Ei_min, totals,
                    [out |-> <<>>, reduced |-> TRUE, underrun |-> underrun])
    IN  IF pass.reduced THEN pass
        ELSE ReduceLoop(pass.out, Ei_min, totals, pass.underrun)

ReduceTable(bins, Ei_min) ==
    ReduceLoop(bins, Ei_min,
               <<Total(bins, "count"), Total(bins, "p")>>, FALSE)

-----------------------------------------------------------------------------
(***************************************************************************)
(* hamming_distr_test: values fill a buffer of 2^nlevels; when it is full, *)
(* its blocks of 2^j values, and the pairs of such blocks, are counted at  *)
(* level j.  The lowest bits, nbits of them in a word, fill another one.   *)
(* A block is the sequence of its values, a pair one of two blocks.        *)
(***************************************************************************)
BlocksOf(j, buf) ==
    [b \in 1 .. Len(buf) \div 2^j |-> SubSeq(buf, (b - 1) * 2^j + 1, b * 2^j)]

\* Mutant: every second pair is left out.
PairStepLong(j) == 2^j * 4

PairStep(j) == 2^j * 2

PairsOf(j, buf) ==
    [b \in 1 .. Len(buf) \div PairStep(j) |->
        LET i == (b - 1) * PairStep(j)
        IN  <<SubSeq(buf, i + 1, i + 2^j), SubSeq(buf, i + 2^j + 1, i + 2 * 2^j)>>]

Accumulated(h, nlevels, buf) ==
    [j \in 0 .. nlevels - 1 |-> [o     |-> h[j].o \o BlocksOf(j, buf),
                                 o_xor |-> h[j].o_xor \o PairsOf(j, buf)]]

EmptyHist(nlevels) == [j \in 0 .. nlevels - 1 |-> [o |-> <<>>, o_xor |-> <<>>]]

AddToBuffer(st, nlevels, x) ==
    LET buf == Append(st.buf, x)
    IN  IF Len(buf) = 2^nlevels
        THEN [buf |-> <<>>, h |-> Accumulated(st.h, nlevels, buf)]
        ELSE [st EXCEPT !.buf = buf]

HammingDistr(nlevels, nbits, nvalues) ==
    LET empty == [buf |-> <<>>, h |-> EmptyHist(nlevels)]
        after[i \in 0 .. nvalues] ==
            IF i = 0 THEN [all |-> empty, low1 |-> empty, u_low1 |-> <<>>]
            ELSE LET b == after[i - 1]
                     u == Append(b.u_low1, i)       \* the lowest bit of value i
                 IN  [all    |-> AddToBuffer(b.all, nlevels, i),
                      low1   |-> IF Len(u) = nbits
                                 THEN AddToBuffer(b.low1, nlevels, u) ELSE b.low1,
                      u_low1 |-> IF Len(u) = nbits THEN <<>> ELSE u]
    IN  after[nvalues]

=============================================================================
