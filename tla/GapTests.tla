------------------------------ MODULE GapTests ------------------------------
(***************************************************************************)
(* The two gap tests of src/src/coretests.c up to the statistics: gap_test *)
(* counts the gaps between outputs whose upper, or lower, bits are zero,   *)
(* and gap16_count0 those between equal words, and whether a 0 lies in     *)
(* them.                                                                   *)
(*                                                                         *)
(* A generator is its stream of outputs, a function on 0 .. L - 1 that is  *)
(* repeated with period L; an output is a number of OutBits bits.          *)
(***************************************************************************)
EXTENDS Integers, FiniteSets, FiniteSetsExt

CONSTANTS
    OutBits,         \* nbits of the generator
    WordBits         \* the 16 bits of gap16_count0

ASSUME GapTestsAssumption ==
    OutBits \in Nat \ {0} /\ WordBits \in 1 .. OutBits

IsStream(s) ==
    LET L == Cardinality(DOMAIN s) IN L \in Nat \ {0} /\ s \in [0 .. L - 1 -> Nat]

At(s, k) == s[k % Cardinality(DOMAIN s)]

-----------------------------------------------------------------------------
(***************************************************************************)
(* gap_test, with the options o: gaps are counted in two tables until both *)
(* have ngaps of them, or one waits too long.                              *)
(***************************************************************************)
GapFreqTable(nbins) ==
    [Oi |-> [g \in 0 .. nbins |-> 0], gap_len |-> 0, ngaps |-> 0]

Bin(gap_len, nbins) == IF gap_len < nbins THEN gap_len ELSE nbins

\* Mutant: the length of a gap goes on over its end.
AddValueNoReset(t, nbins, hit) ==
    IF hit THEN [t EXCEPT !.Oi[Bin(t.gap_len, nbins)] = @ + 1, !.ngaps = @ + 1]
    ELSE [t EXCEPT !.gap_len = @ + 1]

AddValue(t, nbins, hit) ==
    IF hit THEN [Oi |-> [t.Oi EXCEPT ![Bin(t.gap_len, nbins)] = @ + 1],
                 gap_len |-> 0, ngaps |-> t.ngaps + 1]
    ELSE [t EXCEPT !.gap_len = @ + 1]

HitsHigh(o, u) == u \div 2^(OutBits - o.shl) = 0
HitsLow(o, u)  == u % 2^o.shl = 0

\* No gap is longer, so that so many outputs are enough.
GapLoopBound(o) == o.ngaps * o.max_gap_len

\* The tables hi and lo after n outputs.
GapTables(o, s) ==
    LET after[n \in 0 .. GapLoopBound(o)] ==
            IF n = 0 THEN [hi |-> GapFreqTable(o.nbins), lo |-> GapFreqTable(o.nbins)]
            ELSE LET u == At(s, n - 1)
                 IN  [hi |-> AddValue(after[n - 1].hi, o.nbins, HitsHigh(o, u)),
                      lo |-> AddValue(after[n - 1].lo, o.nbins, HitsLow(o, u))]
    IN  after

\* The loop ends at an output too far from the last hit, or with all gaps.
Waits(o, t) == t.hi.gap_len >= o.max_gap_len \/ t.lo.gap_len >= o.max_gap_len
HasAll(o, t) == t.hi.ngaps >= o.ngaps /\ t.lo.ngaps >= o.ngaps

GapTest(o, s) ==
    LET after == GapTables(o, s)
        Ends(n) == Waits(o, after[n]) \/ HasAll(o, after[n])
        nvalues == CHOOSE n \in 1 .. GapLoopBound(o) : Ends(n) /\ \A m \in 1 .. n - 1 : ~Ends(m)
    IN  [nvalues |-> nvalues, hi |-> after[nvalues].hi, lo |-> after[nvalues].lo,
         missed |-> Waits(o, after[nvalues])]

-----------------------------------------------------------------------------
(***************************************************************************)
(* gap16_count0: for every word the distance to its last occurrence, and   *)
(* to the last 0, each with the information whether a 0 (the word) lies    *)
(* between.  None stands for ULLONG_MAX.                                   *)
(***************************************************************************)
None == -1
Words == 0 .. 2^WordBits - 1
WordsPerNum == OutBits \div WordBits

\* Word number pos, the low part of an output first.  WordsPerNum is 2 or 4
\* in the code, which masks pos.
WordAt(s, pos) ==
    (At(s, pos \div WordsPerNum) \div 2^(WordBits * (pos % WordsPerNum)))
        % 2^WordBits

GapArray(nbins) ==
    [total |-> [g \in 0 .. nbins - 1 |-> 0], with0 |-> [g \in 0 .. nbins - 1 |-> 0]]

\* One gap that ends at pos, or none if it never began or is too long.
CountGap(f, nbins, pos, begin, inside) ==
    LET gap_len == pos - begin - 1
    IN  IF begin = None \/ gap_len < 0 \/ gap_len >= nbins THEN f
        ELSE [total |-> [f.total EXCEPT ![gap_len] = @ + 1],
              with0 |-> [f.with0 EXCEPT ![gap_len] = @ + IF inside THEN 1 ELSE 0]]

\* Mutant: a 0 that has once been seen is not seen again.
Last0First(last0, w, pos) == IF w = 0 /\ last0 = None THEN pos ELSE last0

\* The last 0, before the gaps that end at pos are looked at.
Last0(last0, w, pos) == IF w = 0 THEN pos ELSE last0

Gap16(nbins, s, ngaps) ==
    LET after[pos \in 0 .. ngaps] ==
            IF pos = 0
            THEN [f |-> GapArray(nbins), rb |-> GapArray(nbins), last0 |-> None,
                  lastw |-> [w \in Words |-> None]]
            ELSE LET b  == after[pos - 1]
                     p  == pos - 1
                     w  == WordAt(s, p)
                     z  == Last0(b.last0, w, p)
                 IN  [f     |-> CountGap(b.f, nbins, p, b.lastw[w],
                                         z # None /\ z > b.lastw[w]),
                      rb    |-> CountGap(b.rb, nbins, p, z,
                                         b.lastw[w] # None /\ b.lastw[w] > z),
                      last0 |-> z,
                      lastw |-> [b.lastw EXCEPT ![w] = p]]
    IN  [f |-> after[ngaps].f, rb |-> after[ngaps].rb]

=============================================================================
