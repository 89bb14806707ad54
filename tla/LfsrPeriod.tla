------------------------------ MODULE LfsrPeriod ------------------------------
(***************************************************************************)
(* The algebraic proof that a generator has the period 2^n - 1             *)
(* (src/src/lfsr_period.c, src/src/lfsr_period_factors.c): arithmetic of   *)
(* long integers, of polynomials and of matrices over GF(2), the           *)
(* characteristic polynomial from the states that a generator runs         *)
(* through, jumps ahead, and the two pseudo-batteries.                     *)
(*                                                                         *)
(* As in LinearDep a polynomial or a row is the set of its exponents or    *)
(* columns with a 1.  A long integer keeps its words, where borrows and    *)
(* shifts go from word to word.                                            *)
(***************************************************************************)
EXTENDS LinearDep

CONSTANTS
    PolyWord,        \* 64: bits in a word
    LargeSize,       \* LARGEINT_SIZE: words of a long integer
    FactoredSizes,   \* sizes in bits that the tables of factors know
    LfsrIters,       \* 65537: iterations after which a matrix is compared
    CounterIters,    \* 10^7: iterations in which a counter is looked for
    BmMargin         \* distance from n/2 of a complexity that is not random

ASSUME LfsrPeriodAssumption ==
    /\ {PolyWord, LargeSize, LfsrIters} \subseteq Nat \ {0}
    /\ FactoredSizes \subseteq Nat \ {0}
    /\ {CounterIters, BmMargin} \subseteq Nat

IsOdd(S) == Cardinality(S) % 2 = 1

-----------------------------------------------------------------------------
(***************************************************************************)
(* LargeInt.                                                               *)
(***************************************************************************)
WordRange  == 2^PolyWord
LargeWords == 0 .. LargeSize - 1

LargeFromU64(x)  == [i \in LargeWords |-> IF i = 0 THEN x ELSE 0]
LargeFromPow2(p) == [i \in LargeWords |-> IF i = p \div PolyWord THEN 2^(p % PolyWord) ELSE 0]

\* The next word gives 1 if this one has become greater.
LargeSubtract(obj, val) ==
    LET Less(i, v) == (obj[i] - v) % WordRange
        taken[i \in LargeWords] ==
            IF i = 0 THEN val
            ELSE LET v == taken[i - 1] IN IF Less(i - 1, v) <= obj[i - 1] THEN 0 ELSE 1
    IN  [i \in LargeWords |-> Less(i, taken[i])]

LargeDiv2(obj) ==
    [i \in LargeWords |-> obj[i] \div 2
        + (IF i + 1 \in LargeWords /\ obj[i + 1] % 2 = 1 THEN WordRange \div 2 ELSE 0)]

LargeBit(obj, b) == (obj[b \div PolyWord] \div 2^(b % PolyWord)) % 2 = 1
LargeIsU64(obj, x) == obj = LargeFromU64(x)
LargeNBits(obj) ==
    Max({0} \cup {b + 1 : b \in {b \in 0 .. LargeSize * PolyWord - 1 : LargeBit(obj, b)}})

-----------------------------------------------------------------------------
(***************************************************************************)
(* LfsrPoly: a polynomial of a known degree without its highest term.      *)
(***************************************************************************)
PolyWords(degree) ==
    degree \div PolyWord + (IF degree % PolyWord # 0 \/ degree = 0 THEN 1 ELSE 0)

Poly(degree, bits) == [degree |-> degree, nwords |-> PolyWords(degree), w |-> bits]
InvalidPoly == [degree |-> 0, nwords |-> 0, w |-> {}]
PolyIsValid(p) == p.nwords # 0

\* Mutant: the highest term is looked for where a word begins.
MulxNextWord(a, c) ==
    LET up  == {i + 1 : i \in a.w}
        top == c.nwords * PolyWord
    IN  [a EXCEPT !.w = IF top \in up THEN Plus(up \ {top}, c.w) ELSE up \ {top}]

(***************************************************************************)
(* LfsrPoly_mulx: the term that reaches the degree is the carry out of the *)
(* last word if the degree is a multiple of the size of words.             *)
(***************************************************************************)
Mulx(a, c) ==
    LET up  == {i + 1 : i \in a.w}
        top == IF c.degree % PolyWord = 0 THEN c.nwords * PolyWord ELSE c.degree
        reduced == IF top \in up THEN Plus(up \ {top}, c.w) ELSE up \ {top}
    IN  IF a.nwords # c.nwords THEN a ELSE [a EXCEPT !.w = reduced]

Mulmod(a, b, c) ==
    LET r[k \in 0 .. c.degree] ==      \* the terms from degree - k on
            IF k = 0 THEN Poly(c.degree, {})
            ELSE LET next == Mulx(r[k - 1], c)
                 IN  IF c.degree - k \in a.w THEN [next EXCEPT !.w = Plus(@, b.w)] ELSE next
    IN  IF a.nwords # b.nwords \/ a.nwords # c.nwords THEN a
        ELSE [a EXCEPT !.w = r[c.degree].w]

\* x^n by the bits of n, from the highest of nbits bits.
PolyPower(c, n, nbits) ==
    LET out[k \in 0 .. nbits] ==
            IF k = 0 THEN Poly(c.degree, {0})
            ELSE LET prev   == out[k - 1]
                     square == Mulmod(prev, prev, c)
                 IN  IF LargeBit(n, nbits - k) THEN Mulx(square, c) ELSE square
    IN  out[nbits]

JumppolyCe(c, num, e) ==
    LET out[k \in 0 .. e] ==
            IF k = 0 THEN PolyPower(c, LargeFromU64(num), PolyWord)
            ELSE LET prev == out[k - 1] IN Mulmod(prev, prev, c)
    IN  out[e]

JumppolyN(c, n) == PolyPower(c, n, LargeNBits(n))

\* The product of x^(2^i) for all i below e.
JumppolyMersenne(c, e) ==
    LET x == Mulx(Poly(c.degree, {0}), c)
        after[i \in 0 .. e] ==
            IF i <= 1 THEN [out |-> x, sq |-> Mulmod(x, x, c)]
            ELSE LET prev == after[i - 1]
                 IN  [out |-> Mulmod(prev.out, prev.sq, c), sq |-> Mulmod(prev.sq, prev.sq, c)]
    IN  after[e].out

PolyIsOne(p) == p.nwords # 0 /\ p.w = {0}

-----------------------------------------------------------------------------
(***************************************************************************)
(* LfsrMatrix: rows.  A state is a row, which a matrix is applied to from  *)
(* the right.                                                              *)
(***************************************************************************)
Times(row, b) == {j \in DOMAIN b : IsOdd({k \in row : j \in b[k]})}

MatrixProd(a, b) == IF DOMAIN a # DOMAIN b THEN <<>> ELSE [i \in DOMAIN a |-> Times(a[i], b)]

MatrixPow(x, e) ==
    LET steps == LargeNBits(e) - 1
        y[k \in 0 .. steps] ==
            IF k = 0 THEN x
            ELSE LET prev == y[k - 1]
                     sq   == MatrixProd(prev, prev)
                 IN  IF LargeBit(e, steps - k) THEN MatrixProd(sq, x) ELSE sq
    IN  IF LargeIsU64(e, 1) THEN x
        ELSE IF LargeIsU64(e, 2) THEN MatrixProd(x, x) ELSE y[steps]

Pivot(cinds, j, i) == [cinds EXCEPT ![i] = cinds[j], ![j] = cinds[i]]

(***************************************************************************)
(* LfsrMatrix_krylov_to_charpoly: rows 0 .. n are successive states.       *)
(* Columns are eliminated: that of the pivot is added to all others that   *)
(* have a 1 in row j.  What remains in row n is how the last state is      *)
(* composed of the others.                                                 *)
(***************************************************************************)
KrylovToCharpoly(n, rows) ==
    LET after[j \in 0 .. n] ==      \* the rows and the order of the columns
            IF j = 0 THEN [rows |-> rows, cinds |-> [i \in 0 .. n |-> i], ok |-> TRUE]
            ELSE LET m     == after[j - 1]
                     row   == j - 1
                     Found == {i \in row .. n - 1 : m.cinds[i] \in m.rows[row]}
                     cinds == Pivot(m.cinds, row, Min(Found))
                     col   == cinds[row]
                     others == {cinds[i] : i \in 0 .. n - 1} \ {col}
                 IN  IF ~m.ok \/ Found = {} THEN [m EXCEPT !.ok = FALSE]
                     ELSE [m EXCEPT !.cinds = cinds,
                            !.rows = [k \in 0 .. n |->
                                IF col \in m.rows[k]
                                THEN Plus(m.rows[k], m.rows[row] \cap others)
                                ELSE m.rows[k]]]
        last == after[n]
    IN  IF last.ok THEN Poly(n, {i \in 0 .. n - 1 : last.cinds[i] \in last.rows[n]})
        ELSE InvalidPoly

-----------------------------------------------------------------------------
(***************************************************************************)
(* GeneratorStateExt: a generator whose state is seen as nbytes bytes of   *)
(* `byte' bits each, and written to.  Its get_bits takes a state to the    *)
(* next one.  The size is measured by counting the calls of malloc, and is *)
(* 0 if there is not exactly one.                                          *)
(***************************************************************************)
NBitsSeen(g) == IF g.nmallocs = 1 THEN g.nbytes * g.byte ELSE 0
Seen(g)      == 0 .. NBitsSeen(g) - 1

\* States while get_bits is called n times.
Run(g, state, n) ==
    LET s[k \in 0 .. n] == IF k = 0 THEN state ELSE LET prev == s[k - 1] IN g.get_bits[prev]
    IN  s

GetMatrix(g, niters) == [i \in Seen(g) |-> Run(g, {i}, niters)[niters] \cap Seen(g)]

\* 0xAA in bytes with an even number, 0x55 in the others.
KrylovStart(g) == {b \in Seen(g) : ((b % g.byte) + (b \div g.byte)) % 2 = 1}

GetPoly(g) ==
    LET n    == NBitsSeen(g)
        run  == Run(g, KrylovStart(g), n)
    IN  KrylovToCharpoly(n, [k \in 0 .. n |-> run[k] \cap Seen(g)])

ApplyJumpPoly(g, state, jump) ==
    LET run == Run(g, state, jump.degree)
        sum[i \in 0 .. jump.degree] ==
            IF i = 0 THEN {}
            ELSE IF i - 1 \in jump.w THEN Plus(sum[i - 1], run[i - 1]) ELSE sum[i - 1]
    IN  sum[jump.degree]

JumpPolyPow2(g, p) == JumppolyCe(GetPoly(g), 1, p)

MakeJumpPow2(g, state, p) == ApplyJumpPoly(g, state, JumpPolyPow2(g, p))

IsLfsr(g) == GetMatrix(g, LfsrIters) = MatrixPow(GetMatrix(g, 1), LargeFromU64(LfsrIters))

HasCounters(g) ==
    LET run == Run(g, g.seed, CounterIters)
        ByteOf(s, j) == MapThenSumSet(LAMBDA b : 2^b,
                            {b \in 0 .. g.byte - 1 : j * g.byte + b \in s})
    IN  \E j \in 0 .. NBitsSeen(g) \div g.byte - 1 :
            \A i \in 0 .. CounterIters - 1 :
                (ByteOf(run[i + 1], j) - ByteOf(run[i], j)) % 2^g.byte \in {0, 1}

-----------------------------------------------------------------------------
(***************************************************************************)
(* get_lfsr_exps: (2^n - 1) / q for its prime divisors q, none if it is    *)
(* prime itself, for the sizes in the table.                               *)
(***************************************************************************)
LfsrExps(n) ==
    LET period == 2^n - 1
        Prime(q) == q > 1 /\ \A d \in 2 .. q - 1 : q % d # 0
        FromNumber(x) == [i \in LargeWords |-> (x \div 2^(i * PolyWord)) % WordRange]
    IN  {FromNumber(period \div q) :
            q \in {q \in 2 .. period - 1 : Prime(q) /\ period % q = 0}}

PERIOD_MAX     == "max"
PERIOD_NOT_MAX == "not max"
PERIOD_ERROR   == "error"

\* Mutant: the exponents are not looked at.
PeriodTestCoreFermat(c, nbits) ==
    IF PolyIsOne(JumppolyMersenne(c, nbits)) THEN PERIOD_MAX ELSE PERIOD_NOT_MAX

PeriodTestCore(c, nbits) ==
    IF ~PolyIsOne(JumppolyMersenne(c, nbits)) THEN PERIOD_NOT_MAX
    ELSE IF nbits \notin FactoredSizes THEN PERIOD_ERROR
    ELSE IF \E d \in LfsrExps(nbits) : PolyIsOne(JumppolyN(c, d)) THEN PERIOD_NOT_MAX
    ELSE PERIOD_MAX

LfsrPeriodTest(g) ==
    LET charpoly == GetPoly(g)
    IN  IF HasCounters(g) \/ ~IsLfsr(g) THEN PERIOD_ERROR
        ELSE IF ~PolyIsValid(charpoly) THEN PERIOD_NOT_MAX
        ELSE PeriodTestCore(charpoly, NBitsSeen(g))

BatteryLfsrPeriod(g) == IF g.enveloped THEN PERIOD_ERROR ELSE LfsrPeriodTest(g)

(***************************************************************************)
(* lfsr_period_bm_test: the polynomial is that of the lowest bit of n      *)
(* outputs.  A complexity near n/2 is that of random bits.                 *)
(***************************************************************************)
BmPeriodTest(n, s) ==
    LET bm == BerlekampMassey(n, s)
        T  == IF n % 2 = 1 THEN (n + 1) \div 2 - bm.L ELSE bm.L - n \div 2
    IN  IF T \in -BmMargin .. BmMargin THEN PERIOD_ERROR
        ELSE PeriodTestCore(Poly(bm.L, {i \in 0 .. bm.L - 1 : bm.L - i \in bm.C}), bm.L)

=============================================================================
