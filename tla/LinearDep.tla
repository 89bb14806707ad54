------------------------------ MODULE LinearDep ------------------------------
(***************************************************************************)
(* The two algorithms of src/src/lineardep.c, over GF(2): the rank of a    *)
(* binary matrix by Gaussian elimination, and the linear complexity of a   *)
(* bit sequence by the Berlekamp-Massey algorithm.                         *)
(*                                                                         *)
(* A row of a matrix is the set of its columns that hold 1, a polynomial   *)
(* the set of its exponents, so that addition is symmetric difference; a   *)
(* bit sequence is a function on 0 .. n - 1, as the array of the code.     *)
(***************************************************************************)
EXTENDS Integers, FiniteSets, FiniteSetsExt

CONSTANTS
    MatrixSizes,     \* sizes of square matrices to be ranked
    Lengths,         \* lengths of the bit sequences to be analysed
    Chunk            \* columns that are added together: 32 in the portable
                     \* build, 256 with AVX2

ASSUME LinearDepAssumption ==
    /\ MatrixSizes \subseteq Nat \ {0}
    /\ Lengths \subseteq Nat \ {0}
    /\ Chunk \in Nat \ {0}

Plus(a, b) == SymDiff(a, b)

-----------------------------------------------------------------------------
(***************************************************************************)
(* calc_bin_matrix_rank.                                                   *)
(***************************************************************************)
Matrices(n) == [0 .. n - 1 -> SUBSET (0 .. n - 1)]

Swap(rows, i, j) == [rows EXCEPT ![i] = rows[j], ![j] = rows[i]]

(***************************************************************************)
(* xorbits adds whole chunks, from the one that holds column i on.         *)
(***************************************************************************)
AddRow(a, b, i) == Plus(a, {c \in b : c >= (i \div Chunk) * Chunk})

(***************************************************************************)
(* Column i: the first row from number `first' on with a 1 in the column   *)
(* is swapped with row i, and added to the rows below that have a 1.       *)
(***************************************************************************)
EliminateFrom(first, n, s, i) ==
    LET Candidates == {j \in first .. n - 1 : i \in s.rows[j]}
        swapped    == Swap(s.rows, i, Min(Candidates))
    IN  IF Candidates = {} THEN s
        ELSE [rank |-> s.rank + 1,
              rows |-> [k \in 0 .. n - 1 |->
                            IF k > i /\ i \in swapped[k]
                            THEN AddRow(swapped[k], swapped[i], i)
                            ELSE swapped[k]]]

\* Mutant: the search starts behind the i-th row.
EliminateBelow(n, s, i) == EliminateFrom(i + 1, n, s, i)

\* Mutant: every row is a candidate.
EliminateAny(n, s, i) == EliminateFrom(0, n, s, i)

(***************************************************************************)
(* The search starts at row `rank', which after a column without a pivot   *)
(* lies above row i.                                                       *)
(***************************************************************************)
Eliminate(n, s, i) == EliminateFrom(s.rank, n, s, i)

CalcRank(n, matrix) ==
    LET after[i \in 0 .. n] ==     \* the state after i columns
            IF i = 0 THEN [rank |-> 0, rows |-> matrix]
            ELSE Eliminate(n, after[i - 1], i - 1)
    IN  after[n].rank

(***************************************************************************)
(* The rank, from its definition: the rows span 2^rank vectors.            *)
(***************************************************************************)
Span(n, matrix) ==
    LET span[i \in 0 .. n] ==
            IF i = 0 THEN {{}}
            ELSE span[i - 1] \cup {Plus(v, matrix[i - 1]) : v \in span[i - 1]}
    IN  span[n]

IsRank(n, matrix, r) == Cardinality(Span(n, matrix)) = 2^r

-----------------------------------------------------------------------------
(***************************************************************************)
(* berlekamp_massey.  The arrays C, B and T have n elements, indexes below *)
(* 0 or from n on do not exist.                                            *)
(***************************************************************************)
Sequences01(n) == [0 .. n - 1 -> {0, 1}]

Start == [L |-> 0, m |-> -1, C |-> {0}, B |-> {0}, T |-> {}]

\* Whether the number of ones of s at the distances in D before k is odd.
Odd(s, k, D) == Cardinality({i \in D : s[k - i] = 1}) % 2 = 1

\* Mutant: the last element is not copied.
CopiedShort(to, from, len) ==
    {i \in from : i < len - 1} \cup {i \in to : i >= len - 1}

(***************************************************************************)
(* memcpy of the first len elements.                                       *)
(***************************************************************************)
Copied(to, from, len) ==
    {i \in from : i < len} \cup {i \in to : i >= len}

Grows(L, N) == 2 * L <= N

(***************************************************************************)
(* One bit: if the present register does not predict it, the saved         *)
(* polynomial is added at the distance of the last change of length, and   *)
(* the register grows if it is not longer than half of what has been read. *)
(***************************************************************************)
Step(n, s, b, N) ==
    LET T2 == Copied(b.T, b.C, b.L + 1)
        C2 == Plus(b.C, {e + N - b.m : e \in {e \in b.B : e < n - N + b.m}})
        L2 == N + 1 - b.L
    IN  IF ~Odd(s, N, {0} \cup {i \in b.C : i <= b.L}) THEN b
        ELSE IF Grows(b.L, N)
             THEN [L |-> L2, m |-> N, C |-> C2,
                   B |-> Copied(b.B, T2, L2 + 1), T |-> T2]
             ELSE [b EXCEPT !.C = C2, !.T = T2]

BerlekampMassey(n, s) ==
    LET after[N \in 0 .. n] ==     \* the state after N bits
            IF N = 0 THEN Start ELSE Step(n, s, after[N - 1], N - 1)
    IN  after[n]

(***************************************************************************)
(* The linear complexity, from its definition: the length of the shortest  *)
(* register whose feedback reproduces the rest of the sequence.            *)
(***************************************************************************)
Generates(n, s, D, L) == \A k \in L .. n - 1 : ~Odd(s, k, {0} \cup D)

LinearComplexity(n, s) ==
    Min({L \in 0 .. n : \E D \in SUBSET (1 .. L) : Generates(n, s, D, L)})

=============================================================================
