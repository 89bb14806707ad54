---------------------------- MODULE TripleSearch ----------------------------
(***************************************************************************)
(* src/apps/find_xorshift_params.c: the search for triples of shifts that  *)
(* give a generator its full period, by several threads that share one     *)
(* array of triples.                                                       *)
(*                                                                         *)
(* A generator has k words of w bits, k and w smaller than in the code; a  *)
(* state is the function from the number of a word to the word.  The       *)
(* verdict of lfsr_period_test is taken from the definition of the period, *)
(* with which the verdict of LfsrPeriod is compared elsewhere.             *)
(***************************************************************************)
EXTENDS Integers, Sequences, FiniteSets

CONSTANTS
    TableSize        \* 256: threads that ThreadObj_current recognises

ASSUME TripleSearchAssumption == TableSize \in Nat \ {0}

Xor(x, y)        == (x \ y) \cup (y \ x)
Shl(w, x, k)     == {b + k : b \in x} \cap (0 .. w - 1)
Shr(x, k)        == {b - k : b \in {c \in x : c >= k}}
Rot(w, x, k)     == {(b + k) % w : b \in x}

-----------------------------------------------------------------------------
(***************************************************************************)
(* One step of each kind of generator, t = <<a, b, c>>.                    *)
(***************************************************************************)
XorshiftShort(w, s, t) ==
    LET x == Xor(s[0], Shr(s[0], t[1]))
        y == Xor(x, Shl(w, x, t[2]))
    IN  [s EXCEPT ![0] = Xor(y, Shr(y, t[3]))]

\* xorshift128, xorshift160, xorshift320.
XorshiftLong(w, k, s, t) ==
    LET u == Xor(s[0], Shl(w, s[0], t[1]))
        v == Xor(u, Shr(u, t[2]))
        z == s[k - 1]
    IN  [i \in 0 .. k - 1 |-> IF i < k - 1 THEN s[i + 1]
                              ELSE Xor(Xor(z, Shr(z, t[3])), v)]

\* xoroshiro48w8, xoroshiro48w16, xoroshiro64w16.
Xoroshiro(w, k, s, t) ==
    LET u == Xor(s[0], s[k - 1])
    IN  [i \in 0 .. k - 1 |->
            CASE i < k - 2 -> s[i + 1]
              [] i = k - 2 -> Xor(Xor(Rot(w, s[0], t[1]), u), Shl(w, u, t[2]))
              [] OTHER     -> Rot(w, u, t[3])]

\* xorrot24, xorrot128, xorrot160, xorrot256, xorrot320, xorrot512.
Xorrot(w, k, s, t) ==
    LET z == s[k - 1]
        y == Xor(s[0], z)
    IN  [i \in 0 .. k - 1 |->
            CASE i = k - 1 -> Xor(Xor(Shl(w, s[0], t[1]), y),
                                  Xor(Rot(w, z, t[2]), Rot(w, z, t[3])))
              [] i = k - 2 -> y
              [] i = 0 /\ k > 2 -> Xor(s[0], s[1])
              [] OTHER     -> s[i + 1]]

\* Mutant: without the triples whose outer shifts are equal.
IsTripleValidStrict(kind, t) ==
    CASE kind = "xorshift" -> t[1] < t[3]
      [] kind \in {"xorrot", "xorrot24b"} -> t[2] < t[3]
      [] OTHER -> TRUE

\* The triples that are tried; xorrot24b steps like xorshift.
IsTripleValid(kind, t) ==
    CASE kind = "xorshift" -> t[1] <= t[3]
      [] kind \in {"xorrot", "xorrot24b"} -> t[2] < t[3]
      [] OTHER -> TRUE

\* The state after an output, which xoroshiro makes of 2 or 4 words.
NextState(g, s, t) ==
    LET One(r) == Xoroshiro(g.w, g.k, r, t)
    IN  CASE g.kind \in {"xorshift", "xorrot24b"} -> XorshiftShort(g.w, s, t)
          [] g.kind = "xorshift long" -> XorshiftLong(g.w, g.k, s, t)
          [] g.kind = "xoroshiro"     -> One(One(s))
          [] g.kind = "xoroshiro w8"  -> One(One(One(One(s))))
          [] g.kind = "xorrot"        -> Xorrot(g.w, g.k, s, t)

-----------------------------------------------------------------------------
\* Mutant: one thread too many is dealt to.
DealtToMore(pos, nthreads) == pos % (nthreads + 1)

\* The thread that the triple at pos is dealt to.
DealtTo(pos, nthreads) == pos % nthreads

\* make_triples_array: the triples in the order of its three loops.
MakeTriples(g) ==
    LET m == g.w - 1
    IN  SelectSeq([n \in 1 .. m^3 |-> <<1 + ((n - 1) \div m^2), 1 + (((n - 1) \div m) % m),
                                        1 + ((n - 1) % m)>>],
                  LAMBDA t : IsTripleValid(g.kind, t))

\* What ThreadObj_current tells a thread: one that is not in the table is
\* taken for the one with ordinal 0.
OwnOrd(ord) == IF ord < TableSize THEN ord ELSE 0

(***************************************************************************)
(* The search when the threads are created: where each of them stands in   *)
(* the array, and for each triple whether it is good and how often it has  *)
(* been examined.  A create that leaves the triple unset may have the      *)
(* first test of the period refuse the generator.                          *)
(***************************************************************************)
SearchOf(len, nthreads, unset) ==
    {[at |-> [ord \in 0 .. nthreads - 1 |-> 1],
      triples |-> [i \in 1 .. len |-> [is_good |-> FALSE, times |-> 0]],
      refused |-> refused] :
        refused \in IF unset THEN BOOLEAN ELSE {FALSE}}

SearchStart(g, nthreads) == SearchOf(Len(MakeTriples(g)), nthreads, g.unset)

\* The triples of the thread ord that it has not come to.
Remaining(search, ord) ==
    {i \in search.at[ord] .. Len(search.triples) :
        DealtTo(i - 1, Cardinality(DOMAIN search.at)) = OwnOrd(ord)}

\* xorshift_thread: the next triple of the thread is examined.
Examine(search, ord, good) ==
    LET i == CHOOSE i \in Remaining(search, ord) : \A j \in Remaining(search, ord) : i <= j
    IN  [search EXCEPT !.at[ord] = i + 1,
                       !.triples[i].times = @ + 1,
                       !.triples[i].is_good = @ \/ i \in good]

\* Any thread that has one left may be the next.
SearchSteps(search, good) ==
    {Examine(search, ord, good) :
        ord \in {o \in DOMAIN search.at : ~search.refused /\ Remaining(search, o) # {}}}

\* The main thread has joined them all.
SearchEnded(search) ==
    search.refused \/ \A ord \in DOMAIN search.at : Remaining(search, ord) = {}

\* What it prints.
Printed(g, search) ==
    IF search.refused THEN <<>>
    ELSE LET all == MakeTriples(g)
         IN  SelectSeq([i \in DOMAIN all |-> [t |-> all[i], is_good |-> search.triples[i].is_good]],
                       LAMBDA e : e.is_good)

=============================================================================
