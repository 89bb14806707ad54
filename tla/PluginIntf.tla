----------------------------- MODULE PluginIntf -----------------------------
(***************************************************************************)
(* The interface of the plugins (apidefs.h, plugindefs.h): create makes a  *)
(* generator from seeds it asks the caller for, get_bits changes its state *)
(* and returns a number of nbits bits.  A state is a record of words.      *)
(*                                                                         *)
(* A plugin is an action.  At first any plugin may be loaded; an object of *)
(* it is created from one of several streams of seeds, and then gives      *)
(* MaxOutputs numbers.  At last the step of the generator is applied to    *)
(* the states around that object, as the kind of the plugin allows:        *)
(*   Mixing   to states that differ from it in at most one bit             *)
(*   Counted  also to those that follow, of which the low bits of one word *)
(*            are watched, since that word alone makes the period          *)
(*   Linear   to all states with one 1                                     *)
(*   Maximal  and also, by the polynomial of one of its bits, to where the *)
(*            period ends if it holds all states but 0, and before         *)
(***************************************************************************)
EXTENDS Words, TLC

CONSTANTS
    SeedStreams,        \* of "mixed", "zeros", "ones"
    MaxOutputs,         \* numbers taken from an object
    LowBits,            \* bits in which a counter is watched
    FlipEvery           \* of a word of more than 32 bits, every so many bits
                        \* are changed around the object

VARIABLES
    plugin,             \* the name of the plugin, or "none"
    seeds,              \* the stream of seeds it gets, or "none"
    object,             \* the state of the generator
    outputs,            \* what it has given
    around,             \* around the object: how many states the step has
                        \* lost, how many ends of the period are wrong
    history             \* of a plugin whose object is an array: how far back
                        \* every number has looked (0: to a cell that has no
                        \* number), and where the numbers given stop being
                        \* consecutive: <<call, places ahead>>

pluginVars == <<plugin, seeds, object, outputs, around, history>>

\* The results of get_seed64, in the order of the calls.  A stream does not
\* repeat a value for ever, since create may wait for another one.
Mixed(i) == {b \in 0 .. 63 : (b * b + 3 * i * b + 7 * i + (b * i) \div 5) % 7 \in {0, 2, 5}}
Seed64(stream, i) ==
    CASE stream = "zeros" /\ i <= 4 -> {}
      [] stream = "ones"  /\ i <= 4 -> Ones(64)
      [] OTHER                      -> Mixed(i)
Seeds(stream) == [i \in 1 .. 40 |-> Seed64(stream, i)]

\* A seed, or a group of k, is asked for again until it is good (do ... while):
\* the place of the first good one from place i on.
FirstDraw(i, k, Good(_)) ==
    i + k * CHOOSE n \in 0 .. 9 : Good(i + k * n) /\ \A m \in 0 .. n - 1 : ~Good(i + k * m)

All(w, fields) == [f \in fields |-> w]
Gives(state, number) == [state |-> state, out |-> number]

\* What is used more than once is bound by a set, so that TLC computes it once.
The(S) == CHOOSE x \in S : TRUE

\* x, next[x], ..., n values, half of them at a time.
RECURSIVE Orbit(_, _, _)
Orbit(next, n, x) ==
    IF n = 1 THEN <<x>>
    ELSE The({first \o Orbit(next, n - n \div 2, next[first[Len(first)]]) :
                first \in {Orbit(next, n \div 2, x)}})

\* A step as a function on the states with some fields, and what it gives n
\* times, from the state s on.
StepOn(fields, Get(_)) == [t \in [fields -> SUBSET Nat] |-> Get(t)]
RECURSIVE Gave(_, _, _)
Gave(step, n, s) ==
    IF n = 1 THEN <<step[s]>>
    ELSE The({first \o Gave(step, n - n \div 2, first[Len(first)].state) :
                first \in {Gave(step, n \div 2, s)}})
After(n, step, s) == IF n = 0 THEN s ELSE Gave(step, n, s)[n].state

\* Outputs of w bits put together: the first is the lowest part of the result
\* (an array read as one number), or the highest.
Bytes(Next(_), s) ==
    The({Gives(four[4].state, UNION {four[i].out \ll (8 * (i - 1)) : i \in 1 .. 4}) :
            four \in {Gave(StepOn(DOMAIN s, Next), 4, s)}})
Halves(Next(_), s) ==
    The({Gives(two[2].state, (two[1].out \ll 16) \cup two[2].out) :
            two \in {Gave(StepOn(DOMAIN s, Next), 2, s)}})

PluginInit ==
    /\ plugin = "none" /\ seeds = "none"
    /\ object = <<>> /\ outputs = <<>>
    /\ around = <<>> /\ history = <<>>

Plugin(name, nbits, fields, warm, Create(_), Get(_), Around(_, _)) ==
    \/ /\ plugin = "none"
       /\ plugin' = name
       /\ UNCHANGED <<seeds, object, outputs, around, history>>
    \/ /\ plugin = name
       /\ \E step \in {StepOn(fields, Get)} :
            \/ /\ seeds = "none"
               /\ \E stream \in SeedStreams :
                    /\ seeds' = stream
                    /\ object' = After(warm, step, Create(Seeds(stream)))
               /\ UNCHANGED <<plugin, outputs, around, history>>
            \/ /\ seeds # "none" /\ Len(outputs) < MaxOutputs
               /\ \E got \in {step[object]} :
                    /\ object' = got.state
                    /\ outputs' = Append(outputs, [nbits |-> nbits, out |-> got.out,
                                                   moved |-> got.state # object])
               /\ UNCHANGED <<plugin, seeds, around, history>>
            \/ /\ seeds = "mixed" /\ Len(outputs) = MaxOutputs /\ around = <<>>
               /\ around' = Around(step, object)
               /\ UNCHANGED <<plugin, seeds, object, outputs, history>>

-----------------------------------------------------------------------------
Flip(s, f, b) == [s EXCEPT ![f] = @ \oplus {b}]
Places(w) == IF w <= 32 THEN Ones(w) ELSE {b \in Ones(w) : b % FlipEvery = 0}
States(widths, s) ==
    {s} \cup UNION {{Flip(s, f, b) : b \in Places(widths[f])} : f \in DOMAIN widths}

Lost(widths, step, s) ==
    LET before == States(widths, s)
    IN  Cardinality(before) - Cardinality({step[t].state : t \in before})

Mixing(name, nbits, widths, warm, Create(_), Get(_)) ==
    Plugin(name, nbits, DOMAIN widths, warm, Create, Get,
           LAMBDA step, s : [lost |-> Lost(widths, step, s), wrong |-> 0])

\* 2^LowBits steps show the low bits with all their values.
Counted(name, nbits, widths, word, warm, Create(_), Get(_)) ==
    Plugin(name, nbits, DOMAIN widths, warm, Create, Get,
           LAMBDA step, s :
               LET run  == Gave(step, 2^LowBits, s)
                   seen == {Cut(LowBits, run[i].state[word]) : i \in 1 .. 2^LowBits}
               IN  [lost |-> Lost(widths, step, s), wrong |-> 2^LowBits - Cardinality(seen)])

-----------------------------------------------------------------------------
(***************************************************************************)
(* A linear step is a matrix: the state that it makes of each state with   *)
(* one 1.  Here a state is the set of the places of its ones, the words    *)
(* behind each other in places of Stride bits.                             *)
(***************************************************************************)
Stride == 64
RECURSIVE Listed(_)
Listed(S) == IF S = {} THEN <<>>
             ELSE LET x == CHOOSE x \in S : TRUE IN <<x>> \o Listed(S \ {x})

Matrix(widths, step) ==
    LET words   == Listed(DOMAIN widths)
        Flat(s) == UNION {s[words[i]] \ll (Stride * i) : i \in DOMAIN words}
        One(i, b) == [f \in DOMAIN widths |-> IF f = words[i] THEN {b} ELSE {}]
    IN  [p \in UNION {{<<i, b>> : b \in Ones(widths[words[i]])} : i \in DOMAIN words} |->
            Flat(step[One(p[1], p[2])].state)]

\* The rank of the columns lo to hi - 1, and the rows with zeros there.
RECURSIVE Eliminated(_, _, _)
Eliminated(rows, lo, hi) ==
    IF hi = lo + 1
    THEN LET have == {r \in rows : lo \in r}
         IN  IF have = {} THEN [rank |-> 0, rows |-> rows]
             ELSE LET pivot == CHOOSE r \in have : TRUE
                  IN  [rank |-> 1, rows |-> (rows \ have) \cup {r \oplus pivot : r \in have \ {pivot}}]
    ELSE LET mid == (lo + hi) \div 2
         IN  The({[Eliminated(left.rows, mid, hi) EXCEPT !.rank = @ + left.rank] :
                    left \in {Eliminated(rows, lo, mid)}})

LostByMatrix(m) ==
    LET words == {p[1] : p \in DOMAIN m}
        rows  == {m[p] : p \in DOMAIN m}
    IN  Cardinality(DOMAIN m) - Eliminated(rows, 0, Stride * (1 + Cardinality(words))).rank

Linear(name, nbits, widths, warm, Create(_), Get(_)) ==
    Plugin(name, nbits, DOMAIN widths, warm, Create, Get,
           LAMBDA step, s : [lost |-> LostByMatrix(Matrix(widths, step)), wrong |-> 0])

\* Prime divisors of 2^n - 1 (lfsr_period_factors.c).
PrimeDivisors(n) ==
    LET Of32  == {3, 5, 17, 257, 65537}
        Of48  == {3, 5, 7, 13, 17, 97, 241, 257, 673}
        Of64  == Of32 \cup {641, 6700417}
        small == CASE n = 24  -> {3, 5, 7, 13, 17, 241}
                   [] n = 32  -> Of32
                   [] n = 48  -> Of48
                   [] n = 64  -> Of64
                   [] n = 96  -> Of48 \cup {193, 65537, 22253377}
                   [] n = 128 -> Of64 \cup {274177}
    IN  {Num(q) : q \in small} \cup (IF n = 128 THEN {Hex(<<\h3D30, \hF19C, \hD101>>)} ELSE {})

(***************************************************************************)
(* The shortest recurrence of the bits whose places are the set `ones', of *)
(* n bits, as a polynomial of degree L (Berlekamp and Massey): one that    *)
(* fails at bit i is mended by the last one that failed before it became   *)
(* longer.                                                                 *)
(***************************************************************************)
RECURSIVE Mended(_, _, _, _)
Mended(ones, lo, hi, poly) ==
    IF hi = lo + 1
    THEN LET fails  == Cardinality({c \in poly.C : lo - c \in ones}) % 2 = 1
             mended == poly.C \oplus (poly.B \ll poly.since)
         IN  IF ~fails THEN [poly EXCEPT !.since = @ + 1]
             ELSE IF 2 * poly.L > lo THEN [poly EXCEPT !.C = mended, !.since = @ + 1]
             ELSE [C |-> mended, L |-> lo + 1 - poly.L, B |-> poly.C, since |-> 1]
    ELSE LET mid == (lo + hi) \div 2
         IN  The({Mended(ones, mid, hi, first) : first \in {Mended(ones, lo, mid, poly)}})
Recurrence(n, ones) ==
    LET last == Mended(ones, 0, n, [C |-> {0}, L |-> 0, B |-> {0}, since |-> 1])
    IN  {last.L - c : c \in last.C}

\* x^steps modulo a polynomial of degree n, steps being a word of n bits;
\* high has x^(n - 1) and the powers above.
RECURSIVE Above(_, _, _, _, _)
Above(a, high, n, lo, hi) ==
    IF hi = lo + 1 THEN If(lo \in a, high[lo - n + 2])
    ELSE LET mid == (lo + hi) \div 2
         IN  Above(a, high, n, lo, mid) \oplus Above(a, high, n, mid, hi)
Reduced(a, high, n) == Cut(n, a) \oplus Above(a, high, n, n, 2 * n)
RECURSIVE Power(_, _, _, _, _)
Power(steps, i, a, high, n) ==
    IF i = 0 \/ a = {} THEN a
    ELSE LET odd == IF i - 1 \in steps THEN 1 ELSE 0
         IN  Power(steps, i - 1, Reduced({2 * e + odd : e \in a}, high, n), high, n)
XToThe(steps, high, n) == Power(steps, n, {0}, high, n)

\* The period is 2^n - 1 if the recurrence of any one bit has degree n, and x
\* comes back to 1 after as many steps, but not after that divided by a prime.
\* A step of that period loses nothing; another one is looked at.
Maximal(name, nbits, widths, warm, Create(_), Get(_)) ==
    Plugin(name, nbits, DOMAIN widths, warm, Create, Get,
           LAMBDA step, s :
             LET n == FoldSet(LAMBDA f, sum : sum + Cardinality(Ones(widths[f])), 0, DOMAIN widths)
                 f == CHOOSE f \in DOMAIN widths : TRUE
                 run == Gave(step, 2 * n, s)
                 poly == Recurrence(2 * n, {i \in 0 .. 2 * n - 1 : 0 \in run[i + 1].state[f]})
                 Up(a) == IF n - 1 \in a THEN (a \ll 1) \oplus poly ELSE a \ll 1
                 high == Orbit([a \in SUBSET Nat |-> Up(a)], n + 1, {n - 1})
                 Back(steps) == XToThe(steps, high, n) = {0}
                 wrong == IF n \notin poly THEN n
                          ELSE Cardinality({q \in PrimeDivisors(n) : Back(DivMod(n, Ones(n), q).q)})
                               + (IF Back(Ones(n)) THEN 0 ELSE 1)
             IN  [lost  |-> IF wrong = 0 THEN 0 ELSE LostByMatrix(Matrix(widths, step)),
                  wrong |-> wrong])

=============================================================================
