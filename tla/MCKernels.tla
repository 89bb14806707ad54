----------------------------- MODULE MCKernels -----------------------------
(***************************************************************************)
(* The pure algorithms of the library - LinearDep, periods, the counting   *)
(* parts of the tests, the bins of the Hamming weights tests, base64 - on  *)
(* every input of the sizes in the .cfg: a state is a task with its input  *)
(* and, after one step, the answer.  The objects that hand out words (the  *)
(* envelopes, the reader of stdin) are stepped word by word.               *)
(*                                                                         *)
(* Every property compares an answer with a definition of what it should   *)
(* be that does not follow the code.                                       *)
(***************************************************************************)
EXTENDS KernelTasks, ExtraTests, HammingTests, BatFile, TripleSearch

CONSTANTS
    StreamValues, Period,               \* streams of a generator
    SampleLength,                       \* points of a test
    Weights, Counts, TableSizes,        \* tables of tuples to be reduced
    MaxCount,                           \* bytes, values, words at most
    TextLengths,                        \* words in base64
    LfsrSizes,                          \* bits of a state of a generator
    MvalueBits,                         \* fixed bits whose values are listed
    Log2Lengths, Log2Lambdas,           \* options of the collision test
    NValues, Skips,                     \* its samples, tries before them
    Searches, SearchThreads             \* kinds of generators, threads of a search

Tuples(S, n) == [1 .. n -> S]
Arrays(S, n) == [0 .. n - 1 -> S]
Streams      == Arrays(StreamValues, Period)

\* Two dimensions of two bits or three of one.
Dimensions ==
    {[ndims |-> d[1], nbits_per_dim |-> d[2], get_lower |-> low] :
        d \in {<<2, 2>>, <<3, 1>>}, low \in BOOLEAN}

MCGapSettings ==
    {[shl |-> shl, nbins |-> 2, max_gap_len |-> len, ngaps |-> 2] :
        shl \in {1, 2}, len \in {3, 5}}
MCWordGaps == {[nbins |-> 3, ngaps |-> 2 * Period], [nbins |-> 1, ngaps |-> 3]}

\* Sequences of n words of which at most one has a 1, in one place.
SparseWords(n) ==
    {[k \in 1 .. n |-> [i \in 1 .. 32 |-> IF one = <<k, i>> THEN 1 ELSE 0]] :
        one \in {<<0, 0>>} \cup ((1 .. n) \X (1 .. 32))}
MCTextWords == UNION {SparseWords(n) : n \in TextLengths}

(***************************************************************************)
(* Generators for the analysis of periods: all linear ones on states of up *)
(* to 3 bits, xorshifts and shift registers of more, and the two of        *)
(* test_lfsr_period.c that are not linear.                                 *)
(***************************************************************************)
Generator(nbytes, byte, f, seed) ==
    [nbytes |-> nbytes, byte |-> byte, get_bits |-> f, seed |-> seed,
     nmallocs |-> 1, enveloped |-> FALSE]

Applied(a) == [s \in SUBSET (DOMAIN a) |-> Times(s, a)]
AllStates(n) == SUBSET (0 .. n - 1)

Shifted(n, s, k) == {i + k : i \in s} \cap (0 .. n - 1)
XorshiftMatrix(n, a, b, c) ==
    [i \in 0 .. n - 1 |->
        LET x == Plus({i}, Shifted(n, {i}, a))
            y == Plus(x, Shifted(n, x, -b))
        IN  Plus(y, Shifted(n, y, c))]
Register(n, taps) ==
    [i \in 0 .. n - 1 |-> IF i = n - 1 THEN taps ELSE {i + 1}]

LinearSteps(n) ==
    IF n <= 3 THEN Matrices(n)
    ELSE {XorshiftMatrix(n, s[1], s[2], s[3]) : s \in (1 .. n) \X (1 .. n) \X (1 .. n)}
         \cup {Register(n, taps) : taps \in AllStates(n)}

\* A counter, and the T-function of Klimov and Shamir.
Number(s)     == MapThenSumSet(LAMBDA b : 2^b, s)
BitsOf(n, x)  == {b \in 0 .. n - 1 : (x \div 2^b) % 2 = 1}
Low5Set(x)    == Number(BitsOf(8, x) \cup {0, 2})
NonlinearSteps(n) ==
    {[s \in AllStates(n) |-> BitsOf(n, Number(s) + 1)],
     [s \in AllStates(n) |-> BitsOf(n, Number(s) + Low5Set(Number(s)^2))]}

Generators(n) ==
    LET byte == IF n % 2 = 0 THEN 2 ELSE n
    IN  {Generator(n \div byte, byte, f, seed) :
            f \in {Applied(a) : a \in LinearSteps(n)} \cup NonlinearSteps(n),
            seed \in {{0}, {1}, 0 .. n - 1}}

(***************************************************************************)
(* Files with up to three entries, of which some are wrong, and files with *)
(* one test of which up to two arguments are not as they should be.        *)
(***************************************************************************)
Word(name, value) == [name |-> name, value |-> value]
Entry(name, args) == <<Word(name, Null)>> \o args \o <<EndToken>>
GapArgs(args) == <<Word("test", "gap16_count0")>> \o args
Segments ==
    {Entry("A", GapArgs(<<Word("ngaps", "least")>>)),
     Entry("A", GapArgs(<<Word("ngaps", "next"), Word("ngaps", "below")>>)),
     Entry("A", GapArgs(<<Word("ngaps", "above"), Word("ngaps", "least")>>)),
     Entry("A", GapArgs(<<Word("ngaps", "least"), Word(LongName, "least")>>)),
     Entry("A", GapArgs(<<Word("ngaps", Null)>>)),
     Entry("A", <<Word("ngaps", "least")>>),
     Entry("A", <<Word("test", "none such"), Word("ngaps", "least")>>),
     Front(Entry("A", GapArgs(<<Word("ngaps", "least")>>))),
     Entry("battery", <<Word("name", "B")>>), Entry("battery", <<>>), <<EndToken>>}

TextValues == {"below", "least", "next", "greatest", "above", "leas_t", "least and more",
               "text", "bytes", "w256", "wolff", "mid"}
TestEntry(test, values) ==
    LET args == Parsers[test]
    IN  Entry("A", FoldLeft(LAMBDA acc, arg : IF values[arg.name] = Null THEN acc
                                              ELSE Append(acc, Word(arg.name, values[arg.name])),
                            <<Word("test", test)>>, args))
TestFiles(test) ==
    LET names == {Parsers[test][i].name : i \in DOMAIN Parsers[test]}
        good  == [n \in names |->
                    LET arg == CHOOSE i \in DOMAIN Parsers[test] : Parsers[test][i].name = n
                        codes == Parsers[test][arg].codes
                    IN  CHOOSE v \in TextValues : IF codes = {} THEN v = "least" ELSE v \in codes]
    IN  {TestEntry(test, [good EXCEPT ![p[1]] = p[2], ![p[3]] = p[4]]) :
            p \in names \X (TextValues \cup {Null}) \X names \X {"least", "greatest", "below", Null}}

BatteryFiles == {FlattenSeq(f) : f \in UNION {Tuples(Segments, n) : n \in 0 .. 3}}
                \cup UNION {TestFiles(test) : test \in DOMAIN Parsers}

(***************************************************************************)
(* Samples of the collision test, which begin where the measurement of the *)
(* speed has left the generator, and lattices of 2 x 2 and 3 x 3 spins.    *)
(***************************************************************************)
Samples ==
    {[s |-> s, wide |-> wide, e |-> m[1], mvalue |-> m[2], skip |-> skip] :
        s \in Streams, wide \in BOOLEAN, m \in {<<0, 0>>, <<1, 0>>, <<1, 1>>}, skip \in Skips}

Spins == UNION {{[L |-> L, s |-> s] : s \in Lattices(L)} : L \in {2, 3}}

(***************************************************************************)
(* Searches for triples: kind, number and bits of the words, and whether   *)
(* create leaves the triple unset.                                         *)
(***************************************************************************)
Kind(kind, k, w, unset) == [kind |-> kind, k |-> k, w |-> w, unset |-> unset]

SearchKinds ==
    {g \in {Kind("xorshift", 1, w, FALSE) : w \in 3 .. 5}
           \cup {Kind("xorrot24b", 1, 4, FALSE)}
           \cup {Kind("xorshift long", 3, 3, FALSE), Kind("xoroshiro", 3, 3, FALSE),
                 Kind("xoroshiro w8", 3, 3, FALSE),
                 Kind("xorrot", 2, 4, FALSE), Kind("xorrot", 3, 3, FALSE),
                 Kind("xorrot", 4, 3, TRUE)} :
        g.kind \in Searches}

\* States by number.
StateOf(g, x) == [i \in 0 .. g.k - 1 |-> BitsOf(g.w, (x \div 2^(g.w * i)) % 2^g.w)]
NumberOf(g, s) == Number(UNION {{g.w * i + b : b \in s[i]} : i \in 0 .. g.k - 1})

\* The state after k > 0 outputs from x, and all states that led to it;
\* that of zeros is never left.
RECURSIVE Walk(_, _, _, _)
Walk(g, t, x, k) ==
    IF k = 1 THEN LET next == NumberOf(g, NextState(g, StateOf(g, x), t))
                  IN  [last |-> next, seen |-> {next}]
    ELSE LET half == Walk(g, t, x, k \div 2)
             rest == Walk(g, t, half.last, k - (k \div 2))
         IN  IF half.last = 0 THEN half
             ELSE [last |-> rest.last, seen |-> half.seen \cup rest.seen]

\* State 1 comes back, after all others but the one of zeros.
HasFullPeriod(g, t) ==
    LET size == 2^(g.w * g.k) - 1
        walk == Walk(g, t, 1, size)
    IN  walk.last = 1 /\ Cardinality(walk.seen) = size

\* The triples with a full period, of all those with shifts below w.
FullTriples == [g \in SearchKinds |->
    {t \in Tuples(1 .. g.w - 1, 3) : HasFullPeriod(g, t)}]

\* Their places in the array.
GoodPlaces == [g \in SearchKinds |->
    {i \in DOMAIN MakeTriples(g) : MakeTriples(g)[i] \in FullTriples[g]}]

Init ==
    TaskInit \/
    /\ answer = Unknown /\ work = Unknown
    /\ \/ \E n \in MatrixSizes : Choose("rank", {[n |-> n, a |-> a] : a \in Matrices(n)})
       \/ \E o \in Dimensions, s \in Streams :
            Choose("points", {[o |-> o, s |-> s]})
       \/ Choose("words", Streams)
       \/ \E n \in TableSizes : \E w \in Tuples(Weights, n), c \in Tuples(Counts, n) :
            Choose("bins", {[weights |-> w, counts |-> c]})
       \/ Choose("bytes", {"bytes", "bytes_low8", "bytes_low1"} \X (1 .. MaxCount))
       \/ Choose("blocks", (1 .. 3) \X (1 .. 3) \X (1 .. MaxCount))
       \/ \E n \in LfsrSizes : Choose("lfsr", Generators(n))
       \/ Choose("file", BatteryFiles)
       \/ Choose("options", {32, 64} \X Log2Lengths \X Log2Lambdas)
       \/ Choose("sample", Samples)
       \/ Choose("spins", Spins)
       \/ Choose("search", {[g |-> g, nthreads |-> n] : g \in SearchKinds, n \in SearchThreads})

Rank == Solve("rank", CalcRank(input.n, input.a))

\* The result of the battery, the polynomial, powers of x and of the
\* matrix, and jumps from the seed.
AnalysePeriod ==
    LET c == GetPoly(input)
        A == GetMatrix(input, 1)
    IN  Solve("lfsr",
              [result |-> BatteryLfsrPeriod(input), poly |-> c,
               jumps |-> IF PolyIsValid(c)
                         THEN [p \in 0 .. 3 |-> MakeJumpPow2(input, input.seed, p)]
                         ELSE <<>>,
               powers |-> IF PolyIsValid(c)
                          THEN [p \in 1 .. 3 |->
                                 LET e == LargeSubtract(LargeFromPow2(p + 1), p)
                                 IN  [x |-> JumppolyN(c, e).w, A |-> MatrixPow(A, e),
                                      half |-> MatrixPow(A, LargeDiv2(e))]]
                          ELSE <<>>])

Points ==
    Solve("points",
          [ndups  |-> {Ndups(BspacePoints(input.o, input.s, SampleLength), wild) :
                            wild \in Wild},
           tuples |-> OverlappingTuples(input.o, input.s, SampleLength),
           Oi     |-> {CollisionOver(input.o, input.s, SampleLength, wild) :
                            wild \in Wild}])

CountWords ==
    Solve("words",
          [sums  |-> SumCollector(2^OutBits + 1, 3, input, 2 * Period),
           mod3  |-> Mod3(2, input, Period),
           maxs  |-> MaxOfT(2, 4, input, Period),
           nbits |-> NBitWords(WordBits, 1, input),
           bits  |-> Bitsum(input, Period),
           block |-> BlockFrequency(input, OutBits \div BlockBits)])

Reduce ==
    Solve("bins", ReduceTable(Bins(input.weights, input.counts), 2))

StreamBytes ==
    Solve("bytes", Bytes(input[1], [k \in Nat |-> Output(k, BufferBits)], input[2])
                   @@ [tuples |-> CountedTuples(3, [k \in Nat |-> k], input[2])])

Blocks == Solve("blocks", HammingDistr(input[1], input[2], input[3]))

\* The first n values of the fixed bits from m on.
RECURSIVE MvaluesFrom(_, _, _)
MvaluesFrom(e, m, n) ==
    IF n = 1 THEN <<m>>
    ELSE LET half == MvaluesFrom(e, m, n \div 2)
         IN  half \o MvaluesFrom(e, UpdateMvalue(e, Last(half)), n - n \div 2)

Decimate ==
    LET o == Collover64Options(input[1], input[2], input[3])
    IN  Solve("options",
              [o |-> o, lambda |-> Log2Lambda(o),
               mvalues |-> IF o.e > MvalueBits THEN <<>> ELSE MvaluesFrom(o.e, 0, 2^o.e + 1)])

Sample ==
    LET got == Collect(input.s, input.wide, input.e, input.mvalue, NValues, input.skip)
    IN  Solve("sample", got @@ [ndups |-> {CollisionNdups(got.x, wild) : wild \in Wild}])

\* A pass of the Wolff algorithm and a trial of the other one, from every cell.
WolffFlips == [s \in Lattices(2) |->
    FoldSet(LAMBDA i, sum : sum (+) FlipWolff(2, s, i, s[i], 3^8), EmptyBag, Cells(2))]

Flip ==
    LET L == input.L s == input.s
    IN  Solve("spins",
              [energy |-> Energy(L, s),
               wolff  |-> IF L = 2 THEN WolffFlips[s] ELSE EmptyBag,
               chance |-> [wild \in {0, 81} |-> [i \in Cells(L) |-> Metropolis(L, s, i, wild)]]])

LoadBattery == Solve("file", BatteryFile(input))

-----------------------------------------------------------------------------
(***************************************************************************)
(* A search for triples: the threads go on in any order; when all of them  *)
(* have ended the main thread prints what they have found.                 *)
(***************************************************************************)
StartSearch ==
    /\ task = "search" /\ work = Unknown
    /\ work' \in SearchStart(input.g, input.nthreads)
    /\ UNCHANGED <<task, input, answer>>

ExamineTriple ==
    /\ task = "search" /\ work # Unknown
    /\ work' \in SearchSteps(work, GoodPlaces[input.g])
    /\ UNCHANGED <<task, input, answer>>

PrintTriples ==
    /\ task = "search" /\ work # Unknown /\ answer = Unknown /\ SearchEnded(work)
    /\ answer' = Printed(input.g, work)
    /\ UNCHANGED <<task, input, work>>

Next == \/ TaskNext \/ Rank \/ AnalysePeriod \/ Points \/ CountWords
        \/ Reduce \/ StreamBytes \/ Blocks \/ LoadBattery
        \/ Decimate \/ Sample \/ Flip
        \/ StartSearch \/ ExamineTriple \/ PrintTriples

Spec == Init /\ [][Next]_vars


-----------------------------------------------------------------------------
(***************************************************************************)
(* What matrixrank_test needs of calc_bin_matrix_rank: it recognises the   *)
(* regular matrices, and among all matrices of a size every rank is        *)
(* returned exactly as often as it occurs, so the frequencies the test     *)
(* compares with the theory are right for a perfect generator.  They are   *)
(* not always returned for the matrices that have them: rows 000, 000, 011 *)
(* give 2, since after a column without a pivot the search for the next    *)
(* one starts at row `rank', above the row it is swapped with.             *)
(***************************************************************************)
Returned == [k \in MatrixSizes |->
    [r \in 0 .. k |->
        Cardinality({a \in Matrices(k) : CalcRank(k, a) = r})]]
Occurring == [k \in MatrixSizes |->
    [r \in 0 .. k |-> Cardinality({a \in Matrices(k) : IsRank(k, a, r)})]]

RanksAreCounted ==
    Done("rank") =>
        /\ answer = input.n <=> IsRank(input.n, input.a, input.n)
        /\ Returned[input.n] = Occurring[input.n]

(***************************************************************************)
(* The proof of the period 2^n - 1, from the definition of the period: the *)
(* battery says that the period of a linear generator is maximal if and    *)
(* only if all states but 0 form one cycle, whatever state but 0 it begins *)
(* with, and refuses a counter and a T-function (test_lfsr_period.c).  The *)
(* variant that only sees the lowest bits of the outputs judges the        *)
(* shortest register that makes them, if it has seen enough of them for    *)
(* there to be only one.                                                   *)
(***************************************************************************)
HasMaxPeriod(n, f) ==
    LET run[k \in 0 .. 2^n - 1] == IF k = 0 THEN {0} ELSE f[run[k - 1]]
    IN  /\ {run[k] : k \in 0 .. 2^n - 2} = AllStates(n) \ {{}}
        /\ run[2^n - 1] = {0}

IsLinear(n, f) ==
    \A s \in AllStates(n) : f[s] = FoldSet(LAMBDA i, acc : Plus(acc, f[{i}]), {}, s)

\* The register that adds the bits at the distances in D, as a function
\* on the last L bits.
FeedbackOf(L, D) ==
    [s \in AllStates(L) |-> {i - 1 : i \in s \ {0}}
                            \cup (IF IsOdd({d \in D : L - d \in s}) THEN {L - 1} ELSE {})]

PeriodTestIsExact ==
    /\ Done("lfsr") =>
        LET n == input.nbytes * input.byte
            f == input.get_bits
        IN  /\ IsLinear(n, f) => (answer.result = PERIOD_MAX <=> HasMaxPeriod(n, f))
            /\ f \in NonlinearSteps(n) => answer.result = PERIOD_ERROR
    /\ Done("complexity") =>
        LET n == input.n
            Registers(L) == {D \in SUBSET (1 .. L) : Generates(n, input.a, D, L)}
            Good(L) == \E D \in Registers(L) : HasMaxPeriod(L, FeedbackOf(L, D))
            L == LinearComplexity(n, input.a)
        IN  IF L \notin FactoredSizes \/ 2 * L > n
            THEN answer.period = PERIOD_MAX => L \in FactoredSizes /\ Good(L)
            ELSE answer.period = PERIOD_MAX <=> 2 * (L + BmMargin) < n /\ Good(L)

(***************************************************************************)
(* A linear generator obeys the polynomial that is printed for it, a jump  *)
(* by it is as many single steps, and powers of x and of the matrix, with  *)
(* exponents made by borrows and shifts across words, are that many steps. *)
(***************************************************************************)
JumpsAreExact ==
    Done("lfsr") /\ PolyIsValid(answer.poly)
        /\ IsLinear(input.nbytes * input.byte, input.get_bits) =>
        LET g == input
            n == input.nbytes * input.byte
            After(s, k) == Run(g, s, k)[k]
            Combined(S, s) == FoldSet(LAMBDA k, acc : Plus(acc, After(s, k)), {}, S)
            Is(p, e, b) == /\ Combined(p.x, {b}) = After({b}, e)
                           /\ p.A[b] = After({b}, e)
                           /\ p.half[b] = After({b}, e \div 2)
        IN  /\ \A b \in 0 .. n - 1 : Combined(answer.poly.w \cup {n}, {b}) = {}
            /\ \A p \in DOMAIN answer.jumps : answer.jumps[p] = After(g.seed, 2^p)
            /\ \A p \in DOMAIN answer.powers, b \in 0 .. n - 1 :
                    Is(answer.powers[p], 2^(p + 1) - p, b)

\* The analysis of a linear generator: its verdict and its jumps.
LfsrIsExact == PeriodTestIsExact /\ JumpsAreExact

(***************************************************************************)
(* find_xorshift_params: every triple in the array is examined by exactly  *)
(* one thread, what is printed are triples with a full period, each once,  *)
(* and all of them up to an exchange of the shifts that does not change    *)
(* the period.  For xorrot24b the exchange does, and the triples with      *)
(* b >= c are lost.  With more threads than the table holds the triples of *)
(* the surplus ones are not examined at all, those of thread 0 again; and  *)
(* only a create without a triple may lead to a refusal.                   *)
(***************************************************************************)
Exchanged(kind, t) ==
    CASE kind = "xorshift" -> <<t[3], t[2], t[1]>>
      [] kind = "xorrot"   -> <<t[1], t[3], t[2]>>
      [] OTHER             -> t

SearchIsComplete ==
    Done("search") =>
        LET g == input.g
            found == {answer[i].t : i \in DOMAIN answer}
            full  == FullTriples[g]
            Lost(t) == g.kind = "xorrot24b" /\ t[2] >= t[3]
            Examined(i) == work.triples[i].times
            Surplus == {ord \in 0 .. input.nthreads - 1 : ord >= TableSize}
        IN  /\ work.refused => g.unset
            /\ Cardinality(found) = Len(answer) /\ found \subseteq full
            /\ ~work.refused /\ Surplus = {} =>
                 /\ \A i \in DOMAIN work.triples : Examined(i) = 1
                 /\ \A t \in full : Lost(t) \/ {t, Exchanged(g.kind, t)} \cap found # {}
                 /\ \A t \in found : Exchanged(g.kind, t) \in (full \ found) \cup {t}
            /\ ~work.refused /\ Surplus # {} =>
                 \A i \in DOMAIN work.triples :
                    LET ord == (i - 1) % input.nthreads
                    IN  Examined(i) = IF ord \in Surplus THEN 0
                                   ELSE IF ord = 0 THEN 1 + Cardinality(Surplus) ELSE 1

-----------------------------------------------------------------------------
(***************************************************************************)
(* bspace_get_ndups counts every spacing that repeats another one.         *)
(***************************************************************************)
Distinct(x) == {x[i] : i \in DOMAIN x}

DistinctSpacings(points) ==
    LET P == Distinct(points)
    IN  {q - Max({p \in P : p < q}) : q \in P \ {Min(P)}}
        \cup (IF Cardinality(P) < Length(points) THEN {0} ELSE {})

NdupsAreExact ==
    Done("points") =>
        answer.ndups = {SampleLength - 1
            - Cardinality(DistinctSpacings(BspacePoints(input.o, input.s, SampleLength)))}

(***************************************************************************)
(* collisionover_test: tuple i is made of the outputs up to number i +     *)
(* Warmup, the last one in front, and lacks some only while there have not *)
(* been ndims of them; and cells are counted by their hits, except the     *)
(* cell of the greatest tuple, which counts as empty.                      *)
(***************************************************************************)
CollisionsAreExact ==
    Done("points") =>
        LET o       == input.o
            T       == answer.tuples
            CoordinateOf(i, d) == (T[i] \div 2^(d * o.nbits_per_dim)) % 2^o.nbits_per_dim
            Hits(t) == Cardinality({i \in DOMAIN T : T[i] = t})
            Counted == Distinct(T) \ {Max(Distinct(T))}
            HitBy(n) == Cardinality({t \in Counted : Hits(t) = n})
        IN  /\ \A i \in DOMAIN T, d \in 0 .. o.ndims - 1 :
                    LET k == i + Warmup - (o.ndims - 1 - d)
                    IN  CoordinateOf(i, d) = IF k < 0 THEN 0
                                       ELSE Coordinate(o, At(input.s, k))
            /\ answer.Oi = {(0 :> 2^(o.ndims * o.nbits_per_dim) - Cardinality(Counted))
                            @@ (1 :> HitBy(1)) @@ (2 :> HitBy(2))
                            @@ (3 :> Cardinality(Counted) - HitBy(1) - HitBy(2))}

\* Both tests that look at points in several dimensions.
PointsAreExact == NdupsAreExact /\ CollisionsAreExact

(***************************************************************************)
(* The tables of sumcollector_test, mod3_test, maxoft_test and             *)
(* nbit_words_freq_test: the lengths of successive sums, each begun by the *)
(* output behind the one that ended the last sum; the remainders of nine   *)
(* (here two) successive outputs, the last one lowest; the bin of the      *)
(* probability that t outputs are no greater; and all words of a block.    *)
(***************************************************************************)
SumLengths(sum_max, s, nvalues) ==
    LET Total_(b, e) == FoldLeft(LAMBDA acc, k : acc + At(s, k), 0,
                                 [i \in 1 .. e - b + 1 |-> b + i - 1])
        End(b) == Min({e \in b + 1 .. b + nvalues : Total_(b, e) > sum_max}
                      \cup {b + nvalues})
        \* sum number i: where it begins, and the value of the loop counter
        sum[i \in 0 .. nvalues] ==
            IF i = 0 THEN [begin |-> 0, count |-> 0]
            ELSE LET prev == sum[i - 1]
                     end  == End(prev.begin)
                 IN  [begin |-> end + 1,
                      count |-> prev.count + end - prev.begin
                                + (IF i = 1 THEN 1 ELSE 0)]
    IN  {<<i, End(sum[i].begin) - sum[i].begin>> :
            i \in {j \in 0 .. nvalues - 1 : sum[j + 1].count <= nvalues}}

TablesAreExact ==
    Done("words") =>
        LET N == 2 * Period
            S == SumLengths(2^OutBits + 1, input, N)
            Low(k) == At(input, k) % 3
            Bits == [k \in 0 .. OutBits * Period - 1 |->
                        (At(input, k \div OutBits) \div 2^(k % OutBits)) % 2]
        IN  /\ \A y \in 0 .. 3 : answer.sums.Oi[y]
                    = Cardinality({p \in S : IF y = 3 THEN p[2] >= 3 ELSE p[2] = y})
            /\ \A t \in 0 .. 8 : answer.mod3[t]
                    = Cardinality({i \in 0 .. Period - 1 : 3 * Low(i) + Low(i + 1) = t})
            /\ \A b \in 0 .. 4 : answer.maxs[b]
                    = Cardinality({i \in 0 .. Period - 1 :
                          LET u == Max({At(input, 2 * i), At(input, 2 * i + 1)})
                          IN  b * 2^(2 * OutBits) <= 4 * u^2
                              /\ 4 * u^2 < (b + 1) * 2^(2 * OutBits)})
            /\ \A w \in 0 .. 3 : answer.nbits[w]
                    = Cardinality({i \in 0 .. 3 : w = Bits[2 * i] + 2 * Bits[2 * i + 1]})
            /\ \A w \in 0 .. 3 : answer.block.w16freq[w]
                    = Cardinality({i \in 0 .. (OutBits * Period) \div 2 - 1 :
                                        w = Bits[2 * i] + 2 * Bits[2 * i + 1]})
            /\ \A c \in 0 .. 1 : answer.block.bytefreq[c]
                    = Cardinality({i \in DOMAIN Bits : Bits[i] = c})

\* What the core tests look at and count, before they make a statistic of it.
CoreTestsAreExact == PointsAreExact /\ TablesAreExact

-----------------------------------------------------------------------------
(***************************************************************************)
(* HammingWeightsTuple_reduce_table: the bins are runs of successive       *)
(* tuples, no tuple is lost or counted twice, their sums are right and     *)
(* each is frequent enough.  Only when all tuples together are too few for *)
(* one bin does it write in front of the table (hwtests.c:173).            *)
(***************************************************************************)
BinsAreExact ==
    Done("bins") =>
        LET n     == Len(input.weights)
            bins  == answer.out
            Sum(f, S) == FoldSet(LAMBDA i, acc : acc + f[i], 0, S)
            Count == Sum(input.counts, 1 .. n)
            Weight == Sum(input.weights, 1 .. n)
        IN  /\ answer.underrun <=> Count < 2
            /\ ~answer.underrun =>
                /\ UNION {bins[b].from : b \in DOMAIN bins} = 1 .. n
                /\ \A b, c \in DOMAIN bins :
                        b < c => \A i \in bins[b].from, k \in bins[c].from : i < k
                /\ \A b \in DOMAIN bins :
                        /\ bins[b].count = Sum(input.counts, bins[b].from)
                        /\ bins[b].p = Sum(input.weights, bins[b].from)
                        /\ bins[b].p * Count >= 2 * Weight

(***************************************************************************)
(* Bytes of the stream are the bits of the outputs in the order in which   *)
(* they were drawn, whatever part of an output the mode takes; the tuples  *)
(* are windows of successive codes; blocks of hamming_distr_test at every  *)
(* level are cut from the same values, which are counted once per level,   *)
(* and each pair is two neighbouring blocks that belong to no other pair.  *)
(***************************************************************************)
BitsTaken(mode) == IF mode = "bytes" THEN BufferBits
                   ELSE IF mode = "bytes_low8" THEN ByteBits ELSE 1

BytesAreInOrder ==
    Done("bytes") =>
        LET take == BitsTaken(input[1])
        IN  /\ FlattenSeq(answer.bytes)
                = [i \in 1 .. input[2] * ByteBits |-> <<(i - 1) \div take, (i - 1) % take>>]
            /\ \A i \in 0 .. input[2] - 1 : answer.tuples[i] = <<i, i + 1, i + 2>>

BlocksAreNested ==
    Done("blocks") =>
        LET nlevels == input[1]
            Exact(h, values) ==
                \A j \in 0 .. nlevels - 1 :
                    LET used == (Len(values) \div 2^nlevels) * 2^nlevels
                    IN  /\ FlattenSeq(h[j].o) = SubSeq(values, 1, used)
                        /\ \A b \in DOMAIN h[j].o : Len(h[j].o[b]) = 2^j
                        /\ FlattenSeq(h[j].o_xor) = h[j].o
            words == Pieces([i \in 1 .. input[3] |-> i], input[2])
        IN  /\ Exact(answer.all.h, [i \in 1 .. input[3] |-> i])
            /\ Exact(answer.low1.h, words)

\* What the Hamming weights tests cut from the outputs, and the bins that
\* they make of it.
HammingTestsAreExact == BytesAreInOrder /\ BlocksAreNested /\ BinsAreExact

-----------------------------------------------------------------------------
(***************************************************************************)
(* The collision test has as many collisions on the average as it was      *)
(* asked for, unless the sample is too long for that; the fixed bits take  *)
(* all their values before one of them occurs again; a sample are the      *)
(* outputs with these bits in the order of the stream, without one left    *)
(* out, and is given up when one of them is the ctr_max-th after the last  *)
(* or a later one; and all values that are not the first of their kind are *)
(* counted.                                                                *)
(***************************************************************************)
MvaluesAreComplete ==
    Done("options") =>
        LET o == answer.o
            free == 2 * o.log2_len - o.nbits_per_value - 1
        IN  /\ answer.lambda = IF free > input[3] THEN free ELSE input[3]
            /\ o.log2_len + o.e < 64
            /\ answer.mvalues # <<>> =>
                 /\ {answer.mvalues[i] : i \in 1 .. 2^o.e} = 0 .. 2^o.e - 1
                 /\ Last(answer.mvalues) = answer.mvalues[1]

SamplesAreExact ==
    Done("sample") =>
        LET last == input.skip + NValues * ctr_max
            Output_(k) == IF input.wide THEN At(input.s, k)
                          ELSE At(input.s, 2 * k) + 2^OutBits * At(input.s, 2 * k + 1)
            Is(k) == Output_(k) % 2^input.e = input.mvalue
            hit[j \in 0 .. NValues] ==
                IF j = 0 THEN input.skip - 1
                ELSE Min({k \in hit[j - 1] + 1 .. last : Is(k)} \cup {last})
        IN  /\ answer.is_ok <=>
                 \A j \in 1 .. NValues : Is(hit[j]) /\ hit[j] - hit[j - 1] < ctr_max
            /\ answer.is_ok => answer.x = [j \in 1 .. NValues |-> Output_(hit[j])]
            /\ answer.ndups = {Len(answer.x) - Cardinality(ToSet(answer.x))}

(***************************************************************************)
(* The Ising model: every pair of neighbours on the torus counts once in   *)
(* the energy, and both algorithms flip in detailed balance with it, so    *)
(* that the mean energy the test compares with is that of the model: from  *)
(* one lattice to another goes as much as back, a lattice with m pairs of  *)
(* different neighbours having the weight 3^-m.  The conversion to         *)
(* uint64_t that is undefined does not matter for this.                    *)
(***************************************************************************)
Different(L, s) ==
    LET Spin(x, y) == s[(y % L) * L + (x % L)]
        Around(x, y) == {d \in {<<1, 0>>, <<L - 1, 0>>, <<0, 1>>, <<0, L - 1>>} :
                            Spin(x + d[1], y + d[2]) # Spin(x, y)}
        Differing(x, y) == IF L > 2 THEN Cardinality(Around(x, y))
                         ELSE 2 * Cardinality(Around(x, y))
    IN  MapThenSumSet(LAMBDA i : Differing(i % L, i \div L), Cells(L)) \div 2

SpinsAreBalanced ==
    Done("spins") =>
        LET L == input.L s == input.s
            m(t) == Different(L, t)
            Flow(from, to) == CopiesIn(to, WolffFlips[from]) * 3^(8 - m(from))
        IN  /\ answer.energy = 2 * L * L - 2 * m(s)
            /\ L = 2 => /\ BagCardinality(answer.wolff) = 4 * 3^8
                        /\ \A t \in Lattices(2) : Flow(s, t) = Flow(t, s)
            /\ \A wild \in DOMAIN answer.chance, i \in Cells(L) :
                LET t == [s EXCEPT ![i] = -@]
                    back == Metropolis(L, t, i, wild)
                IN  IF m(t) >= m(s) THEN answer.chance[wild][i] * 3^(m(t) - m(s)) = back
                    ELSE answer.chance[wild][i] = back * 3^(m(s) - m(t))

\* The tests of extratests.c: their samples and their moves.
ExtraTestsAreExact == MvaluesAreComplete /\ SamplesAreExact /\ SpinsAreBalanced

\* What the tests of coretests.c and extratests.c count and sample is what they
\* announce, for every stream of outputs.
TestsAreExact == CoreTestsAreExact /\ ExtraTestsAreExact

-----------------------------------------------------------------------------
(***************************************************************************)
(* battery_file: the tests run in the order of the file, each with the     *)
(* arguments that the manual (smokerand.1:136) and the batteries in        *)
(* batscripts give it, the first one where one is repeated; or nothing is  *)
(* run, because an entry is not closed, empty or not made of name=value,   *)
(* because a battery has no name, or because of the first test that is     *)
(* unknown or lacks an argument or has a wrong one.  The program falls     *)
(* over a test without `test' and a linearcomp without `bitpos', and only  *)
(* then.  Nothing is freed twice or used when freed, and only the          *)
(* arguments of `battery' entries are left; and a name is only written     *)
(* behind its array when it has 64 characters.                             *)
(***************************************************************************)
Numbers == {"least", "next", "greatest", "leas_t", "least and more"}
Accepts(names) == [n \in names |-> Numbers]
Manual ==
    LET points == {"nbits_per_dim", "ndims", "nsamples", "get_lower"}
    IN  [bspace_nd |-> Accepts(points \cup {"lambda"}),
         bspace4_8d_decimated |-> Accepts({"step"}),
         collisionover |-> Accepts(points \cup {"n"}),
         gap |-> Accepts({"ngaps", "shl"}),
         gap16_count0 |-> Accepts({"ngaps"}),
         hamming_distr |-> Accepts({"nvalues", "nlevels"}),
         hamming_ot |-> Accepts({"nbytes"}) @@ [mode |-> {"values", "bytes", "bytes_low8", "bytes_low1"}],
         hamming_ot_long |-> Accepts({"nvalues"}) @@ [wordsize |-> {"w128", "w256", "w512", "w1024"}],
         ising2d |-> Accepts({"sample_len", "nsamples"}) @@ [algorithm |-> {"wolff", "metropolis"}],
         linearcomp |-> Accepts({"nbits"}) @@ [bitpos |-> Numbers \cup {"low", "mid", "high"}],
         matrixrank |-> Accepts({"max_nbits"}) @@ [n |-> Numbers \ {"next"}],
         maxoft |-> Accepts({"t", "ntuples", "nbins"}),
         mod3 |-> Accepts({"nvalues"}),
         monobit_freq |-> Accepts({"nvalues"}),
         nbit_words_freq |-> Accepts({"bits_per_word", "average_freq", "nblocks"}),
         sumcollector |-> Accepts({"nvalues"}),
         usphere |-> Accepts({"ndims", "npoints"})]

BatteryFileIsExact ==
    Done("file") =>
        LET places == SetToSortSeq({i \in DOMAIN input : input[i] = EndToken}, <)
            entries == [k \in DOMAIN places |->
                           SubSeq(input, (IF k = 1 THEN 0 ELSE places[k - 1]) + 1, places[k] - 1)]
            Value(e, name) ==
                LET at == {i \in 2 .. Len(e) : e[i].name = name}
                IN  IF at = {} THEN Null ELSE e[Min(at)].value
            IsBattery(e) == e[1] = Word("battery", Null)
            whole == /\ input = <<>> \/ Last(input) = EndToken
                     /\ \A k \in DOMAIN entries :
                            /\ entries[k] # <<>>
                            /\ \A i \in 2 .. Len(entries[k]) : entries[k][i].value # Null
                            /\ IsBattery(entries[k]) => Value(entries[k], "name") # Null
            tests == IF whole THEN SelectSeq(entries, LAMBDA e : ~IsBattery(e)) ELSE <<>>
            Lacks(e) == {n \in DOMAIN Manual[Value(e, "test")] :
                            Value(e, n) \notin Manual[Value(e, "test")][n]}
            FewTuples(e) == /\ Value(e, "test") = "maxoft" /\ Value(e, "nbins") = "greatest"
                            /\ Value(e, "ntuples") # "greatest"
            Runs(e) == Value(e, "test") \in DOMAIN Manual /\ Lacks(e) = {} /\ ~FewTuples(e)
            FallsOver(e) == \/ Value(e, "test") = Null
                            \/ /\ Value(e, "test") = "linearcomp" /\ Lacks(e) = {"bitpos"}
                               /\ Value(e, "bitpos") = Null
            wrong == {k \in DOMAIN tests : ~Runs(tests[k])}
            Number_(v) == IF v \in {"leas_t", "least and more"} THEN "least" ELSE v
            batteries == Cardinality({i \in DOMAIN input : input[i] = Word("battery", Null)})
        IN  /\ answer.verdict = CASE tests = <<>> -> "error"
                                  [] tests # <<>> /\ wrong = {} -> "ok"
                                  [] OTHER -> IF FallsOver(tests[Min(wrong)]) THEN "crash" ELSE "error"
            /\ answer.verdict # "ok" => answer.ran = <<>>
            /\ answer.verdict = "ok" =>
                 /\ DOMAIN answer.ran = DOMAIN tests
                 /\ \A k \in DOMAIN tests :
                      LET test == Value(tests[k], "test")
                      IN  /\ answer.ran[k].name = tests[k][1] /\ answer.ran[k].test = test
                          /\ {<<Parsers[test][j].name, answer.ran[k].opts[j]>> : j \in DOMAIN Parsers[test]}
                               = {<<n, Number_(Value(tests[k], n))>> : n \in DOMAIN Manual[test]}
            /\ answer.names /\ ~answer.misuse
            /\ answer.overrun => \E i \in DOMAIN input : input[i].name = LongName
            /\ answer.verdict # "crash" => Cardinality(answer.heap) <= batteries
            /\ answer.verdict = "ok" => Cardinality(answer.heap) = batteries

(***************************************************************************)
(* The state of a vectorised generator is initialised (xoroshiro128pp.c:   *)
(* "It mustn't be initialized with zeros!  Sequences from different copies *)
(* of PRNG mustn't overlap!"): no output is made from memory that create   *)
(* has left as malloc returned it.                                         *)
(***************************************************************************)
NothingUnsetIsRead == task = "plugin" /\ answer # Unknown => work.clean

(***************************************************************************)
(* The sum that monobit_freq_test divides by the square root of the number *)
(* n of bits is X = n - 2 * (number of ones), whose variance is n          *)
(* (docs/tests.md), up to its sign.                                        *)
(***************************************************************************)
MonobitIsDocumented ==
    Done("words") =>
        LET n    == OutBits * Period
            ones == FoldLeft(LAMBDA acc, i : acc + Ones(input[i]), 0,
                             [i \in 1 .. Period |-> i - 1])
        IN  answer.bits \in {n - 2 * ones, 2 * ones - n}

=============================================================================
