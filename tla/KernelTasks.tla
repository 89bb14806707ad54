----------------------------- MODULE KernelTasks -----------------------------
(***************************************************************************)
(* Tasks for those kernels whose results are proved: the linear complexity *)
(* of a sequence (src/src/lineardep.c), arrays in order (src/src/core.c),  *)
(* words as text (src/src/base64.c), the gaps in a stream                  *)
(* (src/src/coretests.c), and the words of an envelope (src/src/core.c),   *)
(* of the reader of stdin (src/src/fileio.c) and of plugins that make      *)
(* blocks (generators/*.c).                                                *)
(*                                                                         *)
(* A state is a task with its input, the answer, and the state of the      *)
(* object that works on it.  The objects are stepped word by word, all     *)
(* other tasks are answered in one step.                                   *)
(***************************************************************************)
EXTENDS LfsrPeriod, Sorting, Base64, GapTests, Envelopes, BlockPlugins

CONSTANTS
    Unknown,
    SortValues, SortLengths,            \* arrays to be sorted
    TextWords,                          \* sequences of words to be made texts
    GapStreams, GapSettings,            \* streams, options of gap_test
    WordGaps,                           \* words, bins of gap16_count0
    MaxGets,                            \* words from an envelope
    StdinWords, StdinBlocks,            \* words on stdin, block sizes
    MaxObjects,                         \* objects that read stdin
    PluginKinds,                        \* "sound", "uninitialised"
    Rounds                              \* batches beyond a round of a counter

ASSUME KernelTasksAssumption ==
    /\ {MaxGets, StdinWords, MaxObjects, Rounds} \subseteq Nat
    /\ StdinBlocks \subseteq Nat \ {0}
    /\ TextWords \subseteq Seq([1 .. 32 -> {0, 1}])
    /\ \A s \in GapStreams : IsStream(s)
    /\ GapSettings \subseteq
          [shl : 0 .. OutBits, nbins : Nat, max_gap_len : Nat \ {0}, ngaps : Nat \ {0}]
    /\ WordGaps \subseteq [nbins : Nat, ngaps : Nat]
    /\ SortLengths \subseteq Nat /\ SortValues \subseteq 0 .. RadixPower[Digits] - 1

VARIABLES task, input, answer, work

vars == <<task, input, answer, work>>

\* Where a digit below the lowest may be found.
Wild == 0 .. Digits - 1

PluginsOf(kind) == IF kind = "sound" THEN BlockPlugins ELSE Uninitialised

Choose(t, inputs) == task = t /\ input \in inputs

TaskInit ==
    /\ answer = Unknown /\ work = Unknown
    /\ \/ \E n \in Lengths : Choose("complexity", {[n |-> n, a |-> a] : a \in Sequences01(n)})
       \/ \E n \in SortLengths : Choose("sort", [0 .. n - 1 -> SortValues])
       \/ Choose("text", TextWords)
       \/ Choose("gaps", [o : GapSettings, s : GapStreams])
       \/ Choose("gap16", [o : WordGaps, s : GapStreams])
       \/ Choose("filter", {p \in Filters \X {Half, 2 * Half} : Suits(p[1], p[2])})
       \/ \E kind \in PluginKinds : Choose("plugin", DOMAIN PluginsOf(kind))
       \/ Choose("stdin", (0 .. StdinWords) \X StdinBlocks)

Solve(t, result) ==
    /\ task = t /\ answer = Unknown
    /\ answer' = result
    /\ UNCHANGED <<task, input, work>>

\* The register, and what lfsr_period_bm_test says of its period.
Complexity ==
    Solve("complexity", [register |-> BerlekampMassey(input.n, input.a),
                         period   |-> BmPeriodTest(input.n, input.a)])

\* The array in order, as each of the sorts leaves it.
Sort == Solve("sort", {Quicksort(input), Radixsort(input)}
                      \cup {RadixsortInplace(input, wild) : wild \in Wild}
                      \cup {Fastsort32(input, wild) : wild \in Wild}
                      \cup {Fastsort64(input, wild) : wild \in Wild})

\* A text and the texts that are nearly the same.
Variants(text) ==
    LET syms == Symbols(text)
        n    == Len(syms)
        All(b) == [i \in 1 .. 6 |-> b]
    IN  {text, syms, <<Junk>> \o text, Append(syms, All(0))}
        \cup (IF n = 0 THEN {} ELSE {SubSeq(syms, 1, n - 1), [syms EXCEPT ![n] = All(1)]})

\* Words are made a text; it and its variants are read back.
Base64Text ==
    Solve("text", {<<t, Decode(t)>> : t \in Variants(Encode(input))})

\* The gap tests.
Gaps == Solve("gaps", GapTest(input.o, input.s))
GapsOfWords == Solve("gap16", Gap16(input.o.nbins, input.s, input.o.ngaps))

-----------------------------------------------------------------------------
(***************************************************************************)
(* An envelope hands out up to MaxGets words.                              *)
(***************************************************************************)
Envelope ==
    /\ task = "filter" /\ answer = Unknown
    /\ work' = CreateEnveloped(input[1])
    /\ answer' = <<>>
    /\ UNCHANGED <<task, input>>

EnvelopeGet ==
    /\ task = "filter" /\ answer # Unknown /\ Len(answer) < MaxGets
    /\ LET got == GetBits(input[1], work, input[2])
       IN  work' = got.obj /\ answer' = Append(answer, got.out)
    /\ UNCHANGED <<task, input>>

(***************************************************************************)
(* A plugin with a buffer is created, and hands out its words: batches of  *)
(* blocks until its counter has carried or come back to 0, and some more.  *)
(***************************************************************************)
Plugin == IF input \in DOMAIN BlockPlugins THEN BlockPlugins[input] ELSE Uninitialised[input]

Batches(p) == Rounds + (IF p.chained THEN 0 ELSE CtrRange \div p.copies)

CreatePlugin ==
    /\ task = "plugin" /\ answer = Unknown
    /\ work' \in Create(Plugin)
    /\ answer' = [n |-> 0, out |-> <<>>]
    /\ UNCHANGED <<task, input>>

PluginGet ==
    /\ task = "plugin" /\ answer # Unknown
    /\ answer.n < Batches(Plugin) * Size(Plugin)
    /\ LET got == NextWord(Plugin, work)
       IN  work' = got.obj /\ answer' = [n |-> answer.n + 1, out |-> got.out]
    /\ UNCHANGED <<task, input>>

(***************************************************************************)
(* Objects that read stdin come and go, the last one is used; the answer   *)
(* is what each of them has delivered.                                     *)
(***************************************************************************)
OpenStdin ==
    /\ task = "stdin"
    /\ \/ answer = Unknown /\ work' = [in |-> StdinStart, obj |-> Collector(input[2])]
       \/ /\ answer # Unknown /\ Len(answer) < MaxObjects /\ ~work.in.exited
          /\ work' = [work EXCEPT !.obj = Collector(input[2])]
    /\ answer' = IF answer = Unknown THEN <<<<>>>> ELSE Append(answer, <<>>)
    /\ UNCHANGED <<task, input>>

StdinGet ==
    /\ task = "stdin" /\ answer # Unknown /\ ~work.in.exited
    /\ LET got == CollectorGet(work.obj, work.in, input[1], input[2])
       IN  /\ work' = [in |-> got.in, obj |-> got.obj]
           /\ answer' = IF got.in.exited THEN answer
                        ELSE [answer EXCEPT ![Len(answer)] = Append(@, got.word)]
    /\ UNCHANGED <<task, input>>

TaskNext == Complexity \/ Sort \/ Base64Text \/ Gaps \/ GapsOfWords
            \/ Envelope \/ EnvelopeGet \/ CreatePlugin \/ PluginGet \/ OpenStdin \/ StdinGet

TaskSpec == TaskInit /\ [][TaskNext]_vars

Done(t) == task = t /\ answer # Unknown

-----------------------------------------------------------------------------
(***************************************************************************)
(* berlekamp_massey: the length is the linear complexity of the sequence,  *)
(* and the feedback polynomial handed out has no terms beyond it and       *)
(* reproduces the sequence.  The only sequences that drive the copies of   *)
(* L + 1 elements past the end of the arrays of n elements are those whose *)
(* only 1 comes last.                                                      *)
(***************************************************************************)
ComplexitiesAreMinimal ==
    Done("complexity") =>
        LET b == answer.register
        IN  /\ b.L = LinearComplexity(input.n, input.a)
            /\ 0 \in b.C
            /\ \A e \in b.C : e <= b.L
            /\ Generates(input.n, input.a, b.C, b.L)
            /\ b.L + 1 > input.n
                 <=> \A k \in 0 .. input.n - 1 : input.a[k] = 1 <=> k = input.n - 1

(***************************************************************************)
(* Every way to sort (core.c) returns the same elements in order, for any  *)
(* mixture of digits, any number of equal elements, and whatever digit the *)
(* undefined shift below the lowest one delivers.                          *)
(***************************************************************************)
SortsAreExact == Done("sort") => \A y \in answer : IsSortedCopy(y, input)

(***************************************************************************)
(* base64: what was encoded is decoded, the text fits its buffer, and a    *)
(* text is accepted only if its symbols are those of the result, so that   *)
(* no two sequences of symbols are one key.                                *)
(***************************************************************************)
Base64IsCanonical ==
    Done("text") =>
        /\ <<Encode(input), input>> \in answer
        /\ Len(Encode(input)) = Base64Len(4 * Len(input))
        /\ \A p \in answer : p[2] # Failure => Symbols(Encode(p[2])) = Symbols(p[1])

(***************************************************************************)
(* gap_test: after nvalues outputs both tables hold exactly the gaps that  *)
(* have ended, and the test has not stopped a moment too late or too       *)
(* early.                                                                  *)
(***************************************************************************)
\* The table of the first n outputs when those at the places `hits' have hit.
GapsBetween(hits, nbins, n) ==
    LET Gap(k)  == k - Max({-1} \cup {h \in hits : h < k}) - 1
        Many(k) == IF Gap(k) >= nbins THEN nbins ELSE Gap(k)
    IN  [Oi      |-> [b \in 0 .. nbins |-> Cardinality({k \in hits : Many(k) = b})],
         gap_len |-> Gap(n), ngaps |-> Cardinality(hits)]

GapsAreExact ==
    Done("gaps") =>
        LET o       == input.o
            Hi(n)   == GapsBetween({k \in 0 .. n - 1 : HitsHigh(o, At(input.s, k))}, o.nbins, n)
            Lo(n)   == GapsBetween({k \in 0 .. n - 1 : HitsLow(o, At(input.s, k))}, o.nbins, n)
            TooLong(n) == \E t \in {Hi(n), Lo(n)} : t.gap_len >= o.max_gap_len
            Full(n)    == \A t \in {Hi(n), Lo(n)} : t.ngaps >= o.ngaps
            N       == answer.nvalues
        IN  /\ answer.hi = Hi(N) /\ answer.lo = Lo(N)
            /\ answer.missed = TooLong(N)
            /\ TooLong(N) \/ Full(N)
            /\ \A n \in 1 .. N - 1 : ~TooLong(n) /\ ~Full(n)

(***************************************************************************)
(* gap16_count0: a gap between equal words is counted with 0 when a 0 lies *)
(* in it, and every gap between two 0s is; a gap that begins with a 0 and  *)
(* ends with another word is counted with it when that word lies in it.    *)
(***************************************************************************)
Gap16IsExact ==
    Done("gap16") =>
        LET P      == 0 .. input.o.ngaps - 1
            W(p)   == WordAt(input.s, p)
            Before(p, w) == Max({-1} \cup {q \in P : q < p /\ W(q) = w})
            Between(b, p, w) == \E q \in b + 1 .. p - 1 : W(q) = w
            Same(g) == {p \in P : Before(p, W(p)) # -1 /\ p - Before(p, W(p)) - 1 = g}
            From0(g) == {p \in P : W(p) # 0 /\ Before(p, 0) # -1 /\ p - Before(p, 0) - 1 = g}
            Table(Set(_), Inside(_)) ==
                [total |-> [g \in 0 .. input.o.nbins - 1 |-> Cardinality(Set(g))],
                 with0 |-> [g \in 0 .. input.o.nbins - 1 |->
                                Cardinality({p \in Set(g) : Inside(p)})]]
        IN  /\ answer.f
                = Table(Same, LAMBDA p : W(p) = 0 \/ Between(Before(p, W(p)), p, 0))
            /\ answer.rb
                = Table(From0, LAMBDA p : Between(Before(p, 0), p, W(p)))

\* Both gap tests count exactly the gaps that are there.
GapsAreCounted == GapsAreExact /\ Gap16IsExact

(***************************************************************************)
(* No filter hands out a bit of its parent or of its filler twice, a word  *)
(* has its bits from one output of the parent and later words from later   *)
(* ones, words have the announced width, and filters that rearrange lose   *)
(* nothing.                                                                *)
(***************************************************************************)
EnvelopesKeepBits ==
    Done("filter") =>
        LET width  == NBits(input[1], input[2])
            Places == (DOMAIN answer) \X (1 .. width)
            Bit(p) == answer[p[1]][p[2]]
            Parents == {p \in Places : Bit(p)[1] # FillerOf}
        IN  /\ \A k \in DOMAIN answer : Len(answer[k]) = width
            /\ \A p, q \in Places : Bit(p) = Bit(q) => p = q
            /\ \A p, q \in Parents : p[1] <= q[1] => Bit(p)[1] <= Bit(q)[1]
            /\ input[1] \in {"reverse-bits", "interleaved32"} =>
                    {Bit(p) : p \in Places} =
                        {b \in (0 .. work.drawn - 1) \X (0 .. input[2] - 1) :
                            work.pos = 1 /\ b[1] = work.drawn - 1 => b[2] < Half}

(***************************************************************************)
(* What an object that reads stdin delivers are successive words from the  *)
(* beginning of a block, of blocks that no other object has delivered, and *)
(* all of them are words of the input; the counter of bytes is what was    *)
(* read, which is all of it when the program ends.                         *)
(***************************************************************************)
StdinInOrder ==
    Done("stdin") =>
        LET block == input[2]
        IN  /\ \A k \in DOMAIN answer : answer[k] # <<>> =>
                    /\ answer[k][1] % block = 0
                    /\ \A i \in DOMAIN answer[k] : answer[k][i] = answer[k][1] + i - 1
                    /\ answer[k][Len(answer[k])] < input[1]
            /\ \A j, k \in DOMAIN answer :
                    j < k /\ answer[j] # <<>> /\ answer[k] # <<>> =>
                        answer[j][Len(answer[j])] \div block < answer[k][1] \div block
            /\ work.in.total = work.in.read
            /\ work.in.total <= input[1]
            /\ work.in.exited => work.in.total = input[1]

\* Whoever stands between a source of words and a test passes them on whole,
\* once and in order.
WordsAreDelivered == EnvelopesKeepBits /\ StdinInOrder

(***************************************************************************)
(* Plugins that make blocks hand out every word of every block once, the   *)
(* blocks in the order of their counters, also when a counter carries or   *)
(* comes back to 0, and whether one copy of the cipher works or several    *)
(* do, so that the AVX2 versions give the numbers of the portable ones.    *)
(* Where the words leave by rows of the copies, or the copies are far      *)
(* apart, this holds for each copy.  Three plugins give their first block  *)
(* twice.                                                                  *)
(***************************************************************************)
GivesFirstTwice == {"leptonflurry32x2", "leptonflurry32x4", "xtea2"}

CounterAt(p, batch, copy) ==
    LET number == batch * p.copies + copy
    IN  IF p.apart THEN <<batch % CtrRange, copy>>
        ELSE <<number % CtrRange,
               IF p.carry = "none" THEN 0 ELSE (number \div CtrRange) % CtrRange>>

BlocksAreInOrder ==
    Done("plugin") /\ input \in DOMAIN BlockPlugins /\ answer.n > 0 =>
        LET p == BlockPlugins[input]
            n == answer.n - 1
            q == n % Size(p)
            first == IF p.incFirst /\ ~p.made THEN 1 ELSE p.warm \div Size(p)
            twice == IF input \in GivesFirstTwice /\ n >= Size(p) THEN 1 ELSE 0
            batch == first + n \div Size(p) - twice
        IN  answer.out = CASE p.order = "blocks" ->
                                <<CounterAt(p, batch, q \div p.words), q % p.words>>
                           [] p.order = "words"  ->
                                <<CounterAt(p, batch, q % p.copies), q \div p.copies>>
                           [] p.order = "down"   ->
                                <<CounterAt(p, batch, 0), p.words - 1 - q>>

=============================================================================
