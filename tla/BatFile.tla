------------------------------ MODULE BatFile ------------------------------
(***************************************************************************)
(* Custom batteries from text files (bat_file.c), with the memory they     *)
(* take.  A file is the sequence of its tokens, comments and lines taken   *)
(* away; a token is a name and what follows its '=', or Null.  A number is  *)
(* below the limits of its argument, the least one allowed, the next, the  *)
(* greatest, or above; or it is written with an underscore ("leas_t") or   *)
(* has something behind it ("least and more").                             *)
(***************************************************************************)
EXTENDS Integers, Sequences, SequencesExt

Null == "NULL"
NoBlock == 0
EndToken == [name |-> "end", value |-> Null]
LongName == "a name of 64 characters"

-----------------------------------------------------------------------------
(***************************************************************************)
(* Blocks of memory are numbered; s.blocks is the last one.  A block that  *)
(* grows moves.                                                            *)
(***************************************************************************)
Malloc(s) == [s EXCEPT !.blocks = @ + 1, !.heap = @ \cup {s.blocks + 1}]
Free(s, block) ==
    IF block = NoBlock THEN s
    ELSE [s EXCEPT !.heap = @ \ {block}, !.misuse = @ \/ block \notin s.heap]
Realloc(s, block) == Free(Malloc(s), block)

TestInfo(name, args, block) == [testname |-> name, args |-> args, block |-> block]

TestInfo_init(s, name) ==
    LET t == Malloc(s) IN [t EXCEPT !.testinfo = TestInfo(name, <<>>, t.blocks)]

TestInfo_destruct(s) ==
    [Free(s, s.testinfo.block) EXCEPT !.testinfo.block = NoBlock, !.testinfo.args = <<>>]

TestInfo_addarg(s, arg) ==
    LET t == Realloc(s, s.testinfo.block)
    IN  [t EXCEPT !.testinfo.args = Append(@, arg), !.testinfo.block = t.blocks]

\* Mutant: the last of several arguments with one name.
TestInfo_get_last_value(args, name) ==
    LET found == SelectSeq(args, LAMBDA arg : arg.name = name)
    IN  IF found = <<>> THEN Null ELSE Last(found).value

TestInfo_get_value(args, name) ==
    LET found == SelectSeq(args, LAMBDA arg : arg.name = name)
    IN  IF found = <<>> THEN Null ELSE Head(found).value

TestInfoArray_init(s) ==
    LET t == Malloc(s)
    IN  [t EXCEPT !.tests = <<>>, !.array = t.blocks, !.battery_name = "CUSTOM"]

\* Mutant: the parser keeps the test that the array now owns.
TestInfoArray_addtest_shared(s) ==
    LET t == Realloc(s, s.array)
    IN  [t EXCEPT !.tests = Append(@, s.testinfo), !.array = t.blocks]

TestInfoArray_addtest(s) ==
    LET t == Realloc(s, s.array)
    IN  [t EXCEPT !.tests = Append(@, s.testinfo), !.array = t.blocks,
                  !.testinfo.block = NoBlock, !.testinfo.args = <<>>]

TestInfoArray_destruct(s) ==
    Free(FoldLeft(LAMBDA t, info : Free(t, info.block), s, s.tests), s.array)

-----------------------------------------------------------------------------
ParserState_init ==
    TestInfoArray_init(
        [blocks |-> 0, heap |-> {}, misuse |-> FALSE, overrun |-> FALSE, ok |-> TRUE,
         inside |-> FALSE, testinfo |-> TestInfo(EndToken, <<>>, NoBlock),
         tests |-> <<>>, array |-> NoBlock, battery_name |-> Null])

ParserState_destruct(s) == TestInfo_destruct(TestInfoArray_init(TestInfoArray_destruct(s)))

Failed(s) == [s EXCEPT !.ok = FALSE]

CloseEntry(s) ==
    LET name == TestInfo_get_value(s.testinfo.args, "name")
    IN  IF s.testinfo.testname # [name |-> "battery", value |-> Null]
        THEN [TestInfoArray_addtest(s) EXCEPT !.inside = FALSE]
        ELSE IF name = Null THEN Failed(TestInfo_destruct(s))
        ELSE [s EXCEPT !.battery_name = name, !.inside = FALSE]

ParserState_process_token(s, token) ==
    CASE ~s.inside /\ token = EndToken -> Failed(s)
      [] ~s.inside /\ token # EndToken -> [TestInfo_init(s, token) EXCEPT !.inside = TRUE]
      [] s.inside /\ token = EndToken  -> CloseEntry(s)
      [] s.inside /\ token # EndToken  ->
            IF token.value = Null THEN Failed(s)
            ELSE [TestInfo_addarg(s, token) EXCEPT !.overrun = @ \/ token.name = LongName]

\* Without its end the last entry is an error; then no test is left.
LoadTests(tokens) ==
    LET s == FoldLeft(LAMBDA t, token : IF t.ok THEN ParserState_process_token(t, token) ELSE t,
                      ParserState_init, tokens)
    IN  IF s.ok /\ ~s.inside THEN s ELSE ParserState_destruct(s)

-----------------------------------------------------------------------------
(***************************************************************************)
(* The arguments of a test, in the order in which its parser asks for      *)
(* them: numbers between two limits, and names of codes.                   *)
(***************************************************************************)
IntArgs(names) == [i \in DOMAIN names |-> [name |-> names[i], codes |-> {}]]
CodeArg(name, codes) == <<[name |-> name, codes |-> codes]>>

PointsAndFrequencies ==
    [bspace_nd |-> IntArgs(<<"nbits_per_dim", "ndims", "nsamples", "get_lower", "lambda">>),
     collisionover |-> IntArgs(<<"nbits_per_dim", "ndims", "nsamples", "get_lower", "n">>),
     monobit_freq |-> IntArgs(<<"nvalues">>),
     nbit_words_freq |-> IntArgs(<<"bits_per_word", "average_freq", "nblocks">>),
     bspace4_8d_decimated |-> IntArgs(<<"step">>)]

GapsAndWeights ==
    [gap |-> IntArgs(<<"shl", "ngaps">>),
     gap16_count0 |-> IntArgs(<<"ngaps">>),
     hamming_distr |-> IntArgs(<<"nvalues", "nlevels">>),
     hamming_ot |-> IntArgs(<<"nbytes">>)
                    \o CodeArg("mode", {"values", "bytes", "bytes_low8", "bytes_low1"}),
     hamming_ot_long |-> IntArgs(<<"nvalues">>)
                         \o CodeArg("wordsize", {"w128", "w256", "w512", "w1024"})]

LinearAndOthers ==
    [linearcomp |-> IntArgs(<<"nbits">>) \o CodeArg("bitpos", {"low", "mid", "high"}),
     matrixrank |-> IntArgs(<<"max_nbits", "n">>),
     maxoft |-> IntArgs(<<"t", "ntuples", "nbins">>),
     mod3 |-> IntArgs(<<"nvalues">>),
     sumcollector |-> IntArgs(<<"nvalues">>),
     ising2d |-> IntArgs(<<"sample_len", "nsamples">>) \o CodeArg("algorithm", {"wolff", "metropolis"}),
     usphere |-> IntArgs(<<"ndims", "npoints">>)]

Parsers == PointsAndFrequencies @@ GapsAndWeights @@ LinearAndOthers

\* Underscores are skipped, and so is all that follows a number.
TxtvalueToInt(value) ==
    CASE value \in {"leas_t", "least and more"} -> "least"
      [] value \in {"below", "least", "next", "greatest", "above"} -> value
      [] OTHER -> Null
InLimits(value) == TxtvalueToInt(value) \in {"least", "next", "greatest"}

\* parse_linearcomp compares the position with its codes before it looks
\* whether there is one, and also takes a number.
ArgParsed(test, args, arg) ==
    LET value == TestInfo_get_value(args, arg.name)
    IN  CASE test = "linearcomp" /\ arg.name = "bitpos" /\ value = Null -> "crash"
          [] arg.codes = {} \/ (test = "linearcomp" /\ value \notin arg.codes) ->
                IF InLimits(value) THEN "ok" ELSE "error"
          [] OTHER -> IF value \in arg.codes THEN "ok" ELSE "error"

\* n must be divisible by 256, and ntuples / nbins at least 20.
ArgsFit(test, args) ==
    LET Is(name, v) == TxtvalueToInt(TestInfo_get_value(args, name)) = v
    IN  CASE test = "matrixrank" -> ~Is("n", "next")
          [] test = "maxoft"     -> Is("ntuples", "greatest") \/ ~Is("nbins", "greatest")
          [] OTHER               -> TRUE

ParseTest(info) ==
    LET test == TestInfo_get_value(info.args, "test")
        asked == Parsers[test]
        bad == SelectSeq(asked, LAMBDA arg : ArgParsed(test, info.args, arg) # "ok")
    IN  CASE test = Null -> "crash"
          [] test # Null /\ test \notin DOMAIN Parsers -> "error"
          [] OTHER -> IF bad # <<>> THEN ArgParsed(test, info.args, Head(bad))
                      ELSE IF ArgsFit(test, info.args) THEN "ok" ELSE "error"

Options(info) ==
    LET test == TestInfo_get_value(info.args, "test")
        Value(arg) == LET v == TestInfo_get_value(info.args, arg.name)
                      IN  IF v \in arg.codes THEN v ELSE TxtvalueToInt(v)
    IN  [name |-> info.testname, test |-> test,
         opts |-> [i \in DOMAIN Parsers[test] |-> Value(Parsers[test][i])]]

\* The tests are parsed until one fails; names stay in the array of the file,
\* which is freed after the run.
BatteryFile(tokens) ==
    LET s == LoadTests(tokens)
        Parsed(t, info) ==
            IF t.verdict # "ok" THEN t
            ELSE LET verdict == ParseTest(info)
                 IN  IF verdict # "ok" THEN [t EXCEPT !.verdict = verdict]
                     ELSE [Malloc(t) EXCEPT !.udata = Append(@, t.blocks + 1),
                                            !.ran = Append(@, Options(info))]
        start == Malloc(s) @@ [udata |-> <<>>, ran |-> <<>>, verdict |-> "ok", names |-> TRUE]
        t == FoldLeft(Parsed, start, s.tests)
        run == [t EXCEPT !.ran = IF t.verdict = "ok" THEN @ ELSE <<>>, !.names = t.array \in t.heap]
        freed == Free(FoldLeft(Free, TestInfoArray_destruct(run), run.udata), start.blocks)
    IN  IF s.tests = <<>>
        THEN TestInfoArray_destruct(s)
             @@ [udata |-> <<>>, ran |-> <<>>, verdict |-> "error", names |-> TRUE]
        ELSE IF t.verdict = "crash" THEN run
        ELSE freed

=============================================================================
