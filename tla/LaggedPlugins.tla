---------------------------- MODULE LaggedPlugins ----------------------------
(***************************************************************************)
(* Plugins that keep their last N numbers in an array and make the next    *)
(* one from some of them.  What can go wrong is the walk over the array:   *)
(* so a cell holds no bits here, only the place, 1, 2, ..., of its number  *)
(* in the sequence; the seeds are 1 - N to 0, in the order in which they   *)
(* will be overwritten.                                                    *)
(***************************************************************************)
EXTENDS PluginIntf

Never == 2^30

\* n steps of the function next, half of them at a time.
RECURSIVE Stepped(_, _, _)
Stepped(next, n, x) ==
    IF n = 0 THEN x
    ELSE IF n = 1 THEN next[x]
    ELSE The({Stepped(next, n - n \div 2, half) : half \in {Stepped(next, n \div 2, x)}})

Walks(cells) ==
    [cells : [cells -> Int], at : Seq(Int), made : Int, lags : SUBSET Seq(Int),
     pos : Int, calls : Int, ahead : Int, breaks : Seq(Int \X Int)]
Steps(Step(_), n, s) == Stepped([t \in Walks(DOMAIN s.cells) |-> Step(t)], n, s)

\* `at' are the pointers into the array, the first one shows where to write; a
\* walk that is early moves before it reads.  create fills the cells `filled'.
NewWalk(cells, N, filled, at, early, Move(_)) ==
    LET Seed(s) == LET c == IF early THEN Move(s.at[1]) ELSE s.at[1]
                   IN  [s EXCEPT !.cells[c] = IF c \in filled THEN s.made + 1 - N ELSE Never,
                                 !.at[1] = Move(@), !.made = @ + 1]
        empty == [cells |-> [c \in cells |-> Never], at |-> at, made |-> 0, lags |-> {},
                  pos |-> 0, calls |-> 0, ahead |-> 0, breaks |-> <<>>]
    IN  [empty EXCEPT !.cells = Steps(Seed, N, empty).cells]

\* One number, made from the cells Reads(at).
Made(early, Move(_), Reads(_), s) ==
    LET moved == IF Len(s.at) = 1 THEN <<Move(s.at[1])>> ELSE <<Move(s.at[1]), Move(s.at[2])>>
        at    == IF early THEN moved ELSE s.at
        read  == Reads(at)
        n     == s.made + 1
        Has(c) == c \in DOMAIN s.cells /\ s.cells[c] # Never
        lags  == [i \in DOMAIN read |-> IF Has(read[i]) THEN n - s.cells[read[i]] ELSE 0]
    IN  [s EXCEPT !.cells[at[1]] = n, !.at = moved, !.made = n, !.lags = @ \cup {lags}]

\* A call gives the number of that place to the caller.
Given(place, s) ==
    LET ahead == place - (s.calls + 1)
    IN  [s EXCEPT !.calls = @ + 1, !.ahead = ahead,
                  !.breaks = IF ahead = s.ahead THEN @ ELSE Append(@, <<s.calls + 1, ahead>>)]

\* The plugin is loaded, then makes an object and is called n times.
Calling(name, n, Call(_), object0) ==
    \/ /\ plugin = "none"
       /\ plugin' = name
       /\ UNCHANGED <<seeds, object, outputs, around, history>>
    \/ /\ plugin = name /\ history = <<>>
       /\ history' = LET last == Steps(Call, n, object0)
                     IN  [lags |-> last.lags, breaks |-> last.breaks]
       /\ UNCHANGED <<plugin, seeds, object, outputs, around>>

\* Calls that make a number and give it, as many as go round the array twice.
Walk(name, cells, N, at, early, warm, Move(_), Reads(_)) ==
    LET Make(s) == Made(early, Move, Reads, s)
        Call(s) == LET t == Make(s) IN Given(t.made, t)
    IN  Calling(name, 2 * N + 2, Call, Steps(Make, warm, NewWalk(cells, N, cells, at, early, Move)))

-----------------------------------------------------------------------------
\* Two pointers that go down, or up, through the array together.
Both(at)    == <<at[1], at[2]>>
Swapped(at) == <<at[2], at[1]>>
DownTo0Too(N, i) == IF i = 0 THEN N ELSE i - 1      \* one step too far
DownTo1(N, i) == IF i - 1 = 0 THEN N ELSE i - 1
DownTo0(N, i) == IF i = 0 THEN N - 1 ELSE i - 1
UpTo(N, i)    == IF i + 1 = N THEN 0 ELSE i + 1

Falling(name, r, s, Reads(_)) ==
    Walk(name, 1 .. r, r, <<r, s>>, FALSE, 0, LAMBDA i : DownTo1(r, i), Reads)
FallingTo0(name, r, s, Reads(_)) ==
    Walk(name, 0 .. r - 1, r, <<r - 1, s - 1>>, FALSE, 0, LAMBDA i : DownTo0(r, i), Reads)

Alfib      == Falling("alfib", 607, 273, Both)
AlfibMod   == Falling("alfib_mod", 607, 273, Both)
LfibRanmar == Falling("lfib_ranmar", 98, 33, Both)
Mlfib17x5  == Falling("mlfib17_5", 17, 5, Both)
R250       == Falling("r250", 250, 103, Both)
R1279      == Falling("r1279", 1279, 1063, Both)
Swb        == Falling("swb", 43, 22, Swapped)
SwbW       == Falling("swbw", 43, 22, Swapped)
SwbLarge   == Falling("swblarge", 920, 856, Swapped)
SwbMwc32   == FallingTo0("swbmwc32", 37, 24, Swapped)
SwbMwc64   == FallingTo0("swbmwc64", 13, 7, Swapped)

Mrg1597x2 ==
    Walk("mrg_1597_2", 0 .. 1596, 1597, <<0, 1596>>, FALSE, 0, LAMBDA i : UpTo(1597, i), Swapped)

-----------------------------------------------------------------------------
(***************************************************************************)
(* Luxury: after every `keep' numbers, `skip' are made and not given.      *)
(***************************************************************************)
Luxury(name, keep, skip, object0, late, Make(_)) ==
    LET Skip(s) == IF s.pos + 1 = keep THEN Steps(Make, skip, [s EXCEPT !.pos = 0])
                   ELSE [s EXCEPT !.pos = @ + 1]
        Give(s) == LET t == Make(s) IN Given(t.made, t)
    IN  Calling(name, 3 * keep + 2, LAMBDA s : IF late THEN Skip(Give(s)) ELSE Give(Skip(s)), object0)

SwbLux ==
    LET Move(i) == DownTo1(43, i)
    IN  \E p \in {[name |-> "swblux_0", luxury |-> 0], [name |-> "swblux_1", luxury |-> 1],
                  [name |-> "swblux_2", luxury |-> 2], [name |-> "swblux_3", luxury |-> 3],
                  [name |-> "swblux_4", luxury |-> 4]} :
            Luxury(p.name, 43, 43 * p.luxury, NewWalk(1 .. 43, 43, 1 .. 43, <<43, 22>>, FALSE, Move),
                   FALSE, LAMBDA s : Made(FALSE, Move, Swapped, s))

Ranlux48 ==
    LET Move(i) == DownTo1(24, i)
    IN  \E p \in {[name |-> "ranlux48_0", skip |-> 0],   [name |-> "ranlux48_1", skip |-> 24],
                  [name |-> "ranlux48_2", skip |-> 73],  [name |-> "ranlux48_3", skip |-> 199],
                  [name |-> "ranlux48_4", skip |-> 365]} :
            Luxury(p.name, 24, p.skip, NewWalk(1 .. 24, 24, 1 .. 24, <<24, 10>>, FALSE, Move),
                   FALSE, LAMBDA s : Made(FALSE, Move, Swapped, s))

SwbLux64 ==
    LET Move(i) == DownTo0(13, i)
    IN  \E p \in {[name |-> "swblux64_0", total |-> 13], [name |-> "swblux64_1", total |-> 26],
                  [name |-> "swblux64_2", total |-> 42], [name |-> "swblux64_3", total |-> 83]} :
            Luxury(p.name, 13, p.total - 13, NewWalk(0 .. 12, 13, 0 .. 12, <<12, 6>>, FALSE, Move),
                   FALSE, LAMBDA s : Made(FALSE, Move, Swapped, s))

AlfibLux ==
    LET Move(i) == UpTo(100, i)
    IN  Luxury("alfib_lux", 100, 1009 - 100,
               NewWalk(0 .. 99, 100, 0 .. 99, <<0, 100 - 37>>, FALSE, Move),
               TRUE, LAMBDA s : Made(FALSE, Move, Both, s))

-----------------------------------------------------------------------------
(***************************************************************************)
(* One pointer; the other cells are found from it modulo the size, which   *)
(* is a power of 2.                                                        *)
(***************************************************************************)
Masked(name, N, start, early, warm, offsets) ==
    Walk(name, 0 .. N - 1, N, <<start>>, early, warm, LAMBDA i : (i + 1) % N,
         LAMBDA at : [k \in DOMAIN offsets |-> (at[1] + offsets[k]) % N])

Alfib8x5  == Masked("alfib8x5", 64, 0, TRUE, 0, <<-61, -60, -46, -45>>)
Alfib64x5 == Masked("alfib64x5", 64, 0, TRUE, 0, <<-61, -60, -46, -45>>)
LFib4     == Masked("lfib4", 256, 0, TRUE, 0, <<0, 58, 119, 178>>)
LFib4U64  == Masked("lfib4_u64", 256, 0, TRUE, 0, <<0, 58, 119, 178>>)
Xorgens   == Masked("xorgens", 64, 63, TRUE, 4 * 64, <<0, 64 - 53>>)
Ziff98    == Masked("ziff98", 16384, 0, TRUE, 0, <<-471, -1586, -6988, -9689>>)
Mwc8222   == Masked("mwc8222", 256, 255, TRUE, 0, <<0>>)
Mwc8222Ver2 == Masked("mwc8222_v2", 256, 255, TRUE, 0, <<0>>)
Cmwc4096  == Masked("cmwc4096", 4096, 4095, TRUE, 0, <<0>>)
Smwc8x16  == Masked("smwc8x16", 16, 0, TRUE, 0, <<-15, -1, -2>>)
Smwc16x8  == Masked("smwc16x8", 8, 0, TRUE, 0, <<0, -1>>)
Rwc64Large == Masked("rwc64large", 8, 6, TRUE, 16, <<0, -1>>)
LRnd64x1023 == Masked("lrnd64_1023", 16, 0, FALSE, 0, <<0, 1, 2, 8>>)

\* The pointer starts behind the array.
From(name, N) ==
    Walk(name, 0 .. N - 1, N, <<N>>, TRUE, 0,
         LAMBDA i : IF i < N - 1 THEN i + 1 ELSE 0, LAMBDA at : <<at[1]>>)

Cmwc4827 == From("cmwc4827", 4827)
Mwc4691  == From("mwc4691", 4691)
Kiss4691 == From("kiss4691", 4691)

\* The numbers themselves are moved, so that the oldest is always in cell 0.
Xorgens1024 ==
    LET Call(s) == LET n    == s.made + 1
                       lags == <<n - s.cells[0], n - s.cells[9]>>
                   IN  Given(n, [s EXCEPT !.cells = [c \in 0 .. 15 |-> IF c = 15 THEN n ELSE @[c + 1]],
                                          !.made = n, !.lags = @ \cup {lags}])
    IN  Calling("xorgens1024", 2 * 16 + 2, Call,
                NewWalk(0 .. 15, 16, 0 .. 15, <<0>>, FALSE, LAMBDA i : UpTo(16, i)))

-----------------------------------------------------------------------------
(***************************************************************************)
(* All N numbers are made at once, in loops from cell 0 to cell N - 1 (the *)
(* whole of it `rounds' times), and then given one after another from cell *)
(* `start' on.  A loop reads at fixed distances and ends before cell upto. *)
(***************************************************************************)
Loop(upto, offsets) == [upto |-> upto, offsets |-> offsets]
ReadsIn(loops, at) ==
    LET now == loops[CHOOSE k \in DOMAIN loops :
                        at < loops[k].upto /\ (k > 1 => at >= loops[k - 1].upto)]
    IN  [i \in DOMAIN now.offsets |-> at + now.offsets[i]]

Block(name, N, filled, start, rounds, warm, loops) ==
    LET Move(i) == UpTo(N, i)
        Make(s) == Made(FALSE, Move, LAMBDA at : ReadsIn(loops, at[1]), s)
        Call(s) ==
            LET t == IF s.pos >= N THEN [Steps(Make, rounds * N, s) EXCEPT !.pos = 0] ELSE s
            IN  Given(t.cells[t.pos], [t EXCEPT !.pos = @ + 1])
        new == NewWalk(0 .. N - 1, N, filled, <<0>>, FALSE, Move)
    IN  Calling(name, 2 * N + 2, Call, [Steps(Make, warm * N, new) EXCEPT !.pos = start])

TwoLags(r, s) == <<Loop(s, <<0, r - s>>), Loop(r, <<0, -s>>)>>
TwoLagsSwapped(r, s) == <<Loop(s, <<r - s, 0>>), Loop(r, <<-s, 0>>)>>

LFibPar ==
    \E p \in {[name |-> "31+", r |-> 31, s |-> 3],       [name |-> "55+", r |-> 55, s |-> 24],
              [name |-> "127+", r |-> 127, s |-> 97],    [name |-> "258+", r |-> 258, s |-> 83],
              [name |-> "378+", r |-> 378, s |-> 107],   [name |-> "607+", r |-> 607, s |-> 273],
              [name |-> "1279+", r |-> 1279, s |-> 418], [name |-> "2281+", r |-> 2281, s |-> 1252]} :
        Block(p.name, p.r, 0 .. p.r, p.r, 1, 0, TwoLags(p.r, p.s))

Cswb4288    == Block("cswb4288", 4288, 0 .. 4287, 4287, 1, 0, TwoLags(4288, 4160))
Cswb4288x64 == Block("cswb4288_64", 2144, 0 .. 2143, 2144, 1, 0, TwoLags(2144, 2080))

Swb53Dec ==
    Block("swb53dec", 83, 0 .. 82, 83, 5 + 1, 0, <<Loop(60, <<0, 83 - 60>>), Loop(83, <<-60, 0>>)>>)

Swb64Pairs ==
    {[name |-> "9-8", r |-> 9, s |-> 8],      [name |-> "13-7", r |-> 13, s |-> 7],
     [name |-> "99-35", r |-> 99, s |-> 35],  [name |-> "26-4", r |-> 26, s |-> 4],
     [name |-> "30-6", r |-> 30, s |-> 6],    [name |-> "67-59", r |-> 67, s |-> 59],
     [name |-> "71-47", r |-> 71, s |-> 47],  [name |-> "77-56", r |-> 77, s |-> 56],
     [name |-> "89-11", r |-> 89, s |-> 11],  [name |-> "98-90", r |-> 98, s |-> 90],
     [name |-> "117-50", r |-> 117, s |-> 50]}
Swb64Sc ==
    \E p \in Swb64Pairs :
        Block(p.name \o "-sc", p.r, 0 .. p.r - 1, p.r, 1, 0, TwoLagsSwapped(p.r, p.s))
Swb64Dec ==
    \E p \in Swb64Pairs :
        Block(p.name \o "-dec", p.r, 0 .. p.r - 1, p.r, 3 + 1, 0, TwoLagsSwapped(p.r, p.s))

Mwc4159u64 == Block("mwc4159_u64", 64, 0 .. 63, 64, 1, 64, <<Loop(64, <<0>>)>>)
Mwc2110u64 == Block("mwc2110_u64", 32, 0 .. 31, 32, 1, 0, <<Loop(32, <<0>>)>>)

MT19937 ==
    LET N == 624
        M == 397
    IN  Block("mt19937", N, 0 .. N - 1, N, 1, 0,
              <<Loop(N - M, <<0, 1, M>>), Loop(N - 1, <<0, 1, M - N>>), Loop(N, <<0, 1 - N, M - N>>)>>)

MT19937x64Full ==
    LET NN == 312
        M0 == 63
        M1 == 151
        M2 == 224
    IN  Block("mt19937_64_full", NN, 0 .. NN - 1, NN, 1, 0,
              <<Loop(NN - M2, <<0, 1, M0, M1, M2>>),
                Loop(NN - M1, <<0, 1, M0, M1, M2 - NN>>),
                Loop(NN - M0, <<0, 1, M0, M1 - NN, M2 - NN>>),
                Loop(NN - 1,  <<0, 1, M0 - NN, M1 - NN, M2 - NN>>),
                Loop(NN,      <<0, 1 - NN, M0 - NN, M1 - NN, M2 - NN>>)>>)

MT19937x64Brief ==
    LET NN == 312
        MM == 156
    IN  Block("mt19937_64_brief", NN, 0 .. NN - 1, NN, 1, 0,
              <<Loop(NN - MM, <<0, 1, MM>>), Loop(NN - 1, <<0, 1, MM - NN>>),
                Loop(NN, <<0, 1 - NN, MM - NN>>)>>)

\* As above, but a call makes only the number that it gives; the cell read
\* last makes the output and not the state.
Melg(name, NN, MM, LAG1, LAG1over) ==
    LET loops == <<Loop(NN - MM, <<0, 1, MM, LAG1>>),
                   Loop(LAG1over, <<0, 1, MM - NN, LAG1>>),
                   Loop(NN - 1, <<0, 1, MM - NN, -LAG1over>>),
                   Loop(NN, <<0, 1 - NN, MM - NN, -LAG1over>>)>>
    IN  Walk(name, 0 .. NN - 1, NN, <<0>>, FALSE, 0, LAMBDA i : UpTo(NN, i),
             LAMBDA at : ReadsIn(loops, at[1]))

Melg607   == Melg("melg607", 9, 5, 3, 6)
Melg19937 == Melg("melg19937", 311, 81, 19, 292)
Melg44497 == Melg("melg44497", 695, 373, 95, 600)

-----------------------------------------------------------------------------
(***************************************************************************)
(* Objects that are not complete.  create of ranrot32 fills s cells of r;  *)
(* numbers are given from the last cell down.  In the warm-up of rwc4157   *)
(* and rwc16446 the pointer starts behind the array.                       *)
(***************************************************************************)
Ranrot32 ==
    \E p \in {[name |-> "ranrot32_7_3", r |-> 7, s |-> 3], [name |-> "ranrot32_17_9", r |-> 17, s |-> 9],
              [name |-> "ranrot32_57_13", r |-> 57, s |-> 13]} :
        LET Move(i) == UpTo(p.r, i)
            Make(s) == Made(FALSE, Move, LAMBDA at : ReadsIn(TwoLags(p.r, p.s), at[1]), s)
            Call(s) ==
                LET t == IF s.pos = 0 THEN [Steps(Make, p.r, s) EXCEPT !.pos = p.r] ELSE s
                IN  Given(t.cells[t.pos - 1], [t EXCEPT !.pos = @ - 1])
        IN  Calling(p.name, 2 * p.r + 2, Call,
                    NewWalk(0 .. p.r - 1, p.r, 0 .. p.s - 1, <<0>>, FALSE, Move))

Rwc(name, N) ==
    LET Move(i) == (i + 1) % N
        Make(s) == Made(FALSE, Move, LAMBDA at : <<at[1], (at[1] + 1) % N>>, s)
        Call(s) == LET t == Make(s) IN Given(t.made, t)
        new == NewWalk(0 .. N, N, 0 .. N - 1, <<0>>, FALSE, Move)
    IN  Calling(name, 2 * N + 2, Call, Steps(Make, N * N, [new EXCEPT !.at = <<N>>]))

Rwc4157  == Rwc("rwc4157", 64)
Rwc16446 == Rwc("rwc16446", 256)

LaggedNext ==
    \/ Alfib \/ AlfibMod \/ LfibRanmar \/ Mlfib17x5 \/ R250 \/ R1279 \/ Swb \/ SwbW
    \/ SwbLarge \/ SwbMwc32 \/ SwbMwc64 \/ Mrg1597x2 \/ SwbLux \/ Ranlux48
    \/ SwbLux64 \/ AlfibLux \/ Alfib8x5 \/ Alfib64x5 \/ LFib4 \/ LFib4U64 \/ Xorgens
    \/ Ziff98 \/ Mwc8222 \/ Mwc8222Ver2 \/ Cmwc4096 \/ Smwc8x16 \/ Smwc16x8
    \/ Rwc64Large \/ LRnd64x1023 \/ Cmwc4827 \/ Mwc4691 \/ Kiss4691 \/ Xorgens1024
    \/ LFibPar \/ Cswb4288 \/ Cswb4288x64 \/ Swb53Dec \/ Swb64Sc \/ Swb64Dec
    \/ Mwc4159u64 \/ Mwc2110u64 \/ MT19937 \/ MT19937x64Full \/ MT19937x64Brief
    \/ Melg607 \/ Melg19937 \/ Melg44497 \/ Ranrot32 \/ Rwc4157 \/ Rwc16446

=============================================================================
