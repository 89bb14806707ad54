---------------------------- MODULE MCGenerators ----------------------------
(***************************************************************************)
(* The plugins of generators/ behind their interface: any one of them is   *)
(* loaded, an object is created from any stream of seeds, gives some       *)
(* numbers, and its step is then examined.  Where a plugin is known not to *)
(* have a property, it is named, with the reason in its code.              *)
(***************************************************************************)
EXTENDS XorshiftPlugins, LcgPlugins, MwcPlugins, KissPlugins, ArxPlugins, MulPlugins,
        LaggedPlugins

Next == \/ XorshiftNext \/ LcgNext \/ MwcNext \/ KissNext \/ ArxNext \/ MulNext
        \/ LaggedNext
Spec == PluginInit /\ [][Next]_pluginVars

-----------------------------------------------------------------------------
(***************************************************************************)
(* What the plugins promise.                                               *)
(***************************************************************************)

\* Two of the states around an object never become one: a step that may be
\* undone keeps every stream in a cycle of its own, one that may not leads
\* objects from different seeds to the same numbers.  Not so by design:
\* plugins whose step is a random mapping or has a feedback by
\* multiplication; by representation: where residues of a prime modulus, or
\* a carry, have two forms; and the x2 of smwc is only a copy of a part.
RandomMappings == {"ranrot_bi", "yasmarang", "prvhash12c", "prvhash12cw", "msws", "msws64", "cwg64"}
TwoForms == {"lcg127prime_mul2", "grube73_mrg3", "mzran13", "kiss93", "xkiss16_awc", "xkiss16sh_awc",
             "xkiss64_awc", "xkiss8_awc"}
Copies == {"smwc24", "smwc48", "smwc48lux", "smwc96"}
StatesStayApart ==
    around # <<>> /\ around.lost > 0 =>
        plugin \in RandomMappings \cup TwoForms \cup Copies \cup {"xorrot256_bad1"}

\* A generator of at most 128 bits that is linear over GF(2) and meant to have
\* its full period (kind Maximal) goes through all states but 0, and the low
\* bits of the counter of a plugin of the kind Counted through all their values.
\* No period is examined of the other kinds, wide linear generators such as
\* xorrot256 among them.  xorrot32 comes with two bad sets of parameters on
\* purpose (xorrot32.c).
PeriodsAreComplete ==
    around # <<>> /\ around.wrong > 0 => plugin \in {"xorrot32_bad1", "xorrot32_bad2"}

\* create never makes an object that stands still, whatever seeds it gets.
\* It does in flea32x1 from zeros; lcg127prime becomes a multiple of its
\* modulus from seeds of ones: neither looks at what it has made.
Stands == {<<"flea32x1", "zeros">>, <<"lcg127prime_mul1", "ones">>,
           <<"lcg127prime_mul2", "ones">>, <<"lcg127prime_mul3", "ones">>}
NeverStands ==
    \A i \in DOMAIN outputs : outputs[i].moved \/ <<plugin, seeds>> \in Stands

\* A number has no bit above the nbits that the plugin declares: tests of 32-bit
\* generators use their numbers as 32 bits, and words of 8 or 16 bits are
\* promoted to int in every expression.
OutputsFit ==
    \A i \in DOMAIN outputs : outputs[i].out \subseteq Ones(outputs[i].nbits)

-----------------------------------------------------------------------------
(***************************************************************************)
(* The recurrences of the lagged plugins, and where a plugin leaves out    *)
(* numbers of its sequence.                                                *)
(***************************************************************************)
History(lags, breaks) == [lags |-> {lags}, breaks |-> breaks]
Lags(lags) == History(lags, <<>>)
Every(keep, first, last, skip) == [i \in 1 .. last |-> <<keep * i + first, skip * i>>]

OneLag ==
    [p \in {"mwc8222", "mwc8222_v2"} |-> 256] @@ [p \in {"mwc4691", "kiss4691"} |-> 4691]
    @@ ("cmwc4096" :> 4096) @@ ("cmwc4827" :> 4827) @@ ("mwc2110_u64" :> 32)

SeveralLags ==
    [p \in {"alfib", "alfib_mod", "607+"} |-> <<607, 273>>]
    @@ [p \in {"alfib8x5", "alfib64x5"} |-> <<61, 60, 46, 45>>]
    @@ [p \in {"lfib4", "lfib4_u64"} |-> <<256, 198, 137, 78>>]
    @@ [p \in {"swb", "swbw"} |-> <<22, 43>>]
    @@ "lfib_ranmar" :> <<98, 33>>  @@ "mlfib17_5" :> <<17, 5>>
    @@ "r250" :> <<250, 103>>       @@ "r1279" :> <<1279, 1063>>
    @@ "swblarge" :> <<856, 920>>   @@ "mrg_1597_2" :> <<1, 1597>>
    @@ "swbmwc32" :> <<24, 37>>     @@ "swbmwc64" :> <<7, 13>>
    @@ "smwc8x16" :> <<15, 1, 2>>   @@ "smwc16x8" :> <<8, 1>>
    @@ "lrnd64_1023" :> <<16, 15, 14, 8>>  @@ "xorgens1024" :> <<16, 7>>
    @@ "ziff98" :> <<471, 1586, 6988, 9689>>
    @@ "31+" :> <<31, 3>>     @@ "55+" :> <<55, 24>>     @@ "127+" :> <<127, 97>>
    @@ "258+" :> <<258, 83>>  @@ "378+" :> <<378, 107>>  @@ "1279+" :> <<1279, 418>>
    @@ "2281+" :> <<2281, 1252>>    @@ "cswb4288_64" :> <<2144, 2080>>
    @@ "mt19937" :> <<624, 623, 227>>
    @@ "mt19937_64_full" :> <<312, 311, 249, 161, 88>>  @@ "mt19937_64_brief" :> <<312, 311, 156>>
    @@ "melg607" :> <<9, 8, 4, 6>>  @@ "melg19937" :> <<311, 310, 230, 292>>
    @@ "melg44497" :> <<695, 694, 322, 600>>

WithBreaks ==
    "xorgens" :> History(<<64, 53>>, <<<<1, 4 * 64>>>>)
    @@ "rwc64large" :> History(<<8, 1>>, <<<<1, 16>>>>)
    @@ "mwc4159_u64" :> History(<<64>>, <<<<1, 64 * 64>>>>)
    @@ "cswb4288" :> History(<<4288, 4160>>, <<<<1, -1>>>>)
    @@ "alfib_lux" :> History(<<100, 37>>, Every(100, 1, 3, 909))
    @@ [p \in {"swblux_0", "ranlux48_0", "swblux64_0"} |->
          Lags(CASE p = "swblux_0" -> <<22, 43>> [] p = "ranlux48_0" -> <<10, 24>> [] OTHER -> <<7, 13>>)]
    @@ "swblux_1" :> History(<<22, 43>>, Every(43, 0, 3, 43))
    @@ "swblux_2" :> History(<<22, 43>>, Every(43, 0, 3, 2 * 43))
    @@ "swblux_3" :> History(<<22, 43>>, Every(43, 0, 3, 3 * 43))
    @@ "swblux_4" :> History(<<22, 43>>, Every(43, 0, 3, 4 * 43))
    @@ "ranlux48_1" :> History(<<10, 24>>, Every(24, 0, 3, 24))
    @@ "ranlux48_2" :> History(<<10, 24>>, Every(24, 0, 3, 73))
    @@ "ranlux48_3" :> History(<<10, 24>>, Every(24, 0, 3, 199))
    @@ "ranlux48_4" :> History(<<10, 24>>, Every(24, 0, 3, 365))
    @@ "swblux64_1" :> History(<<7, 13>>, Every(13, 0, 3, 13))
    @@ "swblux64_2" :> History(<<7, 13>>, Every(13, 0, 3, 29))
    @@ "swblux64_3" :> History(<<7, 13>>, Every(13, 0, 3, 70))
    @@ [q \in {p.name \o "-sc" : p \in Swb64Pairs} |->
          LET p == CHOOSE p \in Swb64Pairs : p.name \o "-sc" = q IN Lags(<<p.s, p.r>>)]
    @@ [q \in {p.name \o "-dec" : p \in Swb64Pairs} |->
          LET p == CHOOSE p \in Swb64Pairs : p.name \o "-dec" = q
          IN  History(<<p.s, p.r>>, [i \in 1 .. 3 |-> <<p.r * (i - 1) + 1, 3 * p.r * i>>])]

Promised ==
    [p \in DOMAIN OneLag |-> Lags(<<OneLag[p]>>)]
    @@ [p \in DOMAIN SeveralLags |-> Lags(SeveralLags[p])] @@ WithBreaks

\* Every number is made from those at the lags of the recurrence, on both sides
\* of every wrap of the array, and numbers are left out only where the plugin
\* says so.  Four plugins fail: swb53dec swaps minuend and subtrahend between
\* the two loops of its refill; ranrot32 fills only the first cells, and
\* rwc4157 and rwc16446 start their warm-up behind the array.
Faulty == {"swb53dec", "ranrot32_7_3", "ranrot32_17_9", "ranrot32_57_13", "rwc4157", "rwc16446"}
LagsAreKept ==
    history # <<>> => \/ plugin \in Faulty
                      \/ history = Promised[plugin]

=============================================================================
