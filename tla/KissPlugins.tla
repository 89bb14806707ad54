----------------------------- MODULE KissPlugins -----------------------------
(***************************************************************************)
(* Plugins that add or xor the outputs of generators of several kinds: a   *)
(* congruence, a xorshift, a multiply or add with carry, a counter.        *)
(***************************************************************************)
EXTENDS PluginIntf

Combo ==
    LET Create(d) ==
            LET x1 == d[1] \gg 32
            IN  [x |-> U32((x1 \ll 3) ++ Num(3)), y |-> U32(Inc(x1 \ll 1)),
                 z |-> x1 \cup {0}]
        Get(s) ==
            LET y1 == Mul(32, s.x, s.y)
                z1 == Mul(31, U16(s.z), Num(\h78B7)) ++ (s.z \gg 16)
            IN  Gives([x |-> s.y, y |-> y1, z |-> z1], U32(y1 ++ z1))
    IN  Mixing("combo", 32, All(32, {"x", "y", "z"}), 0, Create, Get)

Ncombo ==
    LET Create(d) == [x0 |-> U32((U32(d[1]) \ll 3) ++ Num(3)),
                      x1 |-> U32(Inc(U32(d[1]) \ll 1)), y0 |-> d[1] \gg 32,
                      y1 |-> Hex2(\hCAFE, \hBABE), y2 |-> Hex2(\hDEAD, \hBEEF)]
        Get(s) ==
            LET x11 == Mul(32, s.x0, s.x1)
                v_sub == Minus(32, s.y0, s.y2)
                v_sub1 == Minus(32, v_sub, Num(5))
            IN  Gives([x0 |-> s.x1, x1 |-> x11, y0 |-> s.y1, y1 |-> s.y2,
                       y2 |-> IF Less(s.y0, s.y2) THEN v_sub1 ELSE v_sub],
                      Minus(32, x11, IF Less(s.y0, s.y2) THEN v_sub1 ELSE v_sub))
    IN  Mixing("ncombo", 32, All(32, {"x0", "x1", "y0", "y1", "y2"}), 0, Create, Get)

Mzran13 ==
    LET Create(d) == [x |-> Cut(31, d[1]), y |-> Cut(31, d[1] \gg 32),
                      z |-> Cut(31, d[2]), c |-> {0}, n |-> d[2] \gg 32]
        Get(s) ==
            LET z1 == IF Less(U32(s.x ++ s.c), s.y) THEN Minus(32, s.y, U32(s.x ++ s.c))
                      ELSE Minus(32, Minus(32, s.y, U32(s.x ++ s.c)), Num(18))
                n1 == U32(Mul(32, Hex2(\h1, \hDCD), s.n) ++ Hex2(\h3C6E, \hF373))
            IN  Gives([x |-> s.y, y |-> s.z, z |-> z1,
                       c |-> IF Less(U32(s.x ++ s.c), s.y) THEN {} ELSE {0}, n |-> n1],
                      U32(z1 ++ n1))
    IN  Mixing("mzran13", 32,
               [x |-> 32, y |-> 32, z |-> 32, c |-> 1, n |-> 32], 0, Create, Get)

Kiss93 ==
    LET Create(d) ==
            LET xs21 == d[1] \gg 32
            IN  [lcg |-> U32(d[1]), xs1 |-> Num(6789),
                 xs2 |-> IF xs21 = {} THEN Hex2(\h1, \hB26D) ELSE xs21]
        Get(s) ==
            LET lcg1 == U32(Mul(32, Hex2(\h1, \hDCD), s.lcg) ++ Hex2(\h168, \h360D))
                xs11 == U32(s.xs1 \oplus (s.xs1 \ll 17))
                xs12 == xs11 \oplus (xs11 \gg 15)
                xs21 == Cut(31, (s.xs2 \ll 18) \oplus s.xs2)
                xs22 == xs21 \oplus (xs21 \gg 13)
            IN  Gives([lcg |-> lcg1, xs1 |-> xs12, xs2 |-> xs22], U32(lcg1 ++ xs12 ++ xs22))
    IN  Mixing("kiss93", 32, All(32, {"lcg", "xs1", "xs2"}), 0, Create, Get)

Kiss96 ==
    LET Create(d) ==
            LET y1 == d[1] \gg 32
            IN  [x |-> U32(d[1]), y |-> IF y1 = {} THEN Hex2(\h1234, \h5678) ELSE y1,
                 z |-> U16(y1), w |-> y1 \gg 16, c |-> {}]
        Get(s) ==
            LET x1 == U32(Inc(Mul(32, s.x, Hex2(\h1, \hDCD))))
                y1 == U32(s.y \oplus (s.y \ll 13))
                y2 == y1 \oplus (y1 \gg 17)
                y3 == U32(y2 \oplus (y2 \ll 5))
                m == (s.w \ll 1) ++ s.z ++ s.c
                w1 == U32(m)
            IN  Gives([x |-> x1, y |-> y3, z |-> s.w, w |-> w1, c |-> m \gg 32],
                      U32(x1 ++ y3 ++ w1))
    IN  Mixing("kiss96", 32,
               [x |-> 32, y |-> 32, z |-> 32, w |-> 32, c |-> 2], 0, Create, Get)

Kiss99Corrected ==
    LET Create(d) == [z |-> U16(d[1]) \cup {16}, w |-> U16(d[1] \gg 16) \cup {16},
                      jsr |-> (d[2] \gg 32) \cup {0}, jcong |-> U32(d[2])]
        Get(s) ==
            LET z1 == U32(Mul(32, Num(\h9069), U16(s.z)) ++ (s.z \gg 16))
                w1 == Mul(31, Num(\h4650), U16(s.w)) ++ (s.w \gg 16)
                jsr1 == U32(s.jsr \oplus (s.jsr \ll 13))
                jsr2 == jsr1 \oplus (jsr1 \gg 17)
                jsr3 == U32(jsr2 \oplus (jsr2 \ll 5))
                jcong1 == U32(Mul(32, Hex2(\h1, \hDCD), s.jcong) ++ Hex2(\h12, \hD687))
            IN  Gives([z |-> z1, w |-> w1, jsr |-> jsr3, jcong |-> jcong1],
                      U32((U32((z1 \ll 16) ++ w1) \oplus jcong1) ++ jsr3))
    IN  Mixing("kiss99_corrected", 32, All(32, {"z", "w", "jsr", "jcong"}), 0, Create, Get)

Kiss99Original ==
    LET Create(d) == [z |-> U16(d[1]) \cup {16}, w |-> U16(d[1] \gg 16) \cup {16},
                      jsr |-> (d[2] \gg 32) \cup {0}, jcong |-> U32(d[2])]
        Get(s) ==
            LET z1 == U32(Mul(32, Num(\h9069), U16(s.z)) ++ (s.z \gg 16))
                w1 == Mul(31, Num(\h4650), U16(s.w)) ++ (s.w \gg 16)
                jsr1 == U32(s.jsr \oplus (s.jsr \ll 17))
                jsr2 == jsr1 \oplus (jsr1 \gg 13)
                jsr3 == U32(jsr2 \oplus (jsr2 \ll 5))
                jcong1 == U32(Mul(32, Hex2(\h1, \hDCD), s.jcong) ++ Hex2(\h12, \hD687))
            IN  Gives([z |-> z1, w |-> w1, jsr |-> jsr3, jcong |-> jcong1],
                      U32((U32((z1 \ll 16) ++ w1) \oplus jcong1) ++ jsr3))
    IN  Mixing("kiss99_original", 32, All(32, {"z", "w", "jsr", "jcong"}), 0, Create, Get)

Kiss03 ==
    LET Create(d) ==
            LET y1 == d[1] \gg 32
            IN  [x |-> U32(d[1]), y |-> IF y1 = {} THEN Hex2(\h1234, \h5678) ELSE y1,
                 z |-> U32(d[2]), c |-> Inc(Cut(28, d[2] \gg 32))]
        Get(s) ==
            LET x1 == U32(Mul(32, Hex2(\h1, \hDCD), s.x) ++ Num(\h3039))
                y1 == U32(s.y \oplus (s.y \ll 13))
                y2 == y1 \oplus (y1 \gg 17)
                y3 == U32(y2 \oplus (y2 \ll 5))
                t == Mul(62, Hex2(\h29A6, \h5EAD), s.z) ++ s.c
                z1 == U32(t)
            IN  Gives([x |-> x1, y |-> y3, z |-> z1, c |-> t \gg 32], U32(x1 ++ y3 ++ z1))
    IN  Mixing("kiss03", 32, All(32, {"x", "y", "z", "c"}), 0, Create, Get)

Kiss0364 ==
    LET Create(d) == [x |-> d[1], y |-> IF d[2] = {} THEN Hex2(\h1234, \h5678) ELSE d[2],
                      z |-> d[3], c |-> Inc(Cut(48, d[4]))]
        Get(s) ==
            LET x1 == U64(Mul(64, Hex(<<\h1, \h9BAF, \hFBED>>), s.x) ++ Hex2(\h12, \hD687))
                y1 == s.y \oplus (s.y \gg 12)
                y2 == U64(y1 \oplus (y1 \ll 25))
                y3 == y2 \oplus (y2 \gg 27)
                x2 == Mul(128, Hex4(\hFFDC, \h790D, \h903D, \hEF00), s.z) ++ s.c
                z1 == U64(x2)
            IN  Gives([x |-> x1, y |-> y3, z |-> z1, c |-> x2 \gg 64],
                      U64(Rotl(64, x1, 8) ++ y3 ++ z1))
    IN  Mixing("kiss03_64", 64, All(64, {"x", "y", "z", "c"}), 0, Create, Get)

Kiss32rot ==
    LET Create(d) ==
            LET xr1 == d[2] \gg 32
            IN  [mwc |-> Cut(31, d[1] \gg 32) \cup {0},
                 xr |-> IF xr1 = {} THEN Hex2(\hDEAD, \hBEEF) ELSE xr1,
                 lcg |-> d[3] \gg 32]
        Get(s) ==
            LET xr1 == U32(s.xr \oplus (s.xr \ll 1))
            IN  Gives([mwc |-> U32(Mul(32, Num(\hF98D), U16(s.mwc)) ++ (s.mwc \gg 16)),
                       xr |-> xr1 \oplus Rotl(32, xr1, 9) \oplus Rotl(32, xr1, 27),
                       lcg |-> U32(Mul(32, Hex2(\h1, \hDCD), s.lcg) ++ Num(\h3039))],
                      U32(Rotl(32, s.lcg, 3) ++ s.xr ++ s.mwc))
    IN  Mixing("kiss32rot", 32, All(32, {"mwc", "xr", "lcg"}), 0, Create, Get)

Kiss64 ==
    LET Create(d) ==
            LET i == FirstDraw(1, 1, LAMBDA j : d[j] # {})
                i1 == FirstDraw(i + 1, 1, LAMBDA j : Cut(58, d[j]) # {})
                i2 == FirstDraw(i1 + 1, 1, LAMBDA j : d[j] # {})
                c1 == Cut(58, d[i1])
            IN  [x |-> d[i], c |-> c1, y |-> d[i2], z |-> d[i2 + 1]]
        Get(s) ==
            LET t == U64((s.x \ll 58) ++ s.c)
                x1 == U64(s.x ++ t)
                y1 == U64(s.y \oplus (s.y \ll 13))
                y2 == y1 \oplus (y1 \gg 17)
                y3 == U64(y2 \oplus (y2 \ll 43))
                z1 == U64(Mul(64, Hex(<<\h1, \h9BAF, \hFBED>>), s.z) ++ Hex2(\h12, \hD687))
            IN  Gives([x |-> x1, c |-> (s.x \gg 6) ++ If(Less(x1, t), {0}), y |-> y3,
                       z |-> z1], U64(x1 ++ y3 ++ z1))
    IN  Mixing("kiss64", 64, All(64, {"x", "c", "y", "z"}), 0, Create, Get)

Kiss64rot ==
    LET Create(d) == [mwc |-> Cut(63, d[1]) \cup {0},
                      xr |-> IF d[2] = {} THEN Hex4(\hCAFE, \hBABE, \hDEAD, \hBEEF)
                             ELSE d[2], lcg |-> d[3]]
        Get(s) ==
            LET xr1 == U64(s.xr \oplus (s.xr \ll 5))
            IN  Gives([mwc |-> U64(Mul(64, Hex2(\hFF67, \h6488), U32(s.mwc))
                               ++ (s.mwc \gg 32)),
                       xr |-> xr1 \oplus Rotl(64, xr1, 13) \oplus Rotl(64, xr1, 47),
                       lcg |-> U64(Mul(64, Hex(<<\h1, \h9BAF, \hFBED>>), s.lcg) ++ Hex2(\h12,
                               \hD687))], U64(Rotl(64, s.lcg, 5) ++ s.xr ++ s.mwc))
    IN  Mixing("kiss64rot", 64, All(64, {"mwc", "xr", "lcg"}), 0, Create, Get)

Jkiss ==
    LET Create(d) ==
            LET y1 == d[1] \gg 32
            IN  [x |-> U32(d[1]), y |-> IF y1 = {} THEN Hex2(\h1234, \h5678) ELSE y1,
                 z |-> U32(d[2]), c |-> Inc(Cut(31, d[2] \gg 32))]
        Get(s) ==
            LET x1 == U32(Mul(32, Hex2(\h12BF, \h507D), s.x) ++ Hex2(\h12, \hD687))
                y1 == U32(s.y \oplus (s.y \ll 5))
                y2 == y1 \oplus (y1 \gg 7)
                y3 == U32(y2 \oplus (y2 \ll 22))
                t == U64(Mul(64, Hex2(\hFFFA, \h2849), s.z) ++ s.c)
                z1 == U32(t)
            IN  Gives([x |-> x1, y |-> y3, z |-> z1, c |-> t \gg 32], U32(x1 ++ y3 ++ z1))
    IN  Mixing("jkiss", 32, All(32, {"x", "y", "z", "c"}), 0, Create, Get)

Jlkiss64 ==
    LET Create(d) == [x |-> d[2], y |-> d[3] \cup {0}, mwc1 |-> (d[1] \gg 32) \cup {33},
                      mwc2 |-> U32(d[1]) \cup {33}]
        Get(s) ==
            LET x1 == U64(Mul(64, Hex4(\h14AD, \hA13E, \hD784, \h92AD), s.x) ++ Hex2(\h75B,
                      \hCD15))
                y1 == U64(s.y \oplus (s.y \ll 21))
                y2 == y1 \oplus (y1 \gg 17)
                y3 == U64(y2 \oplus (y2 \ll 30))
                mwc11 == U64(Mul(64, Hex2(\hFFFA, \h2849), U32(s.mwc1)) ++ (s.mwc1 \gg 32))
                mwc21 == U64(Mul(64, Hex2(\hFD1C, \h1AC5), U32(s.mwc2)) ++ (s.mwc2 \gg 32))
            IN  Gives([x |-> x1, y |-> y3, mwc1 |-> mwc11, mwc2 |-> mwc21],
                      U64(x1 ++ y3 ++ U32(mwc11) ++ (mwc21 \ll 32)))
    IN  Mixing("jlkiss64", 64, All(64, {"x", "y", "mwc1", "mwc2"}), 0, Create, Get)

MwcKiss96 ==
    LET Create(d) == [z |-> U32(d[1]), w |-> d[1] \gg 32, c |-> {0}]
        Get(s) ==
            LET m == (s.w \ll 1) ++ s.z ++ s.c
            IN  Gives([z |-> s.w, w |-> U32(m), c |-> m \gg 32], s.w)
    IN  Mixing("mwc_kiss96", 32, [z |-> 32, w |-> 32, c |-> 2], 0, Create, Get)

MwcscKiss96 ==
    LET Create(d) == [z |-> U32(d[1]), w |-> d[1] \gg 32, c |-> {0}]
        Get(s) ==
            LET m == (s.w \ll 1) ++ s.z ++ s.c
                out == U32(s.w ++ (Mul(32, s.w, s.w) \cup Num(\h4005)))
            IN  Gives([z |-> s.w, w |-> U32(m), c |-> m \gg 32],
                      out \oplus Rotl(32, out, 7) \oplus Rotl(32, out, 23))
    IN  Mixing("mwcsc_kiss96", 32, [z |-> 32, w |-> 32, c |-> 2], 0, Create, Get)

Ranlim32 ==
    LET Create(d) == [lcg |-> U32(d[2]), xs |-> (d[2] \gg 32) \cup {0},
                      mwc1 |-> U16(d[1]) \cup {16}, mwc2 |-> U16(d[1] \gg 16) \cup {16}]
        Get(s) ==
            LET lcg1 == U32(Mul(32, Hex2(\hAC56, \h4B05), s.lcg) ++ Hex2(\h61C8, \h8639))
                xs1 == s.xs \oplus (s.xs \gg 13)
                xs2 == U32(xs1 \oplus (xs1 \ll 17))
                xs3 == xs2 \oplus (xs2 \gg 5)
                mwc11 == U32(Mul(32, Num(\h8262), U16(s.mwc1)) ++ (s.mwc1 \gg 16))
                mwc21 == U32(Mul(32, Num(\hDF89), U16(s.mwc2)) ++ (s.mwc2 \gg 16))
                x == U32(lcg1 \oplus (lcg1 \ll 9))
                x1 == x \oplus (x \gg 17)
                y == U32(mwc11 \oplus (mwc11 \ll 17))
                y1 == y \oplus (y \gg 15)
            IN  Gives([lcg |-> lcg1, xs |-> xs3, mwc1 |-> mwc11, mwc2 |-> mwc21],
                      U32((U32(x1 \oplus (x1 \ll 6)) ++ xs3) \oplus (U32(y1
                      \oplus (y1 \ll 5)) ++ mwc21)))
    IN  Mixing("ranlim32", 32, All(32, {"lcg", "xs", "mwc1", "mwc2"}), 0, Create, Get)

Ranq2 ==
    LET Create(d) == [v |-> IF d[1] = {} THEN Hex4(\h38EC, \hAC5F, \hB325, \h1641) ELSE d[1],
                            w |-> (d[2] \gg 32) \cup {32}]
        Get(s) ==
            LET v1 == s.v \oplus (s.v \gg 17)
                v2 == U64(v1 \oplus (v1 \ll 31))
                v3 == v2 \oplus (v2 \gg 8)
                w1 == U64(Mul(64, Hex2(\hFFFF, \hDA61), U32(s.w)) ++ (s.w \gg 32))
            IN  Gives([v |-> v3, w |-> w1], w1 \oplus v3)
    IN  Mixing("ranq2", 64, All(64, {"v", "w"}), 0, Create, Get)

Superduper73 ==
    LET Create(d) ==
            LET xs1 == d[1] \gg 32
            IN  [lcg |-> U32(d[1]) \cup {0},
                 xs |-> IF xs1 = {} THEN Hex2(\hDEAD, \hBEEF) ELSE xs1]
        Get(s) ==
            LET lcg1 == Mul(32, s.lcg, Hex2(\h1, \hDCD))
                xs1 == s.xs \oplus (s.xs \gg 15)
                xs2 == U32(xs1 \oplus (xs1 \ll 17))
            IN  Gives([lcg |-> lcg1, xs |-> xs2], lcg1 \oplus xs2)
    IN  Mixing("superduper73", 32, All(32, {"lcg", "xs"}), 0, Create, Get)

Superduper96 ==
    LET Create(d) ==
            LET xs1 == d[1] \gg 32
            IN  [lcg |-> U32(d[1]), xs |-> IF xs1 = {} THEN Hex2(\hDEAD, \hBEEF) ELSE xs1]
        Get(s) ==
            LET lcg1 == U32(Mul(32, Hex2(\h1, \hDCD), s.lcg) ++ Num(\h3039))
                xs1 == s.xs \oplus (s.xs \gg 13)
                xs2 == U32(xs1 \oplus (xs1 \ll 17))
                xs3 == xs2 \oplus (xs2 \gg 5)
            IN  Gives([lcg |-> lcg1, xs |-> xs3], U32(lcg1 ++ xs3))
    IN  Mixing("superduper96", 32, All(32, {"lcg", "xs"}), 0, Create, Get)

Superduper64U64 ==
    LET Create(d) ==
            LET i == FirstDraw(2, 1, LAMBDA j : d[j] # {})
            IN  [lcg |-> d[1], xs |-> d[i]]
        Get(s) ==
            LET lcg1 == U64(Mul(64, Hex(<<\h1, \h9BAF, \hFBED>>), s.lcg) ++ Hex2(\h12,
                        \hD687))
                xs1 == U64(s.xs \oplus (s.xs \ll 13))
                xs2 == xs1 \oplus (xs1 \gg 17)
                xs3 == U64(xs2 \oplus (xs2 \ll 43))
            IN  Gives([lcg |-> lcg1, xs |-> xs3], U64(lcg1 ++ xs3))
    IN  Mixing("superduper64_u64", 64, All(64, {"lcg", "xs"}), 0, Create, Get)

Superduper64U32 ==
    LET Create(d) ==
            LET i == FirstDraw(2, 1, LAMBDA j : d[j] # {})
            IN  [lcg |-> d[1], xs |-> d[i]]
        Get(s) ==
            LET lcg1 == U64(Mul(64, Hex(<<\h1, \h9BAF, \hFBED>>), s.lcg) ++ Hex2(\h12,
                        \hD687))
                xs1 == U64(s.xs \oplus (s.xs \ll 13))
                xs2 == xs1 \oplus (xs1 \gg 17)
                xs3 == U64(xs2 \oplus (xs2 \ll 43))
            IN  Gives([lcg |-> lcg1, xs |-> xs3], U64(lcg1 ++ xs3) \gg 32)
    IN  Mixing("superduper64_u32", 32, All(64, {"lcg", "xs"}), 0, Create, Get)

Tf0duper32 ==
    LET Create(d) ==
            LET xs1 == d[1] \gg 32
            IN  [tf |-> U32(d[1]), xs |-> IF xs1 = {} THEN Hex2(\hDEAD, \hBEEF) ELSE xs1]
        Get(s) ==
            LET xs1 == U32(s.xs \oplus (s.xs \ll 1))
                s1 == U32(Rotl(32, s.tf, 5) ++ s.xs)
            IN  Gives([tf |-> U32(s.tf ++ (Mul(32, s.tf, s.tf) \cup Num(\h4005))),
                       xs |-> xs1 \oplus Rotl(32, xs1, 9) \oplus Rotl(32, xs1, 27)],
                      s1 \oplus (s1 \gg 16))
    IN  Mixing("tf0duper32", 32, All(32, {"tf", "xs"}), 0, Create, Get)

Tf0duper64 ==
    LET Create(d) == [tf |-> d[1],
                      xs |-> IF d[2] = {} THEN Hex2(\hDEAD, \hBEEF) ELSE d[2]]
        Get(s) ==
            LET xs1 == U64(s.xs \oplus (s.xs \ll 5))
                s1 == U64(Rotl(64, s.tf, 11) ++ s.xs)
            IN  Gives([tf |-> U64(s.tf ++ (Mul(64, s.tf, s.tf) \cup Hex2(\h4000, \h5))),
                       xs |-> xs1 \oplus Rotl(64, xs1, 13) \oplus Rotl(64, xs1, 47)],
                      s1 \oplus (s1 \gg 32))
    IN  Mixing("tf0duper64", 64, All(64, {"tf", "xs"}), 0, Create, Get)

Xkiss8Awc ==
    LET Next(s) ==
            LET tx == U8(s.s0 \oplus (s.s0 \ll 4))
                t == s.x0 ++ s.x1 ++ s.x_c
                x21 == U8(t)
                weyl1 == U8(s.weyl ++ Num(151))
            IN  Gives([s0 |-> s.s1, s1 |-> s.s2, s2 |-> s.s3,
                       s3 |-> U8(s.s3 \oplus tx \oplus (s.s3 \gg 1) \oplus (tx \ll 1)),
                       x0 |-> s.x1, x1 |-> s.x2, x2 |-> x21, x_c |-> t \gg 8,
                       weyl |-> weyl1], U8(s.s1 ++ x21 ++ weyl1))
        Create(d) ==
            LET x01 == U8(d[1])
                x11 == U8(d[1] \gg 8)
                x21 == U8(d[1] \gg 16)
            IN  [s0 |-> {}, s1 |-> {}, s2 |-> {}, s3 |-> {0}, x0 |-> x01, x1 |-> x11,
                 x2 |-> x21, x_c |-> If(x01 = {} /\ x11 = {} /\ x21 = {}, {0}),
                 weyl |-> U8(d[1] \gg 24)]
        Get(s) == Bytes(Next, s)
    IN  Mixing("xkiss8_awc", 32,
               [s0 |-> 8, s1 |-> 8, s2 |-> 8, s3 |-> 8, x0 |-> 8, x1 |-> 8, x2 |-> 8,
               x_c |-> 1, weyl |-> 8], 32, Create, Get)

Xkiss16Awc ==
    LET Next(s) ==
            LET weyl1 == U16(s.weyl ++ Num(\h9E39))
                s11 == s.s1 \oplus s.s0
                s01 == U16(Rotl(16, s.s0, 13) \oplus s11 \oplus (s11 \ll 5))
                s12 == Rotl(16, s11, 10)
                t == s.awc_x0 ++ s.awc_x1 ++ s.awc_c
                awc_x01 == U16(t)
            IN  Gives([weyl |-> weyl1, s0 |-> s01, s1 |-> s12, awc_x0 |-> awc_x01,
                       awc_x1 |-> s.awc_x0, awc_c |-> t \gg 16],
                      U16(weyl1 ++ s01 ++ s12 ++ awc_x01))
        Create(d) ==
            LET s01 == U16(d[1] \gg 16)
                s11 == U16(d[1])
                awc_x01 == U16(d[1] \gg 32)
                awc_x11 == d[1] \gg 48
            IN  [weyl |-> {}, s0 |-> IF s01 = {} /\ s11 = {} THEN Num(\hDEAD) ELSE s01,
                 s1 |-> IF s01 = {} /\ s11 = {} THEN Num(\hBEEF) ELSE s11,
                 awc_x0 |-> awc_x01, awc_x1 |-> awc_x11,
                 awc_c |-> If(awc_x01 = {} /\ awc_x11 = {}, {0})]
        Get(s) == Halves(Next, s)
    IN  Mixing("xkiss16_awc", 32,
               [weyl |-> 16, s0 |-> 16, s1 |-> 16, awc_x0 |-> 16, awc_x1 |-> 16,
               awc_c |-> 1], 0, Create, Get)

Xkiss16shAwc ==
    LET Next(s) ==
            LET xs1 == U16(s.xs \oplus (s.xs \ll 7))
                xs2 == xs1 \oplus (xs1 \gg 9)
                xs3 == U16(xs2 \oplus (xs2 \ll 8))
                t == s.awc_x0 ++ s.awc_x1 ++ s.awc_c
                awc_x01 == U16(t)
                weyl1 == U16(s.weyl ++ Num(\h9E39))
            IN  Gives([xs |-> xs3, awc_x0 |-> awc_x01, awc_x1 |-> s.awc_x0,
                       awc_c |-> t \gg 16, weyl |-> weyl1],
                      U16((Rotl(16, awc_x01, 3) \oplus s.awc_x0) ++ Rotl(16, U16(xs3
                      ++ weyl1), Value(Cut(4, awc_x01)))))
        Create(d) ==
            LET xs1 == U16(d[1] \gg 16)
                awc_x01 == U16(d[1] \gg 32)
                awc_x11 == d[1] \gg 48
            IN  [xs |-> IF xs1 = {} THEN Num(\hDEAD) ELSE xs1, awc_x0 |-> awc_x01,
                 awc_x1 |-> awc_x11, awc_c |-> If(awc_x01 = {} /\ awc_x11 = {}, {0}),
                 weyl |-> {}]
        Get(s) == Halves(Next, s)
    IN  Mixing("xkiss16sh_awc", 32,
               [xs |-> 16, awc_x0 |-> 16, awc_x1 |-> 16, awc_c |-> 1, weyl |-> 16], 0,
               Create, Get)

Xkiss32Awc ==
    LET Create(d) ==
            LET awc_x01 == Cut(26, d[2] \gg 32)
                awc_x11 == Cut(26, d[2])
            IN  [s0 |-> U32(d[1]), s1 |-> (d[1] \gg 32) \cup {0}, awc_x0 |-> awc_x01,
                 awc_x1 |-> awc_x11, awc_c |-> If(awc_x01 = {} /\ awc_x11 = {}, {0})]
        Get(s) ==
            LET s11 == s.s1 \oplus s.s0
                s01 == U32(Rotl(32, s.s0, 26) \oplus s11 \oplus (s11 \ll 9))
                s12 == Rotl(32, s11, 13)
                t == U32(s.awc_x0 ++ s.awc_x1 ++ s.awc_c)
                awc_x01 == Cut(26, t)
            IN  Gives([s0 |-> s01, s1 |-> s12, awc_x0 |-> awc_x01, awc_x1 |-> s.awc_x0,
                       awc_c |-> t \gg 26],
                      U32(s01 ++ s12 ++ ((awc_x01 \ll 6) \oplus s.awc_x0)))
    IN  Mixing("xkiss32_awc", 32,
               [s0 |-> 32, s1 |-> 32, awc_x0 |-> 32, awc_x1 |-> 32, awc_c |-> 1], 0, Create,
               Get)

Xkiss32AwcRot ==
    LET Create(d) ==
            LET x1 == d[1] \gg 32
                awc_x01 == Cut(26, d[2] \gg 32)
                awc_x11 == Cut(26, d[2])
            IN  [x |-> IF x1 = {} THEN Hex2(\hDEAD, \hBEEF) ELSE x1, awc_x0 |-> awc_x01,
                 awc_x1 |-> awc_x11, awc_c |-> If(awc_x01 = {} /\ awc_x11 = {}, {0})]
        Get(s) ==
            LET x1 == U32(s.x \oplus (s.x \ll 1))
                x2 == x1 \oplus Rotl(32, x1, 9) \oplus Rotl(32, x1, 27)
                t == U32(s.awc_x0 ++ s.awc_x1 ++ s.awc_c)
                awc_x01 == Cut(26, t)
            IN  Gives([x |-> x2, awc_x0 |-> awc_x01, awc_x1 |-> s.awc_x0,
                       awc_c |-> t \gg 26],
                      x2 \oplus (awc_x01 \ll 6) \oplus Mul(32, s.awc_x0, Num(29)))
    IN  Mixing("xkiss32_awc_rot", 32,
               [x |-> 32, awc_x0 |-> 32, awc_x1 |-> 32, awc_c |-> 1], 0, Create, Get)

Xkiss32shAwc ==
    LET Create(d) ==
            LET xs1 == U32(d[1])
                awc_x01 == Cut(26, d[2] \gg 32)
                awc_x11 == Cut(26, d[2])
            IN  [xs |-> IF xs1 = {} THEN Hex2(\hDEAD, \hBEEF) ELSE xs1,
                 awc_x0 |-> awc_x01, awc_x1 |-> awc_x11,
                 awc_c |-> If(awc_x01 = {} /\ awc_x11 = {}, {0})]
        Get(s) ==
            LET xs1 == U32(s.xs \oplus (s.xs \ll 13))
                xs2 == xs1 \oplus (xs1 \gg 17)
                xs3 == U32(xs2 \oplus (xs2 \ll 5))
                t == U32(s.awc_x0 ++ s.awc_x1 ++ s.awc_c)
                awc_x01 == Cut(26, t)
            IN  Gives([xs |-> xs3, awc_x0 |-> awc_x01, awc_x1 |-> s.awc_x0,
                       awc_c |-> t \gg 26], U32(xs3 ++ ((awc_x01 \ll 6) \oplus s.awc_x0)))
    IN  Mixing("xkiss32sh_awc", 32,
               [xs |-> 32, awc_x0 |-> 32, awc_x1 |-> 32, awc_c |-> 1], 0, Create, Get)

Xkiss64Awc ==
    LET Create(d) ==
            LET awc_x01 == Cut(55, d[1])
                awc_x11 == Cut(55, d[2])
            IN  [weyl |-> d[4],
                 xsh |-> IF d[3] = {} THEN Hex4(\h123, \h4567, \h89AB, \hCDEF) ELSE d[3],
                 awc_x0 |-> awc_x01, awc_x1 |-> awc_x11,
                 awc_c |-> If(awc_x01 = {} /\ awc_x11 = {}, {0})]
        Get(s) ==
            LET weyl1 == U64(s.weyl ++ Hex4(\h9E37, \h79B9, \h7F4A, \h7C15))
                xsh1 == U64(s.xsh \oplus (s.xsh \ll 13))
                xsh2 == xsh1 \oplus (xsh1 \gg 17)
                xsh3 == U64(xsh2 \oplus (xsh2 \ll 43))
                t == U64(s.awc_x0 ++ s.awc_x1 ++ s.awc_c)
                awc_x01 == Cut(55, t)
            IN  Gives([weyl |-> weyl1, xsh |-> xsh3, awc_x0 |-> awc_x01,
                       awc_x1 |-> s.awc_x0, awc_c |-> t \gg 55],
                      U64(((awc_x01 \ll 9) \oplus s.awc_x0) ++ xsh3 ++ weyl1))
    IN  Mixing("xkiss64_awc", 64,
               [weyl |-> 64, xsh |-> 64, awc_x0 |-> 55, awc_x1 |-> 55, awc_c |-> 1], 0,
               Create, Get)

Xorwow ==
    LET Create(d) ==
            LET v1 == U32(d[3])
            IN  [x |-> U32(d[1]), y |-> d[1] \gg 32, z |-> U32(d[2]), w |-> d[2] \gg 32,
                 v |-> IF v1 = {} THEN Hex2(\h1234, \h5678) ELSE v1, d |-> d[3] \gg 32]
        Get(s) ==
            LET t == s.x \oplus (s.x \gg 2)
                v1 == U32(s.v \oplus (s.v \ll 4) \oplus t \oplus (t \ll 1))
                d1 == U32(s.d ++ Hex2(\h5, \h87C5))
            IN  Gives([x |-> s.y, y |-> s.z, z |-> s.w, w |-> s.v, v |-> v1, d |-> d1],
                      U32(d1 ++ v1))
    IN  Mixing("xorwow", 32, All(32, {"x", "y", "z", "w", "v", "d"}), 0, Create, Get)

XorwowMod ==
    LET Create(d) ==
            LET v1 == U32(d[3])
            IN  [x |-> U32(d[1]), y |-> d[1] \gg 32, z |-> U32(d[2]), w |-> d[2] \gg 32,
                 v |-> IF v1 = {} THEN Hex2(\h1234, \h5678) ELSE v1, d1 |-> d[3] \gg 32,
                 d2 |-> Hex2(\h12, \hD687)]
        Get(s) ==
            LET t == U32(s.x \oplus (s.x \ll 19))
                v1 == s.v \oplus (s.v \gg 11) \oplus t \oplus (t \gg 3)
            IN  Gives([x |-> s.y, y |-> s.z, z |-> s.w, w |-> s.v, v |-> v1,
                       d1 |-> U32(s.d1 ++ s.d2), d2 |-> s.d1], U32(Rotl(32, s.d1, 1) ++ v1))
    IN  Mixing("xorwow_mod", 32,
               All(32, {"x", "y", "z", "w", "v", "d1", "d2"}), 0, Create, Get)

XorwowW64 ==
    LET Create(d) == [x |-> d[1], y |-> d[2], z |-> d[3], w |-> d[4],
                      v |-> IF d[5] = {} THEN Hex2(\hDEAD, \hBEEF) ELSE d[5], d1 |-> d[6],
                      d2 |-> d[7] \cup {0}]
        Get(s) ==
            LET t == U64(s.x \oplus (s.x \ll 31))
            IN  Gives([x |-> s.y, y |-> s.z, z |-> s.w, w |-> s.v,
                       v |-> s.v \oplus (s.v \gg 28) \oplus t \oplus (t \gg 1),
                       d1 |-> U64(s.d1 ++ s.d2), d2 |-> s.d1],
                      U64(s.x ++ Rotl(64, s.d1, 1)))
    IN  Mixing("xorwow_w64", 64,
               All(64, {"x", "y", "z", "w", "v", "d1", "d2"}), 0, Create, Get)

KissNext ==
    \/ Combo \/ Ncombo \/ Mzran13 \/ Kiss93 \/ Kiss96 \/ Kiss99Corrected
    \/ Kiss99Original \/ Kiss03 \/ Kiss0364 \/ Kiss32rot \/ Kiss64 \/ Kiss64rot
    \/ Jkiss \/ Jlkiss64 \/ MwcKiss96 \/ MwcscKiss96 \/ Ranlim32 \/ Ranq2
    \/ Superduper73 \/ Superduper96 \/ Superduper64U64 \/ Superduper64U32
    \/ Tf0duper32 \/ Tf0duper64 \/ Xkiss8Awc \/ Xkiss16Awc \/ Xkiss16shAwc
    \/ Xkiss32Awc \/ Xkiss32AwcRot \/ Xkiss32shAwc \/ Xkiss64Awc \/ Xorwow
    \/ XorwowMod \/ XorwowW64

=============================================================================
