----------------------------- MODULE LcgPlugins ------------------------------
(***************************************************************************)
(* Plugins that step a linear congruence, a counter or a T-function, and mix *)
(* or cut its value for the output.                                        *)
(***************************************************************************)
EXTENDS PluginIntf

Randu ==
    LET Create(d) == [x |-> d[1] \gg 32]
        Get(s) ==
            LET x1 == U32(Mul(32, Hex2(\h1, \h3), s.x) ++ Num(\h3039))
            IN  Gives([x |-> x1], x1)
    IN  Mixing("randu", 32, All(32, {"x"}), 0, Create, Get)

Lcg42 ==
    LET Create(d) == [x |-> Cut(42, d[1]) \cup {0}]
        Get(s) ==
            LET x1 == Mul(42, s.x, Hex(<<\hB1, \hA2BC, \h2EC5>>))
            IN  Gives([x |-> x1], x1 \gg 10)
    IN  Mixing("lcg42", 32, All(42, {"x"}), 0, Create, Get)

Drand48 ==
    LET Create(d) == [x |-> d[1]]
        Get(s) ==
            LET x1 == Cut(48, Mul(64, s.x, Hex(<<\h5, \hDEEC, \hE66D>>)) ++ Num(11))
            IN  Gives([x |-> x1], x1 \gg 16)
    IN  Mixing("drand48", 32, All(48, {"x"}), 0, Create, Get)

Lcg69069 ==
    LET Create(d) == [x |-> d[1] \gg 32]
        Get(s) ==
            LET x1 == U32(Mul(32, Hex2(\h1, \hDCD), s.x) ++ Num(\h3039))
            IN  Gives([x |-> x1], x1)
    IN  Mixing("lcg69069", 32, All(32, {"x"}), 0, Create, Get)

Lcg32sc ==
    LET Create(d) == [x |-> d[1] \gg 32]
        Get(s) ==
            LET out == Mul(32, s.x \oplus (s.x \gg 16), Hex2(\h1, \hDCD))
            IN  Gives([x |-> U32(Mul(32, Hex2(\h1, \hDCD), s.x) ++ Num(\h3039))],
                      out \oplus Rotl(32, out, 7) \oplus Rotl(32, out, 23))
    IN  Mixing("lcg32sc", 32, All(32, {"x"}), 0, Create, Get)

Lcg64Marsaglia ==
    LET Create(d) == [x |-> d[1]]
        Get(s) ==
            LET x1 == U64(Inc(Mul(64, s.x, Hex(<<\h1, \h9BAF, \hFBED>>))))
            IN  Gives([x |-> x1], x1 \gg 32)
    IN  Mixing("lcg64_marsaglia", 32, All(64, {"x"}), 0, Create, Get)

Lcg64Taocp ==
    LET Create(d) == [x |-> d[1]]
        Get(s) ==
            LET x1 == U64(Mul(64, s.x, Hex4(\h5851, \hF42D, \h4C95, \h7F2D)) ++ Hex4(\h1405,
                      \h7B7E, \hF767, \h814F))
            IN  Gives([x |-> x1], x1 \gg 32)
    IN  Mixing("lcg64_taocp", 32, All(64, {"x"}), 0, Create, Get)

Lcg64Steele ==
    LET Create(d) == [x |-> d[1]]
        Get(s) ==
            LET x1 == U64(Mul(64, s.x, Hex4(\hD134, \h2543, \hDE82, \hEF95)) ++ Hex4(\h1405,
                      \h7B7E, \hF767, \h814F))
            IN  Gives([x |-> x1], x1 \gg 32)
    IN  Mixing("lcg64_steele", 32, All(64, {"x"}), 0, Create, Get)

Lcg64sc ==
    LET Create(d) == [x |-> d[1]]
        Get(s) ==
            LET out == Mul(64, s.x \oplus (s.x \gg 32), Hex(<<\h1, \h9BAF, \hFBED>>))
            IN  Gives([x |-> U64(Mul(64, Hex(<<\h1, \h9BAF, \hFBED>>), s.x)
                             ++ Num(\h3039))],
                      out \oplus Rotl(64, out, 17) \oplus Rotl(64, out, 53))
    IN  Mixing("lcg64sc", 64, All(64, {"x"}), 0, Create, Get)

Lcg64sc2 ==
    LET Create(d) == [x |-> d[1]]
        Get(s) ==
            LET out == s.x \gg 32
                out1 == Mul(32, Hex2(\h1, \hDCD), (out \gg 16) \oplus out)
            IN  Gives([x |-> U64(Mul(64, s.x, Hex(<<\h1, \h9BAF, \hFBED>>))
                             ++ Num(\h3039))],
                      out1 \oplus Rotl(32, out1, 7) \oplus Rotl(32, out1, 23))
    IN  Counted("lcg64sc2", 32, All(64, {"x"}), "x", 0, Create, Get)

Coveyou64 ==
    LET Create(d) == [x |-> U64((d[1] \ll 2) ++ {1})]
        Get(s) ==
            LET x1 == Mul(64, U64(Inc(s.x)), s.x)
            IN  Gives([x |-> x1], x1 \gg 32)
    IN  Mixing("coveyou64", 32, All(64, {"x"}), 0, Create, Get)

Lcg61prime ==
    LET Create(d) == [x |-> d[1] \cup {0}]
        Get(s) ==
            LET x1 == Mul(128, Hex4(\hEDC, \hADF1, \h44C6, \hBCD7), s.x)
                lo == U64(x1)
                x2 == U64(Cut(61, lo) ++ U64(((x1 \gg 64) \ll 3) \cup (lo \gg 61)))
                x3 == IF ~Less(x2, Hex4(\h1FFF, \hFFFF, \hFFFF, \hFFFF)) THEN Minus(64, x2,
                      Hex4(\h1FFF, \hFFFF, \hFFFF, \hFFFF)) ELSE x2
            IN  Gives([x |-> x3], U32(x3))
    IN  Mixing("lcg61prime", 32, All(61, {"x"}), 0, Create, Get)

Lcg127primeMul1 ==
    LET Create(d) == [x_low |-> d[2] \cup {0} \cup {0}, x_high |-> d[1] \gg 1]
        Get(s) ==
            LET x == Mul(128, Hex4(\hBA6D, \h2F8B, \h8D16, \h5C4B), s.x_low)
                x1 == Mul(128, Hex4(\hBA6D, \h2F8B, \h8D16, \h5C4B), s.x_high) ++ (x \gg 64)
                x2 == U64(x1)
                x3 == U64(x) ++ (Cut(63, x2) \ll 64) ++ U64(((x1 \gg 64) \ll 1)
                      \cup (x2 \gg 63))
                x4 == U128(x3) \gg 64
                x5 == U64(x3)
                x6 == Inc(x5 ++ (x4 \ll 64))
                x_low1 == IF (x4 \gg 63) # {} THEN U64(x6) ELSE x5
            IN  Gives([x_low |-> x_low1,
                       x_high |-> IF (x4 \gg 63) # {} THEN Cut(63, U128(x6) \gg 64)
                                  ELSE x4], x_low1)
    IN  Mixing("lcg127prime_mul1", 64, All(64, {"x_low", "x_high"}), 0, Create, Get)

Lcg127primeMul2 ==
    LET Create(d) == [x_low |-> d[2] \cup {0} \cup {0}, x_high |-> d[1] \gg 1]
        Get(s) ==
            LET x == Mul(128, Hex4(\hBE92, \h98C6, \hA913, \h3E30), s.x_low)
                x1 == Mul(128, Hex4(\hBE92, \h98C6, \hA913, \h3E30), s.x_high) ++ (x \gg 64)
                x2 == U64(x1)
                x3 == U64(x) ++ (Cut(63, x2) \ll 64) ++ U64(((x1 \gg 64) \ll 1)
                      \cup (x2 \gg 63))
                x4 == U128(x3) \gg 64
                x5 == U64(x3)
                x6 == Inc(x5 ++ (x4 \ll 64))
                x_low1 == IF (x4 \gg 63) # {} THEN U64(x6) ELSE x5
            IN  Gives([x_low |-> x_low1,
                       x_high |-> IF (x4 \gg 63) # {} THEN Cut(63, U128(x6) \gg 64)
                                  ELSE x4], x_low1)
    IN  Mixing("lcg127prime_mul2", 64, All(64, {"x_low", "x_high"}), 0, Create, Get)

Lcg127primeMul3 ==
    LET Create(d) == [x_low |-> d[2] \cup {0} \cup {0}, x_high |-> d[1] \gg 1]
        Get(s) ==
            LET x == Mul(128, Hex4(\hBF09, \h1CB1, \h87F9, \h8FB9), s.x_low)
                x1 == Mul(128, Hex4(\hBF09, \h1CB1, \h87F9, \h8FB9), s.x_high) ++ (x \gg 64)
                x2 == U64(x1)
                x3 == U64(x) ++ (Cut(63, x2) \ll 64) ++ U64(((x1 \gg 64) \ll 1)
                      \cup (x2 \gg 63))
                x4 == U128(x3) \gg 64
                x5 == U64(x3)
                x6 == Inc(x5 ++ (x4 \ll 64))
                x_low1 == IF (x4 \gg 63) # {} THEN U64(x6) ELSE x5
            IN  Gives([x_low |-> x_low1,
                       x_high |-> IF (x4 \gg 63) # {} THEN Cut(63, U128(x6) \gg 64)
                                  ELSE x4], x_low1)
    IN  Mixing("lcg127prime_mul3", 64, All(64, {"x_low", "x_high"}), 0, Create, Get)

Wich1982 ==
    LET Create(d) == [s1 |-> U16({0} ++ Mod(64, d[1], Num(\h7530))),
                      s2 |-> U16({0} ++ Mod(64, d[1] \gg 16, Num(\h7530))),
                      s3 |-> U16({0} ++ Mod(64, d[1] \gg 32, Num(\h7530)))]
        Get(s) ==
            LET s11 == Mod(64, Mul(24, Num(171), s.s1), Num(\h763D))
                s21 == Mod(64, Mul(24, Num(172), s.s2), Num(\h7663))
                s31 == Mod(64, Mul(24, Num(170), s.s3), Num(\h7673))
            IN  Gives([s1 |-> U16(s11), s2 |-> U16(s21), s3 |-> U16(s31)],
                      U32((DivMod(64, U64(s11 \ll 32), Num(\h763D)).q) ++ (DivMod(64,
                      U64(s21 \ll 32), Num(\h7663)).q) ++ (DivMod(64, U64(s31 \ll 32),
                      Num(\h7673)).q)))
    IN  Mixing("wich1982", 32, All(16, {"s1", "s2", "s3"}), 0, Create, Get)

Lcg32prime ==
    LET Create(d) == [x |-> d[1] \gg 32]
        Get(s) ==
            LET x1 == U32(Mod(64, Mul(63, Hex2(\h5EB0, \hA82F), s.x) ++ Num(123),
                      Hex2(\hFFFF, \hFFFB)))
            IN  Gives([x |-> x1], x1)
    IN  Mixing("lcg32prime", 32, All(32, {"x"}), 0, Create, Get)

Grube73Mrg2 ==
    LET Create(d) ==
            LET s01 == Cut(31, U32(d[1]))
                s11 == Cut(31, d[1] \gg 32)
            IN  [s0 |-> IF (s01 = {} \/ s01 = Hex2(\h7FFF, \hFFFF)) THEN {0} ELSE s01,
                 s1 |-> IF (s11 = {} \/ s11 = Hex2(\h7FFF, \hFFFF)) THEN {0} ELSE s11]
        Get(s) ==
            LET s_new == Mul(61, Hex2(\h1419, \h1D7E), s.s0) ++ Mul(60, Hex2(\hFFB, \hAEEA),
                         s.s1)
                s_new1 == (s_new \gg 31) ++ Cut(31, s_new)
                s_new2 == IF ~Less(s_new1, Hex2(\h7FFF, \hFFFF)) THEN Minus(64, s_new1,
                          Hex2(\h7FFF, \hFFFF)) ELSE s_new1
            IN  Gives([s0 |-> U32(s_new2), s1 |-> s.s0], U64(s_new2 \ll 1))
    IN  Mixing("grube73_mrg2", 32, All(31, {"s0", "s1"}), 0, Create, Get)

Grube73Mrg3 ==
    LET Create(d) ==
            LET s01 == Cut(31, U32(d[1]))
                s11 == Cut(31, d[1] \gg 32)
                s21 == Cut(31, U32(d[2]))
            IN  [s0 |-> IF (s01 = {} \/ s01 = Hex2(\h7FFF, \hFFFF)) THEN {0} ELSE s01,
                 s1 |-> IF (s11 = {} \/ s11 = Hex2(\h7FFF, \hFFFF)) THEN {0} ELSE s11,
                 s2 |-> IF (s21 = {} \/ s21 = Hex2(\h7FFF, \hFFFF)) THEN {0} ELSE s21]
        Get(s) ==
            LET s_new == Mul(61, Hex2(\h1EE2, \hBCF7), s.s0) ++ Mul(61, Hex2(\h1E6B, \hD53),
                         s.s1) ++ Mul(59, Hex2(\h440, \h5321), s.s2)
                s_new1 == U32((s_new \gg 31) ++ Cut(31, s_new))
                s_new2 == IF ~Less(s_new1, Hex2(\h7FFF, \hFFFF)) THEN Minus(64, s_new1,
                          Hex2(\h7FFF, \hFFFF)) ELSE s_new1
            IN  Gives([s0 |-> U32(s_new2), s1 |-> s.s0, s2 |-> s.s1], U64(s_new2 \ll 1))
    IN  Mixing("grube73_mrg3", 32, All(32, {"s0", "s1", "s2"}), 0, Create, Get)

MrgDenglin2 ==
    LET m == Ones(31)
        Good(x) == IF x = {} \/ x = m THEN {0} ELSE x
        Create(d) == [x0 |-> Good(Cut(31, d[1])), x1 |-> Good(Cut(31, d[1] \gg 32))]
        Get(s) ==
            LET a == Mul(47, Num(46338), s.x1)
                prod == IF Less(a, s.x0) THEN Minus(32, a ++ m, s.x0) ELSE Minus(47, a, s.x0)
                sum == (prod \gg 31) ++ Cut(31, prod)
                x == IF Less(sum, m) THEN sum ELSE Minus(32, sum, m)
            IN  Gives([x0 |-> x, x1 |-> s.x0], U32(x \ll 1))
    IN  Mixing("mrg_denglin_2", 32, All(31, {"x0", "x1"}), 0, Create, Get)

Pcg32 ==
    LET Create(d) == [state |-> d[1], inc |-> d[2] \cup {0}]
        Get(s) == Gives([state |-> U64(Mul(64, s.state, Hex4(\h5851, \hF42D, \h4C95,
                                   \h7F2D)) ++ s.inc), inc |-> s.inc],
                        Rotr(32, U32(((s.state \gg 18) \oplus s.state) \gg 27),
                        Value(s.state \gg 59)))
    IN  Mixing("pcg32", 32, All(64, {"state", "inc"}), 0, Create, Get)

Pcg32Dxsm ==
    LET Create(d) == [x |-> d[1]]
        Get(s) ==
            LET x1 == U64(Inc(Mul(64, Hex(<<\h1, \h9BAF, \hFBED>>), s.x)))
                high == x1 \gg 32
                high1 == Mul(32, high \oplus (high \gg 16), Hex2(\h1, \hDCD))
            IN  Gives([x |-> x1], Mul(32, high1 \oplus (high1 \gg 24), U32(x1) \cup {0}))
    IN  Mixing("pcg32_dxsm", 32, All(64, {"x"}), 0, Create, Get)

Pcg32XslRr ==
    LET Create(d) == [x |-> d[1]]
        Get(s) ==
            LET x1 == U64(Inc(Mul(64, s.x, Hex(<<\h1, \h9BAF, \hFBED>>))))
            IN  Gives([x |-> x1], Rotr(32, (x1 \gg 32) \oplus U32(x1), Value(x1 \gg 58)))
    IN  Mixing("pcg32_xsl_rr", 32, All(64, {"x"}), 0, Create, Get)

Pcg6464 ==
    LET Create(d) == [state |-> d[1], inc |-> d[2] \cup {0}]
        Get(s) ==
            LET word == Mul(64, (s.state \gg Value((s.state \gg 59) ++ Num(5)))
                        \oplus s.state, Hex4(\hAEF1, \h7502, \h108E, \hF2D9))
            IN  Gives([state |-> U64(Mul(64, s.state, Hex4(\h5851, \hF42D, \h4C95, \h7F2D))
                                 ++ s.inc), inc |-> s.inc], (word \gg 43) \oplus word)
    IN  Mixing("pcg64_64", 64, All(64, {"state", "inc"}), 0, Create, Get)

Pcg64Dxsm ==
    LET Create(d) == [x_low |-> d[2] \cup {0}, x_high |-> d[1]]
        Get(s) ==
            LET x == Mul(128, Hex4(\hDA94, \h2042, \hE4DD, \h58B5), s.x_low)
                x1 == Inc(U64(x) ++ (U64(Mul(64, Hex4(\hDA94, \h2042, \hE4DD, \h58B5),
                      s.x_high) ++ (x \gg 64)) \ll 64))
                x_low1 == U64(x1)
                high == U128(x1) \gg 64
                high1 == Mul(64, high \oplus (high \gg 32), Hex4(\hDA94, \h2042, \hE4DD,
                         \h58B5))
            IN  Gives([x_low |-> x_low1, x_high |-> high],
                      Mul(64, high1 \oplus (high1 \gg 48), x_low1 \cup {0}))
    IN  Mixing("pcg64_dxsm", 64, All(64, {"x_low", "x_high"}), 0, Create, Get)

Pcg64XslRr ==
    LET Create(d) == [x_low |-> d[2] \cup {0}, x_high |-> d[1]]
        Get(s) ==
            LET t == U128(Inc(Mul(128, Hex(<<\h2360, \hED05, \h1FC6, \h5DA4, \h4385, \hDF64,
                     \h9FCC, \hF645>>), (s.x_high \ll 64) \cup s.x_low)))
                x_lo == U64(t)
                x_hi == t \gg 64
            IN  Gives([x_low |-> x_lo, x_high |-> x_hi],
                      Rotr(64, x_hi \oplus x_lo, Value(x_hi \gg 58)))
    IN  Mixing("pcg64_xsl_rr", 64, All(64, {"x_low", "x_high"}), 0, Create, Get)

Pcg128 ==
    LET Create(d) == [x_low |-> d[2] \cup {0}, x_high |-> d[1]]
        Get(s) ==
            LET t == U128(Mul(128, Hex(<<\h2360, \hED05, \h1FC6, \h5DA4, \h4385, \hDF64,
                     \h9FCC, \hF645>>), (s.x_high \ll 64) \cup s.x_low) ++ Hex4(\h1405,
                     \h7B7E, \hF767, \h814F))
                x_low1 == U64(t)
                x_high1 == U64((t \gg 64) ++ Hex4(\h5851, \hF42D, \h4C95, \h7F2D))
                sh == (x_high1 \gg 60) ++ Num(45)
            IN  Gives([x_low |-> x_low1, x_high |-> x_high1],
                      U64(((x_high1 \oplus (x_high1 \gg 43)) \ll Value(Minus(32, {6}, sh)))
                      \cup (U64(x_low1 \oplus (x_high1 \ll 21)) \gg Value(sh))))
    IN  Mixing("pcg128", 64, All(64, {"x_low", "x_high"}), 0, Create, Get)

Lxm64x128 ==
    LET Create(d) == [lcg |-> d[1], x0 |-> d[2],
                      x1 |-> IF d[2] = {} /\ d[3] = {} THEN Hex4(\hDEAD, \hBEEF, \hDEAD,
                             \hBEEF) ELSE d[3]]
        Get(s) ==
            LET x11 == s.x1 \oplus s.x0
                z == U64(s.lcg ++ s.x0)
                z1 == Mul(64, z \oplus (z \gg 32), Hex4(\hDABA, \hB6E, \hB093, \h22E3))
                z2 == Mul(64, z1 \oplus (z1 \gg 32), Hex4(\hDABA, \hB6E, \hB093, \h22E3))
            IN  Gives([lcg |-> U64(Mul(64, Hex4(\hD134, \h2543, \hDE82, \hEF95), s.lcg)
                               ++ Num(\h3039)),
                       x0 |-> U64(Rotl(64, s.x0, 64) \oplus x11 \oplus (x11 \ll 16)),
                       x1 |-> Rotl(64, x11, 37)], z2 \oplus (z2 \gg 32))
    IN  Mixing("lxm_64x128", 64, All(64, {"lcg", "x0", "x1"}), 0, Create, Get)

Pelican ==
    LET Create(d) == [x |-> d[1]]
        Get(s) ==
            LET n == Mul(64, s.x \oplus Rotl(64, s.x, 17) \oplus Rotl(64, s.x, 41)
                     \oplus Hex4(\hD1B5, \h4A32, \hD192, \hED03), Hex4(\hAEF1, \h7502,
                     \h108E, \hF2D9))
                n1 == Mul(64, n \oplus (n \gg 23) \oplus (n \gg 31) \oplus (n \gg 43),
                      Hex4(\hDB4F, \hB91, \h75AE, \h2165))
            IN  Gives([x |-> U64(Inc(s.x))], n1 \oplus (n1 \gg 28))
    IN  Counted("pelican", 64, All(64, {"x"}), "x", 0, Create, Get)

Pqrng32 ==
    LET Create(d) == [x |-> d[1] \gg 32]
        Get(s) ==
            LET x1 == Mul(32, s.x \oplus Hex2(\h517C, \hC1B5), Hex2(\h9E37, \h79BB))
            IN  Gives([x |-> x1], x1)
    IN  Mixing("pqrng32", 32, All(32, {"x"}), 0, Create, Get)

Hicg64 ==
    LET Create(d) == [x_m1 |-> d[1] \cup {0}, x_m2 |-> d[2] \cup {0}]
        Get(s) ==
            LET y == Mul(64, Num(3), s.x_m1) \oplus {1}
                y1 == Mul(64, y, Minus(64, {1}, Mul(64, y, s.x_m1)))
                y2 == Mul(64, y1, Minus(64, {1}, Mul(64, y1, s.x_m1)))
                y3 == Mul(64, y2, Minus(64, {1}, Mul(64, y2, s.x_m1)))
                x_m11 == U64(Mul(64, Hex2(\h1C, \hCABA), Mul(64, y3, Minus(64, {1}, Mul(64,
                         y3, s.x_m1)))) ++ Mul(64, Hex2(\hA, \hC89B), s.x_m2) ++ Hex2(\hC,
                         \h5366))
            IN  Gives([x_m1 |-> x_m11, x_m2 |-> s.x_m1], x_m11)
    IN  Mixing("hicg64", 64, All(64, {"x_m1", "x_m2"}), 0, Create, Get)

Icg64P2 ==
    LET Create(d) == [x |-> d[1] \cup {0}]
        Get(s) ==
            LET y == Mul(64, Num(3), s.x) \oplus {1}
                y1 == Mul(64, y, Minus(64, {1}, Mul(64, y, s.x)))
                y2 == Mul(64, y1, Minus(64, {1}, Mul(64, y1, s.x)))
                y3 == Mul(64, y2, Minus(64, {1}, Mul(64, y2, s.x)))
                x1 == U64(Mul(64, Hex(<<\h1, \h9BAF, \hFBED>>), Mul(64, y3, Minus(64, {1},
                      Mul(64, y3, s.x)))) ++ Hex2(\h4995, \h2D62))
            IN  Gives([x |-> x1], x1 \gg 32)
    IN  Mixing("icg64_p2", 32, All(64, {"x"}), 0, Create, Get)

Icg128P2 ==
    LET Create(d) == [x_lo |-> d[1] \cup {0}, x_hi |-> d[2]]
        Get(s) ==
            LET y == Mul(64, Num(3), s.x_lo) \oplus {1}
                y1 == Mul(64, y, Minus(64, {1}, Mul(64, y, s.x_lo)))
                y2 == Mul(64, y1, Minus(64, {1}, Mul(64, y1, s.x_lo)))
                y3 == Mul(64, y2, Minus(64, {1}, Mul(64, y2, s.x_lo)))
                x_lo1 == Mul(64, y3, Minus(64, {1}, Mul(64, y3, s.x_lo)))
                x == Mul(128, Hex4(\hF9CF, \h4CD1, \h2CD1, \h8FED), x_lo1)
                x1 == U64(x) ++ (U64(Mul(64, Hex4(\hF9CF, \h4CD1, \h2CD1, \h8FED), Mul(64,
                      x_lo1, Minus(64, {}, U64(Mul(64, s.x_hi, x_lo1) ++ (Mul(128, s.x_lo,
                      x_lo1) \gg 64))))) ++ (x \gg 64)) \ll 64) ++ Hex2(\h4995, \h2D62)
                x_hi1 == U128(x1) \gg 64
            IN  Gives([x_lo |-> U64(x1), x_hi |-> x_hi1], x_hi1)
    IN  Mixing("icg128_p2", 64, All(64, {"x_lo", "x_hi"}), 0, Create, Get)

Weyl ==
    LET Create(d) == [x |-> d[1]]
        Get(s) ==
            LET x1 == U64(s.x ++ Hex4(\h9E37, \h79B9, \h7F4A, \h7C15))
            IN  Gives([x |-> x1], x1 \gg 32)
    IN  Mixing("weyl", 32, All(64, {"x"}), 0, Create, Get)

LoopAntigapW64 ==
    LET Create(d) == [ctr |-> {}]
        Get(s) ==
            LET ctr1 == U64(Inc(s.ctr))
            IN  Gives([ctr |-> ctr1],
                      If(Less(Num(1000), ctr1), Hex4(\h7FFF, \hFFFF, \hFFFF, \hFFFF)))
    IN  Mixing("loop_antigap_w64", 64, All(64, {"ctr"}), 0, Create, Get)

ThurstV1 ==
    LET Create(d) == [x |-> d[1] \cup {0}]
        Get(s) ==
            LET x1 == U64(s.x ++ Hex4(\h6A5D, \h39EA, \hE126, \h57AA))
                z == Mul(64, s.x \oplus (s.x \gg 25), x1)
            IN  Gives([x |-> x1], z \oplus (z \gg 22))
    IN  Mixing("thurst_v1", 64, All(64, {"x"}), 0, Create, Get)

ThurstV2 ==
    LET Create(d) == [x |-> d[1] \cup {0}]
        Get(s) ==
            LET x1 == U64(s.x ++ Hex4(\h6A5D, \h39EA, \hE126, \h57AA))
                z == Mul(64, s.x \oplus (s.x \gg 25), x1)
            IN  Gives([x |-> x1], z \oplus Rotl(64, z, 13) \oplus Rotl(64, z, 47))
    IN  Mixing("thurst_v2", 64, All(64, {"x"}), 0, Create, Get)

Nasam ==
    LET Create(d) == [x |-> d[1]]
        Get(s) ==
            LET x1 == Mul(64, s.x \oplus Rotr(64, s.x, 25) \oplus Rotr(64, s.x, 47),
                      Hex4(\h9E6C, \h63D0, \h676A, \h9A99))
                x2 == Mul(64, x1 \oplus (x1 \gg 23) \oplus (x1 \gg 51), Hex4(\h9E6D, \h62D0,
                      \h6F6A, \h9A9B))
            IN  Gives([x |-> U64(Inc(s.x))], x2 \oplus (x2 \gg 23) \oplus (x2 \gg 51))
    IN  Counted("nasam", 64, All(64, {"x"}), "x", 0, Create, Get)

Rrmxmx ==
    LET Create(d) == [x |-> d[1]]
        Get(s) ==
            LET v == U64(s.x ++ Hex4(\h9E37, \h79B9, \h7F4A, \h7C15))
                v1 == Mul(64, v \oplus Rotr(64, v, 49) \oplus Rotr(64, v, 24), Hex4(\h9FB2,
                      \h1C65, \h1E98, \hDF25))
                v2 == Mul(64, v1 \oplus (v1 \gg 28), Hex4(\h9FB2, \h1C65, \h1E98, \hDF25))
            IN  Gives([x |-> v], v2 \oplus (v2 \gg 28))
    IN  Mixing("rrmxmx", 64, All(64, {"x"}), 0, Create, Get)

Splitmix ==
    LET Create(d) == [x |-> d[1]]
        Get(s) ==
            LET z == U64(s.x ++ Hex4(\h9E37, \h79B9, \h7F4A, \h7C15))
                z1 == Mul(64, z \oplus (z \gg 30), Hex4(\hBF58, \h476D, \h1CE4, \hE5B9))
                z2 == Mul(64, z1 \oplus (z1 \gg 27), Hex4(\h94D0, \h49BB, \h1331, \h11EB))
            IN  Gives([x |-> z], z2 \oplus (z2 \gg 31))
    IN  Mixing("splitmix", 64, All(64, {"x"}), 0, Create, Get)

SplitmixG1 ==
    LET Create(d) == [x |-> d[1]]
        Get(s) ==
            LET z == U64(Inc(s.x))
                z1 == Mul(64, z \oplus (z \gg 30), Hex4(\hBF58, \h476D, \h1CE4, \hE5B9))
                z2 == Mul(64, z1 \oplus (z1 \gg 27), Hex4(\h94D0, \h49BB, \h1331, \h11EB))
            IN  Gives([x |-> z], z2 \oplus (z2 \gg 31))
    IN  Mixing("splitmix_g1", 64, All(64, {"x"}), 0, Create, Get)

Splitmix32 ==
    LET Create(d) == [w |-> d[1] \gg 32]
        Get(s) ==
            LET s1 == U32(s.w ++ Hex2(\h9E37, \h79B9))
                s2 == Mul(32, s1 \oplus (s1 \gg 16), Hex2(\h85EB, \hCA6B))
                s3 == Mul(32, s2 \oplus (s2 \gg 13), Hex2(\hC2B2, \hAE35))
            IN  Gives([w |-> s1], s3 \oplus (s3 \gg 16))
    IN  Mixing("splitmix32", 32, All(32, {"w"}), 0, Create, Get)

Splitmix32cbc ==
    LET Create(d) == [s_prev |-> d[2] \gg 32, w |-> d[1] \gg 32]
        Get(s) ==
            LET w1 == U32(s.w ++ Hex2(\h9E37, \h79B9))
                s1 == w1 \oplus s.s_prev
                s2 == Mul(32, s1 \oplus (s1 \gg 16), Hex2(\h85EB, \hCA6B))
                s3 == Mul(32, s2 \oplus (s2 \gg 13), Hex2(\hC2B2, \hAE35))
                s_prev1 == s3 \oplus (s3 \gg 16)
            IN  Gives([s_prev |-> s_prev1, w |-> w1], s_prev1)
    IN  Mixing("splitmix32cbc", 32, All(32, {"s_prev", "w"}), 0, Create, Get)

Mulberry32 ==
    LET Create(d) == [w |-> d[1] \gg 32]
        Get(s) ==
            LET z == U32(s.w ++ Hex2(\h6D2B, \h79F5))
                z1 == Mul(32, z \oplus (z \gg 15), z \cup {0})
                z2 == U32(z1 \oplus (z1 ++ Mul(32, z1 \oplus (z1 \gg 7), z1 \cup Num(61))))
            IN  Gives([w |-> z], z2 \oplus (z2 \gg 14))
    IN  Mixing("mulberry32", 32, All(32, {"w"}), 0, Create, Get)

Ranhash ==
    LET Create(d) == [ctr |-> d[1]]
        Get(s) ==
            LET v == U64(Mul(64, s.ctr, Hex4(\h369D, \hEA0F, \h31A5, \h3F85)) ++ Hex4(\h2559,
                     \h92D3, \h8220, \h8B61))
                v1 == v \oplus (v \gg 21)
                v2 == U64(v1 \oplus (v1 \ll 37))
                v3 == Mul(64, v2 \oplus (v2 \gg 4), Hex4(\h422E, \h19E1, \hD95D, \h2F0D))
                v4 == U64(v3 \oplus (v3 \ll 20))
                v5 == v4 \oplus (v4 \gg 41)
            IN  Gives([ctr |-> U64(Inc(s.ctr))], U64(v5 \oplus (v5 \ll 5)))
    IN  Counted("ranhash", 64, All(64, {"ctr"}), "ctr", 0, Create, Get)

Wanghash64 ==
    LET Create(d) == [x |-> d[1]]
        Get(s) ==
            LET z == U64(Not(64, s.x) ++ (s.x \ll 21))
                z1 == z \oplus (z \gg 24)
                z2 == U64(z1 ++ (z1 \ll 3) ++ (z1 \ll 8))
                z3 == z2 \oplus (z2 \gg 14)
                z4 == U64(z3 ++ (z3 \ll 2) ++ (z3 \ll 4))
                z5 == z4 \oplus (z4 \gg 28)
            IN  Gives([x |-> U64(s.x ++ Hex4(\h9E37, \h79B9, \h7F4A, \h7C15))],
                      U64(z5 ++ (z5 \ll 31)))
    IN  Counted("wanghash64", 64, All(64, {"x"}), "x", 0, Create, Get)

Mularx128Str ==
    LET Create(d) == [x0 |-> {}, x1 |-> d[1], ctr |-> {}]
        Get(s) ==
            LET x == Mul(128, Hex4(\hB3F6, \h7E79, \h490F, \hFABB), s.x0)
                x01 == s.x1 \oplus (x \gg 64)
                ctr1 == U64(s.ctr ++ Hex4(\h9E37, \h79B9, \h7F4A, \h7C15))
                x11 == U64(U64(x) ++ Rotl(64, x01, 25) ++ ctr1)
            IN  Gives([x0 |-> x01, x1 |-> x11, ctr |-> ctr1], U64(x11 ++ x01))
    IN  Mixing("mularx128_str", 64, All(64, {"x0", "x1", "ctr"}), 0, Create, Get)

Sirius64 ==
    LET Create(d) == [x |-> d[1]]
        Get(s) ==
            LET z == U64(s.x ++ Hex4(\h9E37, \h79B9, \h7F4A, \h7C15))
                z1 == Rotl(64, Mul(64, Hex4(\h9E37, \h79B9, \h7F4A, \h7C15), z
                      \oplus (z \gg 17)), 32)
            IN  Gives([x |-> z],
                      Mul(64, Hex4(\h9E37, \h79B9, \h7F4A, \h7C15), z \oplus z1
                      \oplus (z1 \gg 17)))
    IN  Mixing("sirius64", 64, All(64, {"x"}), 0, Create, Get)

Sirius64Bad ==
    LET Create(d) == [x |-> d[1]]
        Get(s) ==
            LET z == U64(s.x ++ Hex4(\h9E37, \h79B9, \h7F4A, \h7C15))
            IN  Gives([x |-> z],
                      Mul(64, Hex4(\h9E37, \h79B9, \h7F4A, \h7C15), z \oplus Rotl(64, Mul(64,
                      Hex4(\h9E37, \h79B9, \h7F4A, \h7C15), z \oplus (z \gg 17)), 32)))
    IN  Mixing("sirius64_bad", 64, All(64, {"x"}), 0, Create, Get)

W1rand ==
    LET Create(d) == [x |-> d[1]]
        Get(s) ==
            LET x1 == U64(s.x ++ Hex4(\hD07E, \hBC63, \h2746, \h54C7))
                x2 == Mul(128, x1, x1 \oplus Hex4(\hD07E, \hBC63, \h2746, \h54C7))
            IN  Gives([x |-> x1], U64(x2) \oplus (x2 \gg 64))
    IN  Mixing("w1rand", 64, All(64, {"x"}), 0, Create, Get)

WyrandV43 ==
    LET Create(d) == [x |-> d[1]]
        Get(s) ==
            LET x1 == U64(s.x ++ Hex4(\h2D35, \h8DCC, \hAA6C, \h78A5))
                x2 == Mul(128, x1, x1 \oplus Hex4(\h8BB8, \h4B93, \h962E, \hACC9))
            IN  Gives([x |-> x1], U64(x2) \oplus (x2 \gg 64))
    IN  Mixing("wyrand_v43", 64, All(64, {"x"}), 0, Create, Get)

WyrandAPar ==
    LET Create(d) == [x |-> d[1]]
        Get(s) ==
            LET x1 == U64(s.x ++ Hex4(\h2D35, \h8DCC, \hAA6C, \h78A5))
                x2 == Mul(128, x1, s.x \oplus Hex4(\h8BB8, \h4B93, \h962E, \hACC9))
            IN  Gives([x |-> x1], U64(x2) \oplus (x2 \gg 64))
    IN  Mixing("wyrand_a_par", 64, All(64, {"x"}), 0, Create, Get)

WyrandV42 ==
    LET Create(d) == [x |-> d[1]]
        Get(s) ==
            LET x1 == U64(s.x ++ Hex4(\hC3F0, \hC6B4, \h964E, \h6C17))
                x2 == Mul(128, x1, x1 \oplus Hex4(\hE80F, \h8B3A, \h95B4, \h4D35))
            IN  Gives([x |-> x1], U64(x2) \oplus (x2 \gg 64))
    IN  Mixing("wyrand_v42", 64, All(64, {"x"}), 0, Create, Get)

WyrandV41 ==
    LET Create(d) == [x |-> d[1]]
        Get(s) ==
            LET x1 == U64(s.x ++ Hex4(\hA076, \h1D64, \h78BD, \h642F))
                x2 == Mul(128, x1, x1 \oplus Hex4(\hE703, \h7ED1, \hA0B4, \h28DB))
            IN  Gives([x |-> x1], U64(x2) \oplus (x2 \gg 64))
    IN  Mixing("wyrand_v41", 64, All(64, {"x"}), 0, Create, Get)

Wyrand128 ==
    LET Create(d) == [lo |-> d[1], hi |-> d[2]]
        Get(s) ==
            LET x == s.lo ++ (s.hi \ll 64) ++ Hex4(\h8BB8, \h4B93, \h962E, \hACC9)
                x1 == Mul(128, s.hi, s.hi \oplus s.lo)
            IN  Gives([lo |-> U64(x),
                       hi |-> U64((U128(x) \gg 64) ++ Hex4(\h2D35, \h8DCC, \hAA6C,
                              \h78A5))], U64(x1) \oplus (x1 \gg 64))
    IN  Mixing("wyrand128", 64, All(64, {"lo", "hi"}), 0, Create, Get)

Rapidrand128 ==
    LET Create(d) == [lo |-> d[1], hi |-> d[2]]
        Get(s) ==
            LET x == s.lo ++ (s.hi \ll 64) ++ Hex4(\h8BB8, \h4B93, \h962E, \hACC9)
                x1 == Mul(128, s.hi, s.lo)
                x2 == Mul(128, U64(x1) \oplus Hex4(\h8BB8, \h4B93, \h962E, \hACC9),
                      (x1 \gg 64) \oplus s.lo)
            IN  Gives([lo |-> U64(x),
                       hi |-> U64((U128(x) \gg 64) ++ Hex4(\h2D35, \h8DCC, \hAA6C,
                              \h78A5))], U64((x2 \gg 64) \oplus (U64(x2) ++ s.hi)))
    IN  Mixing("rapidrand128", 64, All(64, {"lo", "hi"}), 0, Create, Get)

Tf032 ==
    LET Create(d) == [x |-> d[1] \gg 32]
        Get(s) ==
            LET x1 == U32(s.x ++ (Mul(32, s.x, s.x) \cup Num(5)))
            IN  Gives([x |-> x1], x1)
    IN  Mixing("tf0_32", 32, All(32, {"x"}), 0, Create, Get)

Tf032sc2 ==
    LET Create(d) == [x |-> d[1] \gg 32]
        Get(s) ==
            LET out == Mul(32, s.x \oplus (s.x \gg 16), Hex2(\h1, \hDCD))
            IN  Gives([x |-> U32(s.x ++ (Mul(32, s.x, s.x) \cup Num(\h4005)))],
                      out \oplus Rotl(32, out, 7) \oplus Rotl(32, out, 23))
    IN  Mixing("tf0_32sc2", 32, All(32, {"x"}), 0, Create, Get)

Tf032sc3 ==
    LET Create(d) == [x |-> d[1] \gg 32]
        Get(s) ==
            LET out == Rotl(32, Mul(32, Hex2(\h1, \hDCD), s.x \oplus Rotl(32, s.x, 7)
                       \oplus Rotl(32, s.x, 23)), 5)
            IN  Gives([x |-> U32(s.x ++ (Mul(32, s.x, s.x) \cup Num(\h4005)))],
                      U32(out ++ (Mul(32, out, out) \cup Num(5))))
    IN  Mixing("tf0_32sc3", 32, All(32, {"x"}), 0, Create, Get)

Tf064 ==
    LET Create(d) == [x |-> d[1]]
        Get(s) ==
            LET x1 == U64(s.x ++ (Mul(64, s.x, s.x) \cup Hex2(\h4000, \h5)))
            IN  Gives([x |-> x1], x1 \gg 32)
    IN  Mixing("tf0_64", 32, All(64, {"x"}), 0, Create, Get)

Tf064sc ==
    LET Create(d) == [x |-> d[1]]
        Get(s) ==
            LET out == s.x \gg 32
            IN  Gives([x |-> U64(s.x ++ (Mul(64, s.x, s.x) \cup Hex2(\h4000, \h5)))],
                      out \oplus Rotl(32, out, 7) \oplus Rotl(32, out, 23))
    IN  Mixing("tf0_64sc", 32, All(64, {"x"}), 0, Create, Get)

Tf064sc2 ==
    LET Create(d) == [x |-> d[1]]
        Get(s) ==
            LET out == Mul(64, s.x \oplus (s.x \gg 32), Hex(<<\h1, \h9BAF, \hFBED>>))
            IN  Gives([x |-> U64(s.x ++ (Mul(64, s.x, s.x) \cup Hex2(\h4000, \h5)))],
                      out \oplus Rotl(64, out, 17) \oplus Rotl(64, out, 53))
    IN  Mixing("tf0_64sc2", 64, All(64, {"x"}), 0, Create, Get)

Tf0Ctr64 ==
    LET Create(d) == [x |-> d[1]]
        Get(s) ==
            LET x1 == U64(s.x ++ (Mul(64, s.x, s.x) \cup Hex2(\hF, \h41E7)))
                x2 == x1 \oplus (x1 \gg 29)
                x3 == U64(x2 ++ (Mul(64, x2, x2) \cup Hex2(\h1, \hD14F)))
            IN  Gives([x |-> U64(s.x ++ Hex4(\h4D19, \h4C57, \hDAD6, \h38E3))],
                      x3 \oplus (x3 \gg 27))
    IN  Counted("tf0_ctr64", 64, All(64, {"x"}), "x", 0, Create, Get)

LcgNext ==
    \/ Randu \/ Lcg42 \/ Drand48 \/ Lcg69069 \/ Lcg32sc \/ Lcg64Marsaglia
    \/ Lcg64Taocp \/ Lcg64Steele \/ Lcg64sc \/ Lcg64sc2 \/ Coveyou64 \/ Lcg61prime
    \/ Lcg127primeMul1 \/ Lcg127primeMul2 \/ Lcg127primeMul3 \/ Wich1982
    \/ Lcg32prime \/ Grube73Mrg2 \/ Grube73Mrg3 \/ MrgDenglin2 \/ Pcg32
    \/ Pcg32Dxsm \/ Pcg32XslRr \/ Pcg6464 \/ Pcg64Dxsm \/ Pcg64XslRr \/ Pcg128
    \/ Lxm64x128 \/ Pelican \/ Pqrng32 \/ Hicg64 \/ Icg64P2 \/ Icg128P2 \/ Weyl
    \/ LoopAntigapW64 \/ ThurstV1 \/ ThurstV2 \/ Nasam \/ Rrmxmx \/ Splitmix
    \/ SplitmixG1 \/ Splitmix32 \/ Splitmix32cbc \/ Mulberry32 \/ Ranhash
    \/ Wanghash64 \/ Mularx128Str \/ Sirius64 \/ Sirius64Bad \/ W1rand \/ WyrandV43
    \/ WyrandAPar \/ WyrandV42 \/ WyrandV41 \/ Wyrand128 \/ Rapidrand128 \/ Tf032
    \/ Tf032sc2 \/ Tf032sc3 \/ Tf064 \/ Tf064sc \/ Tf064sc2 \/ Tf0Ctr64

=============================================================================
