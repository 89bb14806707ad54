--------------------------- MODULE XorshiftPlugins ---------------------------
(***************************************************************************)
(* Plugins whose step is linear over GF(2): xorshift, xoroshiro, xoshiro   *)
(* and xorrot, with the scramblers of their outputs.                       *)
(***************************************************************************)
EXTENDS PluginIntf

\* Shr3 with a shift in place of the first xorshift, with another shift, and
\* without the 1 that keeps the state from being 0.
Shr3Lossy ==
    LET Create(d) == [x |-> (d[1] \gg 32) \cup {0}]
        Get(s) ==
            LET x1 == U32(s.x \ll 13)
                x2 == x1 \oplus (x1 \gg 17)
                x3 == U32(x2 \oplus (x2 \ll 5))
            IN  Gives([x |-> x3], x3)
    IN  Maximal("shr3", 32, All(32, {"x"}), 0, Create, Get)
Shr3Short ==
    LET Create(d) == [x |-> (d[1] \gg 32) \cup {0}]
        Get(s) ==
            LET x1 == U32(s.x \oplus (s.x \ll 12))
                x2 == x1 \oplus (x1 \gg 17)
                x3 == U32(x2 \oplus (x2 \ll 5))
            IN  Gives([x |-> x3], x3)
    IN  Maximal("shr3", 32, All(32, {"x"}), 0, Create, Get)
Shr3Zero ==
    LET Create(d) == [x |-> d[1] \gg 32]
        Get(s) ==
            LET x1 == U32(s.x \oplus (s.x \ll 13))
                x2 == x1 \oplus (x1 \gg 17)
                x3 == U32(x2 \oplus (x2 \ll 5))
            IN  Gives([x |-> x3], x3)
    IN  Maximal("shr3", 32, All(32, {"x"}), 0, Create, Get)

Shr3 ==
    LET Create(d) == [x |-> (d[1] \gg 32) \cup {0}]
        Get(s) ==
            LET x1 == U32(s.x \oplus (s.x \ll 13))
                x2 == x1 \oplus (x1 \gg 17)
                x3 == U32(x2 \oplus (x2 \ll 5))
            IN  Gives([x |-> x3], x3)
    IN  Maximal("shr3", 32, All(32, {"x"}), 0, Create, Get)

Xsh ==
    LET Create(d) == [x |-> IF d[1] = {} THEN Hex2(\h1234, \h5678) ELSE d[1]]
        Get(s) ==
            LET x1 == U64(s.x \oplus (s.x \ll 13))
                x2 == x1 \oplus (x1 \gg 17)
                x3 == U64(x2 \oplus (x2 \ll 43))
            IN  Gives([x |-> x3], x3)
    IN  Maximal("xsh", 64, All(64, {"x"}), 0, Create, Get)

Ranq1 ==
    LET Create(d) == [v |-> IF d[1] # Hex4(\h38EC, \hAC5F, \hB325, \h1641) THEN Hex4(\h38EC,
                            \hAC5F, \hB325, \h1641) \oplus d[1] ELSE Hex4(\h38EC, \hAC5F,
                            \hB325, \h1641)]
        Get(s) ==
            LET v1 == s.v \oplus (s.v \gg 21)
                v2 == U64(v1 \oplus (v1 \ll 35))
                v3 == v2 \oplus (v2 \gg 4)
            IN  Gives([v |-> v3], Mul(64, v3, Hex4(\h2545, \hF491, \h4F6C, \hDD1D)))
    IN  Maximal("ranq1", 64, All(64, {"v"}), 1, Create, Get)

Xorshift64 ==
    LET Create(d) ==
            LET i == FirstDraw(1, 1, LAMBDA j : d[j] # {})
            IN  [x |-> d[i]]
        Get(s) ==
            LET x1 == s.x \oplus (s.x \gg 12)
                x2 == U64(x1 \oplus (x1 \ll 25))
                x3 == x2 \oplus (x2 \gg 27)
            IN  Gives([x |-> x3], x3)
    IN  Maximal("xorshift64", 64, All(64, {"x"}), 1, Create, Get)

Xorshift64st ==
    LET Create(d) ==
            LET i == FirstDraw(1, 1, LAMBDA j : d[j] # {})
            IN  [v |-> d[i]]
        Get(s) ==
            LET v1 == s.v \oplus (s.v \gg 12)
                v2 == U64(v1 \oplus (v1 \ll 25))
                v3 == v2 \oplus (v2 \gg 27)
            IN  Gives([v |-> v3], Mul(64, v3, Hex4(\h2545, \hF491, \h4F6C, \hDD1D)))
    IN  Maximal("xorshift64st", 64, All(64, {"v"}), 1, Create, Get)

Xorshift96 ==
    LET Create(d) ==
            LET z1 == d[3] \gg 32
            IN  [x |-> d[1] \gg 32, y |-> d[2] \gg 32,
                 z |-> IF z1 = {} THEN Hex2(\hDEAD, \hBEEF) ELSE z1]
        Get(s) ==
            LET t == U32(s.x \oplus (s.x \ll 13))
                z1 == s.z \oplus (s.z \gg 3) \oplus t \oplus (t \gg 19)
            IN  Gives([x |-> s.y, y |-> s.z, z |-> z1], z1)
    IN  Maximal("xorshift96", 32, All(32, {"x", "y", "z"}), 0, Create, Get)

Xorshift128 ==
    LET Create(d) == [x |-> d[1] \gg 32, y |-> d[2] \gg 32, z |-> d[3] \gg 32,
                      w |-> (d[4] \gg 32) \cup {0}]
        Get(s) ==
            LET t == U32(s.x \oplus (s.x \ll 11))
                w1 == s.w \oplus (s.w \gg 19) \oplus t \oplus (t \gg 8)
            IN  Gives([x |-> s.y, y |-> s.z, z |-> s.w, w |-> w1], w1)
    IN  Maximal("xorshift128", 32, All(32, {"x", "y", "z", "w"}), 0, Create, Get)

Xorshift128p ==
    LET Create(d) == [s0 |-> d[1],
                      s1 |-> IF d[1] = {} /\ d[2] = {} THEN Hex4(\h9E37, \h79B9, \h7F4A,
                             \h7C15) ELSE d[2]]
        Get(s) ==
            LET s11 == U64(s.s0 \oplus (s.s0 \ll 23))
            IN  Gives([s0 |-> s.s1,
                       s1 |-> s11 \oplus s.s1 \oplus (s11 \gg 18) \oplus (s.s1 \gg 5)],
                      U64(s.s1 ++ s.s0))
    IN  Maximal("xorshift128p", 64, All(64, {"s0", "s1"}), 0, Create, Get)

Xorshift160 ==
    LET Create(d) ==
            LET v1 == d[5] \gg 32
            IN  [x |-> d[1] \gg 32, y |-> d[2] \gg 32, z |-> d[3] \gg 32,
                 w |-> d[4] \gg 32, v |-> IF v1 = {} THEN Hex2(\hDEAD, \hBEEF) ELSE v1]
        Get(s) ==
            LET t == U32(s.x \oplus (s.x \ll 19))
            IN  Gives([x |-> s.y, y |-> s.z, z |-> s.w, w |-> s.v,
                       v |-> s.v \oplus (s.v \gg 11) \oplus t \oplus (t \gg 3)], s.w)
    IN  Linear("xorshift160", 32, All(32, {"x", "y", "z", "w", "v"}), 0, Create, Get)

Xorshift192 ==
    LET Create(d) == [x |-> d[1], y |-> d[2],
                      z |-> IF d[3] = {} THEN Hex2(\hDEAD, \hBEEF) ELSE d[3]]
        Get(s) ==
            LET t == U64(s.x \oplus (s.x \ll 39))
                z1 == s.z \oplus (s.z \gg 3) \oplus t \oplus (t \gg 23)
            IN  Gives([x |-> s.y, y |-> s.z, z |-> z1], z1)
    IN  Linear("xorshift192", 64, All(64, {"x", "y", "z"}), 0, Create, Get)

Xorshift320 ==
    LET Create(d) == [x |-> d[1], y |-> d[2], z |-> d[3], w |-> d[4],
                      v |-> IF d[5] = {} THEN Hex2(\hDEAD, \hBEEF) ELSE d[5]]
        Get(s) ==
            LET t == U64(s.x \oplus (s.x \ll 31))
            IN  Gives([x |-> s.y, y |-> s.z, z |-> s.w, w |-> s.v,
                       v |-> s.v \oplus (s.v \gg 28) \oplus t \oplus (t \gg 1)], s.w)
    IN  Linear("xorshift320", 64, All(64, {"x", "y", "z", "w", "v"}), 0, Create, Get)

Xorshift7 ==
    LET Create(d) ==
            LET x01 == U32(d[1])
            IN  [x0 |-> IF x01 = {} THEN Hex2(\h1234, \h5678) ELSE x01,
                 x1 |-> d[1] \gg 32, x2 |-> U32(d[2]), x3 |-> d[2] \gg 32,
                 x4 |-> U32(d[3]), x5 |-> d[3] \gg 32, x6 |-> U32(d[4]),
                 x7 |-> d[4] \gg 32]
        Get(s) ==
            LET t == U32(s.x7 \oplus (s.x7 \ll 13))
                t1 == s.x0 \oplus (s.x0 \gg 7)
                x71 == U32(U32(U32(t \oplus (t \ll 9)) \oplus s.x4 \oplus (s.x4 \ll 7))
                       \oplus s.x3 \oplus (s.x3 \gg 3) \oplus s.x1 \oplus (s.x1 \gg 10)
                       \oplus t1 \oplus (t1 \ll 24))
            IN  Gives([x0 |-> s.x1, x1 |-> s.x2, x2 |-> s.x3, x3 |-> s.x4, x4 |-> s.x5,
                       x5 |-> s.x6, x6 |-> s.x7, x7 |-> x71], x71)
    IN  Linear("xorshift7", 32,
               All(32, {"x0", "x1", "x2", "x3", "x4", "x5", "x6", "x7"}), 0, Create, Get)

Xsadd ==
    LET Create(d) ==
            LET x01 == U32(d[1])
                x11 == d[1] \gg 32
                x21 == U32(d[2])
                x31 == d[2] \gg 32
            IN  [x0 |-> IF x01 = {} /\ x11 = {} /\ x21 = {} /\ x31 = {} THEN Hex2(\h1234,
                        \h5678) ELSE x01,
                 x1 |-> IF x01 = {} /\ x11 = {} /\ x21 = {} /\ x31 = {} THEN Hex2(\h8765,
                        \h4321) ELSE x11,
                 x2 |-> IF x01 = {} /\ x11 = {} /\ x21 = {} /\ x31 = {} THEN Hex2(\hABCD,
                        \hEF00) ELSE x21,
                 x3 |-> IF x01 = {} /\ x11 = {} /\ x21 = {} /\ x31 = {} THEN Hex2(\hFEBC,
                        \hBA00) ELSE x31]
        Get(s) ==
            LET t == U32(s.x0 \oplus (s.x0 \ll 15))
                x31 == U32(t \oplus (t \gg 18) \oplus (s.x3 \ll 11))
            IN  Gives([x0 |-> s.x1, x1 |-> s.x2, x2 |-> s.x3, x3 |-> x31], U32(s.x3 ++ x31))
    IN  Maximal("xsadd", 32, All(32, {"x0", "x1", "x2", "x3"}), 8, Create, Get)

Seiran128 ==
    LET Create(d) == [s0 |-> IF d[1] = {} /\ d[2] = {} THEN Hex2(\h1234, \h5678) ELSE d[1],
                      s1 |-> IF d[1] = {} /\ d[2] = {} THEN Hex2(\h8765, \h4321) ELSE d[2]]
        Get(s) == Gives([s0 |-> s.s0 \oplus Rotl(64, s.s1, 29),
                         s1 |-> U64(s.s0 \oplus (s.s1 \ll 9))],
                        U64(Rotl(64, Mul(64, U64(s.s0 ++ s.s1), Num(9)), 29) ++ s.s0))
    IN  Maximal("seiran128", 64, All(64, {"s0", "s1"}), 0, Create, Get)

Xoroshiro32 ==
    LET Next(s) ==
            LET s11 == s.s1 \oplus s.s0
            IN  Gives([s0 |-> U16(Rotl(16, s.s0, 13) \oplus s11 \oplus (s11 \ll 5)),
                       s1 |-> Rotl(16, s11, 10)], s.s0)
        Create(d) ==
            LET s01 == U16(d[1] \gg 16)
                s11 == U16(d[1])
            IN  [s0 |-> IF s01 = {} /\ s11 = {} THEN Num(\hDEAD) ELSE s01,
                 s1 |-> IF s01 = {} /\ s11 = {} THEN Num(\hBEEF) ELSE s11]
        Get(s) == Halves(Next, s)
    IN  Mixing("xoroshiro32", 32, All(16, {"s0", "s1"}), 0, Create, Get)

Xoroshiro32pp ==
    LET Next(s) ==
            LET s11 == s.s1 \oplus s.s0
            IN  Gives([s0 |-> U16(Rotl(16, s.s0, 13) \oplus s11 \oplus (s11 \ll 5)),
                       s1 |-> Rotl(16, s11, 10)],
                      U16(Rotl(16, U16(s.s0 ++ s.s1), 9) ++ s.s0))
        Create(d) ==
            LET s01 == U16(d[1] \gg 16)
                s11 == U16(d[1])
            IN  [s0 |-> IF s01 = {} /\ s11 = {} THEN Num(\hDEAD) ELSE s01,
                 s1 |-> IF s01 = {} /\ s11 = {} THEN Num(\hBEEF) ELSE s11]
        Get(s) == Halves(Next, s)
    IN  Mixing("xoroshiro32pp", 32, All(16, {"s0", "s1"}), 0, Create, Get)

Xoroshiro48w8ppp ==
    LET Create(d) ==
            LET s01 == U8(d[1])
                s11 == U8(d[1] \gg 8)
            IN  [s0 |-> IF s01 = {} /\ s11 = {} THEN Num(18) ELSE s01,
                 s1 |-> IF s01 = {} /\ s11 = {} THEN Num(52) ELSE s11,
                 s2 |-> U8(d[1] \gg 16), s3 |-> U8(d[1] \gg 24), s4 |-> U8(d[1] \gg 32),
                 s5 |-> U8(d[1] \gg 40)]
        Get(s) ==
            LET s0x5 == s.s0 \oplus s.s5
                s11 == U8(Rotl(8, s.s0, 3) \oplus s0x5 \oplus (s0x5 \ll 1))
                s51 == Rotl(8, s0x5, 4)
                s0x51 == s.s1 \oplus s51
                s21 == U8(Rotl(8, s.s1, 3) \oplus s0x51 \oplus (s0x51 \ll 1))
                s52 == Rotl(8, s0x51, 4)
                s0x52 == s.s2 \oplus s52
                s53 == Rotl(8, s0x52, 4)
                s0x53 == s.s3 \oplus s53
            IN  Gives([s0 |-> s.s4, s1 |-> s11, s2 |-> s21,
                       s3 |-> U8(Rotl(8, s.s2, 3) \oplus s0x52 \oplus (s0x52 \ll 1)),
                       s4 |-> U8(Rotl(8, s.s3, 3) \oplus s0x53 \oplus (s0x53 \ll 1)),
                       s5 |-> Rotl(8, s0x53, 4)],
                      (((((({} \cup U8(Rotl(8, U8(s.s0 ++ s.s5), 1) ++ s.s0 ++ s.s3)) \ll 8)
                      \cup U8(Rotl(8, U8(s.s1 ++ s51), 1) ++ s.s1 ++ s.s4)) \ll 8)
                      \cup U8(Rotl(8, U8(s.s2 ++ s52), 1) ++ s.s2 ++ s11)) \ll 8)
                      \cup U8(Rotl(8, U8(s.s3 ++ s53), 1) ++ s.s3 ++ s21))
    IN  Maximal("xoroshiro48w8ppp", 32,
                All(8, {"s0", "s1", "s2", "s3", "s4", "s5"}), 0, Create, Get)

Xoroshiro48w16ppp ==
    LET Next(s) ==
            LET s0x2 == s.s0 \oplus s.s2
            IN  Gives([s0 |-> s.s1,
                       s1 |-> U16(Rotl(16, s.s0, 7) \oplus s0x2 \oplus (s0x2 \ll 6)),
                       s2 |-> Rotl(16, s0x2, 2)],
                      U16(Rotl(16, U16(s.s0 ++ s.s2), 5) ++ s.s0 ++ s.s1))
        Create(d) ==
            LET s01 == U16(d[1] \gg 32)
                s11 == U16(d[1] \gg 16)
            IN  [s0 |-> IF s01 = {} /\ s11 = {} THEN Num(\hDEAD) ELSE s01,
                 s1 |-> IF s01 = {} /\ s11 = {} THEN Num(\hBEEF) ELSE s11,
                 s2 |-> U16(d[1])]
        Get(s) == Halves(Next, s)
    IN  Mixing("xoroshiro48w16ppp", 32, All(16, {"s0", "s1", "s2"}), 0, Create, Get)

Xoroshiro64pp ==
    LET Create(d) ==
            LET s01 == d[1] \gg 32
                s11 == U32(d[1])
            IN  [s0 |-> IF s01 = {} /\ s11 = {} THEN Hex2(\h1234, \h5678) ELSE s01,
                 s1 |-> IF s01 = {} /\ s11 = {} THEN Hex2(\hDEAD, \hBEEF) ELSE s11]
        Get(s) ==
            LET s11 == s.s1 \oplus s.s0
            IN  Gives([s0 |-> U32(Rotl(32, s.s0, 26) \oplus s11 \oplus (s11 \ll 9)),
                       s1 |-> Rotl(32, s11, 13)],
                      U32(Rotl(32, U32(s.s0 ++ s.s1), 7) ++ s.s0))
    IN  Maximal("xoroshiro64pp", 32, All(32, {"s0", "s1"}), 0, Create, Get)

Xoroshiro64st ==
    LET Create(d) ==
            LET s01 == d[1] \gg 32
                s11 == U32(d[1])
            IN  [s0 |-> IF s01 = {} /\ s11 = {} THEN Hex2(\h1234, \h5678) ELSE s01,
                 s1 |-> IF s01 = {} /\ s11 = {} THEN Hex2(\hDEAD, \hBEEF) ELSE s11]
        Get(s) ==
            LET s11 == s.s1 \oplus s.s0
            IN  Gives([s0 |-> U32(Rotl(32, s.s0, 26) \oplus s11 \oplus (s11 \ll 9)),
                       s1 |-> Rotl(32, s11, 13)], Mul(32, s.s0, Hex2(\h9E37, \h79BB)))
    IN  Maximal("xoroshiro64st", 32, All(32, {"s0", "s1"}), 0, Create, Get)

Xoroshiro64stst ==
    LET Create(d) ==
            LET s01 == d[1] \gg 32
                s11 == U32(d[1])
            IN  [s0 |-> IF s01 = {} /\ s11 = {} THEN Hex2(\h1234, \h5678) ELSE s01,
                 s1 |-> IF s01 = {} /\ s11 = {} THEN Hex2(\hDEAD, \hBEEF) ELSE s11]
        Get(s) ==
            LET s11 == s.s1 \oplus s.s0
            IN  Gives([s0 |-> U32(Rotl(32, s.s0, 26) \oplus s11 \oplus (s11 \ll 9)),
                       s1 |-> Rotl(32, s11, 13)],
                      Mul(32, Rotl(32, Mul(32, s.s0, Hex2(\h9E37, \h79BB)), 5), Num(5)))
    IN  Maximal("xoroshiro64stst", 32, All(32, {"s0", "s1"}), 0, Create, Get)

Xoroshiro64aox ==
    LET Create(d) ==
            LET s01 == d[1] \gg 32
                s11 == U32(d[1])
            IN  [s0 |-> IF s01 = {} /\ s11 = {} THEN Hex2(\h1234, \h5678) ELSE s01,
                 s1 |-> IF s01 = {} /\ s11 = {} THEN Hex2(\hDEAD, \hBEEF) ELSE s11]
        Get(s) ==
            LET s11 == s.s1 \oplus s.s0
                sa == s.s0 \cap s.s1
            IN  Gives([s0 |-> U32(Rotl(32, s.s0, 26) \oplus s11 \oplus (s11 \ll 9)),
                       s1 |-> Rotl(32, s11, 13)],
                      s.s0 \oplus s.s1 \oplus (Rotl(32, sa, 1) \cup Rotl(32, sa, 2)))
    IN  Maximal("xoroshiro64aox", 32, All(32, {"s0", "s1"}), 0, Create, Get)

Xoroshiro64w16pp ==
    LET Next(s) ==
            LET s0x3 == s.s0 \oplus s.s3
            IN  Gives([s0 |-> s.s1, s1 |-> s.s2,
                       s2 |-> U16(Rotl(16, s.s0, 10) \oplus s0x3 \oplus (s0x3 \ll 1)),
                       s3 |-> Rotl(16, s0x3, 11)],
                      U16(Rotl(16, U16(s.s0 ++ s.s3), 5) ++ s.s0))
        Create(d) ==
            LET s01 == d[1] \gg 48
                s11 == U16(d[1] \gg 32)
            IN  [s0 |-> IF s01 = {} /\ s11 = {} THEN Num(\hDEAD) ELSE s01,
                 s1 |-> IF s01 = {} /\ s11 = {} THEN Num(\hBEEF) ELSE s11,
                 s2 |-> U16(d[1] \gg 16), s3 |-> U16(d[1])]
        Get(s) == Halves(Next, s)
    IN  Mixing("xoroshiro64w16pp", 32, All(16, {"s0", "s1", "s2", "s3"}), 0, Create, Get)

Xoroshiro128 ==
    LET Create(d) == [s0 |-> d[1], s1 |-> d[2] \cup {0}]
        Get(s) ==
            LET s11 == s.s1 \oplus s.s0
            IN  Gives([s0 |-> U64(Rotl(64, s.s0, 24) \oplus s11 \oplus (s11 \ll 16)),
                       s1 |-> Rotl(64, s11, 37)], s.s0)
    IN  Maximal("xoroshiro128", 64, All(64, {"s0", "s1"}), 0, Create, Get)

Xoroshiro128p ==
    LET Create(d) == [s0 |-> d[1], s1 |-> d[2] \cup {0}]
        Get(s) ==
            LET s11 == s.s1 \oplus s.s0
            IN  Gives([s0 |-> U64(Rotl(64, s.s0, 24) \oplus s11 \oplus (s11 \ll 16)),
                       s1 |-> Rotl(64, s11, 37)], U64(s.s0 ++ s.s1))
    IN  Maximal("xoroshiro128p", 64, All(64, {"s0", "s1"}), 0, Create, Get)

Xoroshiro128aox ==
    LET Create(d) == [s0 |-> d[1], s1 |-> d[2] \cup {0}]
        Get(s) ==
            LET sx == s.s0 \oplus s.s1
                sa == s.s0 \cap s.s1
            IN  Gives([s0 |-> U64(Rotl(64, s.s0, 24) \oplus sx \oplus (sx \ll 16)),
                       s1 |-> Rotl(64, sx, 37)],
                      sx \oplus (Rotl(64, sa, 1) \cup Rotl(64, sa, 2)))
    IN  Mixing("xoroshiro128aox", 64, All(64, {"s0", "s1"}), 0, Create, Get)

Xorrot24 ==
    LET Create(d) ==
            LET seed == d[1] \gg 32
                seed1 == IF seed = {} THEN Hex2(\hDEAD, \hBEEF) ELSE seed
            IN  [x |-> U8(seed1), y |-> U8(seed1 \gg 8), z |-> U8(seed1 \gg 16)]
        Get(s) ==
            LET x0 == s.x \oplus s.y
                y1 == s.x \oplus s.z
                x01 == x0 \oplus y1
                z0 == U8((s.x \ll 1) \oplus y1 \oplus Rotl(8, s.z, 1) \oplus Rotl(8, s.z,
                      7))
                y2 == x0 \oplus z0
                x02 == x01 \oplus y2
                z01 == U8((x0 \ll 1) \oplus y2 \oplus Rotl(8, z0, 1) \oplus Rotl(8, z0, 7))
                y3 == x01 \oplus z01
                z02 == U8((x01 \ll 1) \oplus y3 \oplus Rotl(8, z01, 1) \oplus Rotl(8, z01,
                       7))
                y4 == x02 \oplus z02
            IN  Gives([x |-> x02 \oplus y3, y |-> y4,
                       z |-> U8((x02 \ll 1) \oplus y4 \oplus Rotl(8, z02, 1) \oplus Rotl(8,
                             z02, 7))],
                      U8(s.x ++ s.z) \cup (U8(x0 ++ z0) \ll 8) \cup (U8(x01 ++ z01) \ll 16)
                      \cup (U8(x02 ++ z02) \ll 24))
    IN  Maximal("xorrot24", 32, All(8, {"x", "y", "z"}), 0, Create, Get)

Xorrot32Good ==
    LET Create(d) ==
            LET x1 == d[1] \gg 32
            IN  [x |-> IF x1 = {} THEN Hex2(\hDEAD, \hBEEF) ELSE x1]
        Get(s) ==
            LET x1 == U32(s.x \oplus (s.x \ll 1))
                x2 == x1 \oplus Rotl(32, x1, 9) \oplus Rotl(32, x1, 27)
            IN  Gives([x |-> x2], x2)
    IN  Maximal("xorrot32_good", 32, All(32, {"x"}), 0, Create, Get)

Xorrot32Bad1 ==
    LET Create(d) ==
            LET x1 == d[1] \gg 32
            IN  [x |-> IF x1 = {} THEN Hex2(\hDEAD, \hBEEF) ELSE x1]
        Get(s) ==
            LET x1 == U32(s.x \oplus (s.x \ll 2))
                x2 == x1 \oplus Rotl(32, x1, 9) \oplus Rotl(32, x1, 27)
            IN  Gives([x |-> x2], x2)
    IN  Maximal("xorrot32_bad1", 32, All(32, {"x"}), 0, Create, Get)

Xorrot32Bad2 ==
    LET Create(d) ==
            LET x1 == d[1] \gg 32
            IN  [x |-> IF x1 = {} THEN Hex2(\hDEAD, \hBEEF) ELSE x1]
        Get(s) ==
            LET x1 == U32(s.x \oplus (s.x \ll 1))
                x2 == x1 \oplus Rotl(32, x1, 6) \oplus Rotl(32, x1, 23)
            IN  Gives([x |-> x2], x2)
    IN  Maximal("xorrot32_bad2", 32, All(32, {"x"}), 0, Create, Get)

Xorrot64 ==
    LET Create(d) == [x |-> IF d[1] = {} THEN Hex2(\hDEAD, \hBEEF) ELSE d[1]]
        Get(s) ==
            LET x1 == U64(s.x \oplus (s.x \ll 5))
                x2 == x1 \oplus Rotl(64, x1, 13) \oplus Rotl(64, x1, 47)
            IN  Gives([x |-> x2], x2)
    IN  Maximal("xorrot64", 64, All(64, {"x"}), 0, Create, Get)

Xorrot64mn ==
    LET Create(d) == [x |-> IF d[1] = {} THEN Hex2(\hDEAD, \hBEEF) ELSE d[1]]
        Get(s) ==
            LET x1 == U64(s.x \oplus (s.x \ll 5))
            IN  Gives([x |-> x1 \oplus Rotl(64, x1, 13) \oplus Rotl(64, x1, 47)],
                      Minus(64, Rotl(64, Mul(64, s.x, Hex(<<\h1, \h9BAF, \hFBED>>)), 11),
                      s.x))
    IN  Maximal("xorrot64mn", 64, All(64, {"x"}), 0, Create, Get)

Xorrot64mrt ==
    LET Create(d) == [x |-> IF d[1] = {} THEN Hex2(\hDEAD, \hBEEF) ELSE d[1]]
        Get(s) ==
            LET x1 == U64(s.x \oplus (s.x \ll 5))
                out == Rotl(64, Mul(64, Hex(<<\h1, \h9BAF, \hFBED>>), s.x), 11)
            IN  Gives([x |-> x1 \oplus Rotl(64, x1, 13) \oplus Rotl(64, x1, 47)],
                      U64(out ++ (Mul(64, out, out) \cup Hex2(\h4000, \h5))))
    IN  Mixing("xorrot64mrt", 64, All(64, {"x"}), 0, Create, Get)

Xorrot64w16 ==
    LET Next(s) ==
            LET z1 == s.x \oplus s.w
            IN  Gives([x |-> s.x \oplus s.y, y |-> s.z, z |-> z1,
                       w |-> U16((s.x \ll 3) \oplus z1 \oplus Rotl(16, s.w, 7)
                             \oplus Rotl(16, s.w, 13))], s.x)
        Create(d) ==
            LET seed == IF d[1] = {} THEN Hex4(\h123, \h4567, \h89AB, \hCDEF) ELSE d[1]
            IN  [x |-> U16(seed), y |-> U16(seed \gg 16), z |-> U16(seed \gg 32),
                 w |-> seed \gg 48]
        Get(s) == Halves(Next, s)
    IN  Mixing("xorrot64w16", 32, All(16, {"x", "y", "z", "w"}), 0, Create, Get)

Xorrot64w16nn ==
    LET Next(s) ==
            LET z1 == s.x \oplus s.w
            IN  Gives([x |-> s.x \oplus s.y, y |-> s.z, z |-> z1,
                       w |-> U16((s.x \ll 3) \oplus z1 \oplus Rotl(16, s.w, 7)
                             \oplus Rotl(16, s.w, 13))],
                      Minus(16, Rotl(16, Minus(16, s.x, s.w), 3), s.w))
        Create(d) ==
            LET seed == IF d[1] = {} THEN Hex4(\h123, \h4567, \h89AB, \hCDEF) ELSE d[1]
            IN  [x |-> U16(seed), y |-> U16(seed \gg 16), z |-> U16(seed \gg 32),
                 w |-> seed \gg 48]
        Get(s) == Halves(Next, s)
    IN  Mixing("xorrot64w16nn", 32, All(16, {"x", "y", "z", "w"}), 0, Create, Get)

Xorrot64w32 ==
    LET Create(d) ==
            LET x1 == d[1] \gg 32
            IN  [x |-> IF x1 = {} THEN Hex2(\hDEAD, \hBEEF) ELSE x1, y |-> d[2] \gg 32]
        Get(s) ==
            LET x1 == s.x \oplus s.y
            IN  Gives([x |-> x1,
                       y |-> U32((s.x \ll 5) \oplus x1 \oplus Rotl(32, s.y, 12)
                             \oplus Rotl(32, s.y, 25))], s.x)
    IN  Maximal("xorrot64w32", 32, All(32, {"x", "y"}), 0, Create, Get)

Xorrot64w32mn ==
    LET Create(d) ==
            LET x1 == d[1] \gg 32
            IN  [x |-> IF x1 = {} THEN Hex2(\hDEAD, \hBEEF) ELSE x1, y |-> d[2] \gg 32]
        Get(s) == Gives([x |-> s.y,
                         y |-> U32(s.x \oplus (s.x \ll 5) \oplus s.y \oplus Rotl(32, s.y,
                               13) \oplus Rotl(32, s.y, 25))],
                        Minus(32, Rotl(32, Mul(32, s.x, Hex2(\h1, \hDCD)), 5), s.y))
    IN  Maximal("xorrot64w32mn", 32, All(32, {"x", "y"}), 0, Create, Get)

Xorrot128 ==
    LET Create(d) == [x |-> IF d[1] = {} THEN Hex2(\hDEAD, \hBEEF) ELSE d[1], y |-> d[2]]
        Get(s) ==
            LET x1 == s.x \oplus s.y
            IN  Gives([x |-> x1,
                       y |-> U64((s.x \ll 3) \oplus x1 \oplus Rotl(64, s.y, 17)
                             \oplus Rotl(64, s.y, 52))], s.x)
    IN  Maximal("xorrot128", 64, All(64, {"x", "y"}), 0, Create, Get)

Xorrot128mn ==
    LET Create(d) == [x |-> IF d[1] = {} THEN Hex2(\hDEAD, \hBEEF) ELSE d[1], y |-> d[2]]
        Get(s) ==
            LET x1 == s.x \oplus s.y
            IN  Gives([x |-> x1,
                       y |-> U64((s.x \ll 3) \oplus x1 \oplus Rotl(64, s.y, 17)
                             \oplus Rotl(64, s.y, 52))],
                      Minus(64, Rotl(64, Mul(64, s.x, Hex(<<\h1, \h9BAF, \hFBED>>)), 11),
                      s.y))
    IN  Maximal("xorrot128mn", 64, All(64, {"x", "y"}), 0, Create, Get)

Xorrot128w32 ==
    LET Create(d) ==
            LET w1 == d[4] \gg 32
            IN  [x |-> d[1] \gg 32, y |-> d[2] \gg 32, z |-> d[3] \gg 32,
                 w |-> IF w1 = {} THEN Hex2(\h1234, \h5678) ELSE w1]
        Get(s) ==
            LET z1 == s.x \oplus s.w
            IN  Gives([x |-> s.x \oplus s.y, y |-> s.z, z |-> z1,
                       w |-> U32((s.x \ll 9) \oplus z1 \oplus Rotl(32, s.w, 4)
                             \oplus Rotl(32, s.w, 17))], s.x)
    IN  Maximal("xorrot128w32", 32, All(32, {"x", "y", "z", "w"}), 0, Create, Get)

Xorrot128w32mrt ==
    LET Create(d) ==
            LET w1 == d[4] \gg 32
            IN  [x |-> d[1] \gg 32, y |-> d[2] \gg 32, z |-> d[3] \gg 32,
                 w |-> IF w1 = {} THEN Hex2(\h1234, \h5678) ELSE w1]
        Get(s) ==
            LET z1 == s.x \oplus s.w
                out == Rotl(32, Mul(32, Hex2(\h1, \hDCD), s.x), 5)
            IN  Gives([x |-> s.x \oplus s.y, y |-> s.z, z |-> z1,
                       w |-> U32((s.x \ll 9) \oplus z1 \oplus Rotl(32, s.w, 4)
                             \oplus Rotl(32, s.w, 17))],
                      U32(out ++ (Mul(32, out, out) \cup Num(\h4005))))
    IN  Mixing("xorrot128w32mrt", 32, All(32, {"x", "y", "z", "w"}), 0, Create, Get)

Xorrot160 ==
    LET Create(d) ==
            LET v1 == d[5] \gg 32
            IN  [x |-> d[1] \gg 32, y |-> d[2] \gg 32, z |-> d[3] \gg 32,
                 w |-> d[4] \gg 32, v |-> IF v1 = {} THEN Hex2(\h1234, \h5678) ELSE v1]
        Get(s) ==
            LET w1 == s.x \oplus s.v
            IN  Gives([x |-> s.x \oplus s.y, y |-> s.z, z |-> s.w, w |-> w1,
                       v |-> U32((s.x \ll 13) \oplus w1 \oplus Rotl(32, s.v, 4)
                             \oplus Rotl(32, s.v, 11))], s.x)
    IN  Linear("xorrot160", 32, All(32, {"x", "y", "z", "w", "v"}), 0, Create, Get)

Xorrot256Good ==
    LET Create(d) == [x |-> d[1], y |-> d[2], z |-> d[3],
                      w |-> IF d[4] = {} THEN Hex4(\h123, \h4567, \h89AB, \hCDEF) ELSE d[4]]
        Get(s) ==
            LET z1 == s.x \oplus s.w
            IN  Gives([x |-> s.x \oplus s.y, y |-> s.z, z |-> z1,
                       w |-> U64((s.x \ll 3) \oplus z1 \oplus Rotl(64, s.w, 8)
                             \oplus Rotl(64, s.w, 37))], s.x)
    IN  Linear("xorrot256_good", 64, All(64, {"x", "y", "z", "w"}), 0, Create, Get)

Xorrot256Bad1 ==
    LET Create(d) == [x |-> d[1], y |-> d[2], z |-> d[3],
                      w |-> IF d[4] = {} THEN Hex4(\h123, \h4567, \h89AB, \hCDEF) ELSE d[4]]
        Get(s) ==
            LET z1 == s.x \oplus s.w
            IN  Gives([x |-> s.x \oplus s.y, y |-> s.z, z |-> z1,
                       w |-> U64((s.x \ll 3) \oplus z1 \oplus Rotl(64, s.w, 8)
                             \oplus Rotl(64, s.w, 39))], s.x)
    IN  Linear("xorrot256_bad1", 64, All(64, {"x", "y", "z", "w"}), 0, Create, Get)

Xorrot256Bad2 ==
    LET Create(d) == [x |-> d[1], y |-> d[2], z |-> d[3],
                      w |-> IF d[4] = {} THEN Hex4(\h123, \h4567, \h89AB, \hCDEF) ELSE d[4]]
        Get(s) ==
            LET z1 == s.x \oplus s.w
            IN  Gives([x |-> s.x \oplus s.y, y |-> s.z, z |-> z1,
                       w |-> U64((s.x \ll 7) \oplus z1 \oplus Rotl(64, s.w, 23)
                             \oplus Rotl(64, s.w, 47))], s.x)
    IN  Linear("xorrot256_bad2", 64, All(64, {"x", "y", "z", "w"}), 0, Create, Get)

Xorrot256mrt ==
    LET Create(d) == [x |-> d[1], y |-> d[2], z |-> d[3],
                      w |-> IF d[4] = {} THEN Hex4(\h123, \h4567, \h89AB, \hCDEF) ELSE d[4]]
        Get(s) ==
            LET z1 == s.x \oplus s.w
                out == Rotl(64, Mul(64, Hex(<<\h1, \h9BAF, \hFBED>>), s.x), 11)
            IN  Gives([x |-> s.x \oplus s.y, y |-> s.z, z |-> z1,
                       w |-> U64((s.x \ll 3) \oplus z1 \oplus Rotl(64, s.w, 8)
                             \oplus Rotl(64, s.w, 37))],
                      U64(out ++ (Mul(64, out, out) \cup Hex2(\h4000, \h5))))
    IN  Mixing("xorrot256mrt", 64, All(64, {"x", "y", "z", "w"}), 0, Create, Get)

Xorrot320 ==
    LET Create(d) == [x |-> d[1], y |-> d[2], z |-> d[3], w |-> d[4],
                      v |-> IF d[5] = {} THEN Hex4(\h123, \h4567, \h89AB, \hCDEF) ELSE d[5]]
        Get(s) ==
            LET w1 == s.x \oplus s.v
            IN  Gives([x |-> s.x \oplus s.y, y |-> s.z, z |-> s.w, w |-> w1,
                       v |-> U64((s.x \ll 11) \oplus w1 \oplus Rotl(64, s.v, 9)
                             \oplus Rotl(64, s.v, 43))], s.x)
    IN  Linear("xorrot320", 64, All(64, {"x", "y", "z", "w", "v"}), 0, Create, Get)

Xoshiro128p ==
    LET Create(d) ==
            LET i == FirstDraw(1, 2, LAMBDA j : ~(d[j] = {} /\ d[j + 1] = {}))
            IN  [s0 |-> U32(d[i]), s1 |-> d[i] \gg 32, s2 |-> U32(d[i + 1]),
                 s3 |-> d[i] \gg 32]
        Get(s) ==
            LET s31 == s.s3 \oplus s.s1
                s21 == s.s2 \oplus s.s0
            IN  Gives([s0 |-> s.s0 \oplus s31, s1 |-> s.s1 \oplus s21,
                       s2 |-> s21 \oplus U32(s.s1 \ll 9), s3 |-> Rotl(32, s31, 11)],
                      U32(s.s0 ++ s.s3))
    IN  Maximal("xoshiro128p", 32, All(32, {"s0", "s1", "s2", "s3"}), 0, Create, Get)

Xoshiro128pp ==
    LET Create(d) ==
            LET i == FirstDraw(1, 2, LAMBDA j : ~(d[j] = {} /\ d[j + 1] = {}))
            IN  [s0 |-> U32(d[i]), s1 |-> d[i] \gg 32, s2 |-> U32(d[i + 1]),
                 s3 |-> d[i] \gg 32]
        Get(s) ==
            LET s31 == s.s3 \oplus s.s1
                s21 == s.s2 \oplus s.s0
            IN  Gives([s0 |-> s.s0 \oplus s31, s1 |-> s.s1 \oplus s21,
                       s2 |-> s21 \oplus U32(s.s1 \ll 9), s3 |-> Rotl(32, s31, 11)],
                      U32(Rotl(32, U32(s.s0 ++ s.s3), 7) ++ s.s0))
    IN  Maximal("xoshiro128pp", 32, All(32, {"s0", "s1", "s2", "s3"}), 0, Create, Get)

Xoshiro128aox ==
    LET Create(d) ==
            LET i == FirstDraw(1, 2, LAMBDA j : ~(d[j] = {} /\ d[j + 1] = {}))
            IN  [s0 |-> U32(d[i]), s1 |-> d[i] \gg 32, s2 |-> U32(d[i + 1]),
                 s3 |-> d[i] \gg 32]
        Get(s) ==
            LET s31 == s.s3 \oplus s.s1
                s21 == s.s2 \oplus s.s0
                sa == s.s0 \cap s.s1
            IN  Gives([s0 |-> s.s0 \oplus s31, s1 |-> s.s1 \oplus s21,
                       s2 |-> s21 \oplus U32(s.s1 \ll 9), s3 |-> Rotl(32, s31, 11)],
                      s.s0 \oplus s.s1 \oplus (Rotl(32, sa, 1) \cup Rotl(32, sa, 2)))
    IN  Mixing("xoshiro128aox", 32, All(32, {"s0", "s1", "s2", "s3"}), 0, Create, Get)

Xoshiro256p ==
    LET Create(d) == [s0 |-> IF d[1] = {} /\ d[2] = {} /\ d[3] = {} /\ d[4] = {}
                             THEN Hex2(\h1234, \h5678) ELSE d[1], s1 |-> d[2],
                      s2 |-> d[3], s3 |-> d[4]]
        Get(s) ==
            LET s31 == s.s3 \oplus s.s1
                s21 == s.s2 \oplus s.s0
            IN  Gives([s0 |-> s.s0 \oplus s31, s1 |-> s.s1 \oplus s21,
                       s2 |-> s21 \oplus U64(s.s1 \ll 17), s3 |-> Rotl(64, s31, 45)],
                      U64(s.s0 ++ s.s3))
    IN  Linear("xoshiro256p", 64, All(64, {"s0", "s1", "s2", "s3"}), 0, Create, Get)

Xoshiro256pp ==
    LET Create(d) == [s0 |-> IF d[1] = {} /\ d[2] = {} /\ d[3] = {} /\ d[4] = {}
                             THEN Hex2(\h1234, \h5678) ELSE d[1], s1 |-> d[2],
                      s2 |-> d[3], s3 |-> d[4]]
        Get(s) ==
            LET s31 == s.s3 \oplus s.s1
                s21 == s.s2 \oplus s.s0
            IN  Gives([s0 |-> s.s0 \oplus s31, s1 |-> s.s1 \oplus s21,
                       s2 |-> s21 \oplus U64(s.s1 \ll 17), s3 |-> Rotl(64, s31, 45)],
                      U64(Rotl(64, U64(s.s0 ++ s.s3), 23) ++ s.s0))
    IN  Linear("xoshiro256pp", 64, All(64, {"s0", "s1", "s2", "s3"}), 0, Create, Get)

Xoshiro256stst ==
    LET Create(d) == [s0 |-> IF d[1] = {} /\ d[2] = {} /\ d[3] = {} /\ d[4] = {}
                             THEN Hex2(\h1234, \h5678) ELSE d[1], s1 |-> d[2],
                      s2 |-> d[3], s3 |-> d[4]]
        Get(s) ==
            LET s31 == s.s3 \oplus s.s1
                s21 == s.s2 \oplus s.s0
            IN  Gives([s0 |-> s.s0 \oplus s31, s1 |-> s.s1 \oplus s21,
                       s2 |-> s21 \oplus U64(s.s1 \ll 17), s3 |-> Rotl(64, s31, 45)],
                      Mul(64, Rotl(64, Mul(64, s.s1, Num(5)), 7), Num(9)))
    IN  Linear("xoshiro256stst", 64, All(64, {"s0", "s1", "s2", "s3"}), 0, Create, Get)

Poly96 ==
    LET Create(d) ==
            LET s01 == U32(d[1])
                s11 == d[1] \gg 32
                s21 == U32(d[2])
            IN  [s0 |-> IF s01 = {} /\ s11 = {} /\ s21 = {} THEN Hex2(\h1234, \h5678)
                        ELSE s01,
                 s1 |-> IF s01 = {} /\ s11 = {} /\ s21 = {} THEN Hex2(\h8765, \h4321)
                        ELSE s11,
                 s2 |-> IF s01 = {} /\ s11 = {} /\ s21 = {} THEN Hex2(\hAB, \hCDEF)
                        ELSE s21]
        Get(s) ==
            LET s01 == U32((s.s0 \gg 25) \oplus (s.s2 \ll 7))
                s02 == IF 4 \in s.s1 THEN s01 \oplus Hex2(\h4B24, \h716E) ELSE s01
                s11 == U32((s.s1 \gg 25) \oplus (s.s0 \ll 7))
                s12 == IF 4 \in s.s1 THEN s11 \oplus Hex2(\hFBC6, \hCD96) ELSE s11
                s21 == ((s.s2 \gg 25) \oplus (s.s1 \ll 7)) \cap Hex2(\hFFFF, \hF7FF)
                s22 == IF 4 \in s.s1 THEN s21 \oplus Hex2(\hAB7, \hAB0C) ELSE s21
                e == U32((s02 \oplus s12 \oplus s22) \ll 10)
                y0 == s02 \oplus e
                y1 == s12 \oplus e
                y2 == s22 \oplus e
            IN  Gives([s0 |-> s02, s1 |-> s12, s2 |-> s22],
                      y0 \oplus (((y1 \gg 9) \oplus (y0 \ll 23)) \cap Hex2(\h2FA5, \h1FB4))
                      \oplus ((((y2 \oplus ((y2 \ll 23) \cap Hex2(\h300, \h0))) \gg 17)
                      \oplus ((y1 \oplus (((y2 \gg 9) \oplus (y1 \ll 23)) \cap Hex2(\h2E1E,
                      \h2000))) \ll 15)) \cap Hex2(\h78D8, \h49E0)))
    IN  Linear("poly96", 32, All(32, {"s0", "s1", "s2"}), 0, Create, Get)

XorshiftNext ==
    \/ Shr3 \/ Xsh \/ Ranq1 \/ Xorshift64 \/ Xorshift64st \/ Xorshift96
    \/ Xorshift128 \/ Xorshift128p \/ Xorshift160 \/ Xorshift192 \/ Xorshift320
    \/ Xorshift7 \/ Xsadd \/ Seiran128 \/ Xoroshiro32 \/ Xoroshiro32pp
    \/ Xoroshiro48w8ppp \/ Xoroshiro48w16ppp \/ Xoroshiro64pp \/ Xoroshiro64st
    \/ Xoroshiro64stst \/ Xoroshiro64aox \/ Xoroshiro64w16pp \/ Xoroshiro128
    \/ Xoroshiro128p \/ Xoroshiro128aox \/ Xorrot24 \/ Xorrot32Good \/ Xorrot32Bad1
    \/ Xorrot32Bad2 \/ Xorrot64 \/ Xorrot64mn \/ Xorrot64mrt \/ Xorrot64w16
    \/ Xorrot64w16nn \/ Xorrot64w32 \/ Xorrot64w32mn \/ Xorrot128 \/ Xorrot128mn
    \/ Xorrot128w32 \/ Xorrot128w32mrt \/ Xorrot160 \/ Xorrot256Good
    \/ Xorrot256Bad1 \/ Xorrot256Bad2 \/ Xorrot256mrt \/ Xorrot320 \/ Xoshiro128p
    \/ Xoshiro128pp \/ Xoshiro128aox \/ Xoshiro256p \/ Xoshiro256pp
    \/ Xoshiro256stst \/ Poly96

=============================================================================
