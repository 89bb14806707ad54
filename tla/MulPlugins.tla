----------------------------- MODULE MulPlugins ------------------------------
(***************************************************************************)
(* Chaotic plugins that multiply.                                          *)
(***************************************************************************)
EXTENDS PluginIntf

Prvhash12c ==
    LET Create(d) == [seed |-> Cut(12, d[1] \gg 32), lcg |-> {}, hash |-> {}]
        Get(s) ==
            LET seed1 == Cut(12, Mul(32, s.seed, Inc(s.lcg \ll 1)))
                rs == Cut(12, (seed1 \ll 6) \cup (seed1 \gg 6))
                hash1 == Cut(12, s.hash ++ rs ++ Num(2730))
                lcg1 == Cut(12, s.lcg ++ seed1 ++ Num(1365))
                seed2 == Cut(12, Mul(27, seed1 \oplus hash1, Inc(lcg1 \ll 1)))
                rs1 == Cut(12, (seed2 \ll 6) \cup (seed2 \gg 6))
                hash2 == Cut(12, hash1 ++ rs1 ++ Num(2730))
                lcg2 == Cut(12, lcg1 ++ seed2 ++ Num(1365))
                seed3 == Cut(12, Mul(27, seed2 \oplus hash2, Inc(lcg2 \ll 1)))
                rs2 == Cut(12, (seed3 \ll 6) \cup (seed3 \gg 6))
                hash3 == Cut(12, hash2 ++ rs2 ++ Num(2730))
                lcg3 == Cut(12, lcg2 ++ seed3 ++ Num(1365))
            IN  Gives([seed |-> seed3 \oplus hash3, lcg |-> lcg3, hash |-> hash3],
                      U32(((lcg1 \oplus rs) \ll 24) \cup ((lcg2 \oplus rs1) \ll 12)
                      \cup (lcg3 \oplus rs2)))
    IN  Mixing("prvhash12c", 32, All(16, {"seed", "lcg", "hash"}), 8, Create, Get)

Prvhash12cw ==
    LET Create(d) == [seed |-> Cut(12, d[1] \gg 32), lcg |-> Cut(12, d[2] \gg 32),
                      hash |-> Cut(12, d[3] \gg 32), w |-> Cut(12, d[4] \gg 32)]
        Get(s) ==
            LET seed1 == Cut(12, Mul(32, s.seed, Inc(s.lcg \ll 1)))
                rs == Cut(12, (seed1 \ll 6) \cup (seed1 \gg 6))
                hash1 == Cut(12, s.hash ++ rs ++ Num(2730))
                w1 == Cut(12, s.w ++ Num(2531))
                lcg1 == Cut(12, s.lcg ++ seed1 ++ w1)
                seed2 == Cut(12, Mul(27, seed1 \oplus hash1, Inc(lcg1 \ll 1)))
                rs1 == Cut(12, (seed2 \ll 6) \cup (seed2 \gg 6))
                hash2 == Cut(12, hash1 ++ rs1 ++ Num(2730))
                w2 == Cut(12, w1 ++ Num(2531))
                lcg2 == Cut(12, lcg1 ++ seed2 ++ w2)
                seed3 == Cut(12, Mul(27, seed2 \oplus hash2, Inc(lcg2 \ll 1)))
                rs2 == Cut(12, (seed3 \ll 6) \cup (seed3 \gg 6))
                hash3 == Cut(12, hash2 ++ rs2 ++ Num(2730))
                w3 == Cut(12, w2 ++ Num(2531))
                lcg3 == Cut(12, lcg2 ++ seed3 ++ w3)
            IN  Gives([seed |-> seed3 \oplus hash3, lcg |-> lcg3, hash |-> hash3,
                       w |-> w3],
                      U32(((lcg1 \oplus rs) \ll 24) \cup ((lcg2 \oplus rs1) \ll 12)
                      \cup (lcg3 \oplus rs2)))
    IN  Mixing("prvhash12cw", 32, All(16, {"seed", "lcg", "hash", "w"}), 8, Create, Get)

Prvhash16c ==
    LET Create(d) == [seed |-> U16(d[1]), lcg |-> {}, hash |-> {}]
        Get(s) ==
            LET seed1 == Mul(16, s.seed, Inc(s.lcg \ll 1))
                rs == Rotl(16, seed1, 8)
                hash1 == U16(s.hash ++ rs ++ Num(\hAAAA))
                lcg1 == U16(s.lcg ++ seed1 ++ Num(\h5555))
                seed2 == Mul(16, seed1 \oplus hash1, Inc(lcg1 \ll 1))
                rs1 == Rotl(16, seed2, 8)
                hash2 == U16(hash1 ++ rs1 ++ Num(\hAAAA))
                lcg2 == U16(lcg1 ++ seed2 ++ Num(\h5555))
            IN  Gives([seed |-> seed2 \oplus hash2, lcg |-> lcg2, hash |-> hash2],
                      ((lcg1 \oplus rs) \ll 16) \cup (lcg2 \oplus rs1))
    IN  Mixing("prvhash16c", 32, All(16, {"seed", "lcg", "hash"}), 8, Create, Get)

Prvhash16cw ==
    LET Create(d) == [seed |-> U16(d[1]), lcg |-> U16(d[2]), hash |-> U16(d[3]),
                      w |-> U16(d[4])]
        Get(s) ==
            LET seed1 == Mul(16, s.seed, Inc(s.lcg \ll 1))
                rs == Rotl(16, seed1, 8)
                hash1 == U16(s.hash ++ rs ++ Num(\hAAAA))
                w1 == U16(s.w ++ Num(\h9E37))
                lcg1 == U16(s.lcg ++ seed1 ++ w1)
                seed2 == Mul(16, seed1 \oplus hash1, Inc(lcg1 \ll 1))
                rs1 == Rotl(16, seed2, 8)
                hash2 == U16(hash1 ++ rs1 ++ Num(\hAAAA))
                w2 == U16(w1 ++ Num(\h9E37))
                lcg2 == U16(lcg1 ++ seed2 ++ w2)
            IN  Gives([seed |-> seed2 \oplus hash2, lcg |-> lcg2, hash |-> hash2,
                       w |-> w2], ((lcg1 \oplus rs) \ll 16) \cup (lcg2 \oplus rs1))
    IN  Mixing("prvhash16cw", 32, All(16, {"seed", "lcg", "hash", "w"}), 8, Create, Get)

Prvhash64c ==
    LET Create(d) == [seed |-> d[1], lcg |-> {}, hash |-> {}]
        Get(s) ==
            LET seed1 == Mul(64, s.seed, U64(Inc(s.lcg \ll 1)))
                rs == Rotl(64, seed1, 32)
                hash1 == U64(s.hash ++ rs ++ Hex4(\hAAAA, \hAAAA, \hAAAA, \hAAAA))
                lcg1 == U64(s.lcg ++ seed1 ++ Hex4(\h5555, \h5555, \h5555, \h5555))
            IN  Gives([seed |-> seed1 \oplus hash1, lcg |-> lcg1, hash |-> hash1],
                      lcg1 \oplus rs)
    IN  Mixing("prvhash64c", 64, All(64, {"seed", "lcg", "hash"}), 8, Create, Get)

Prvhash64cw ==
    LET Create(d) == [seed |-> d[1], lcg |-> d[2], hash |-> d[3], w |-> d[4]]
        Get(s) ==
            LET seed1 == Mul(64, s.seed, U64(Inc(s.lcg \ll 1)))
                rs == Rotl(64, seed1, 32)
                hash1 == U64(s.hash ++ rs ++ Hex4(\hAAAA, \hAAAA, \hAAAA, \hAAAA))
                w1 == U64(s.w ++ Hex4(\h9E37, \h79B9, \h7F4A, \h7C15))
                lcg1 == U64(s.lcg ++ seed1 ++ w1)
            IN  Gives([seed |-> seed1 \oplus hash1, lcg |-> lcg1, hash |-> hash1,
                       w |-> w1], lcg1 \oplus rs)
    IN  Mixing("prvhash64cw", 64, All(64, {"seed", "lcg", "hash", "w"}), 8, Create, Get)

Komirand ==
    LET Create(d) == [st1 |-> d[1], st2 |-> d[1]]
        Get(s) ==
            LET x == Mul(128, s.st1, s.st2)
                st21 == U64(s.st2 ++ (x \gg 64) ++ Hex4(\hAAAA, \hAAAA, \hAAAA, \hAAAA))
                st11 == U64(x) \oplus st21
            IN  Gives([st1 |-> st11, st2 |-> st21], st11)
    IN  Mixing("komirand", 64, All(64, {"st1", "st2"}), 8, Create, Get)

Komirandw ==
    LET Create(d) == [st1 |-> d[1], st2 |-> d[2], w |-> d[3]]
        Get(s) ==
            LET x == Mul(128, s.st1, s.st2)
                w1 == U64(s.w ++ Hex4(\h9E37, \h79B9, \h7F4A, \h7C15))
                st21 == U64(s.st2 ++ (x \gg 64) ++ w1)
                st11 == U64(x) \oplus st21
            IN  Gives([st1 |-> st11, st2 |-> st21, w |-> w1], st11)
    IN  Mixing("komirandw", 64, All(64, {"st1", "st2", "w"}), 8, Create, Get)

Komirand16 ==
    LET Create(d) ==
            LET st21 == U16(d[1] \gg 32)
            IN  [st1 |-> st21, st2 |-> st21]
        Get(s) ==
            LET mul == Mul(32, s.st1, s.st2)
                s2 == U16(s.st2 ++ (mul \gg 16) ++ Num(\hAAAA))
                s1 == U16(mul) \oplus s2
                mul1 == Mul(32, s1, s2)
                st21 == U16(s2 ++ (mul1 \gg 16) ++ Num(\hAAAA))
                b == U16(mul1) \oplus st21
            IN  Gives([st1 |-> b, st2 |-> st21], s1 \cup (b \ll 16))
    IN  Mixing("komirand16", 32, All(16, {"st1", "st2"}), 8, Create, Get)

Komirand16w ==
    LET Create(d) == [st1 |-> U16(d[1]), st2 |-> U16(d[1] \gg 16), w |-> U16(d[1] \gg 32)]
        Get(s) ==
            LET mul == Mul(32, s.st1, s.st2)
                w1 == U16(s.w ++ Num(\h9E37))
                s2 == U16(s.st2 ++ (mul \gg 16) ++ w1)
                s1 == U16(mul) \oplus s2
                mul1 == Mul(32, s1, s2)
                w2 == U16(w1 ++ Num(\h9E37))
                st21 == U16(s2 ++ (mul1 \gg 16) ++ w2)
                b == U16(mul1) \oplus st21
            IN  Gives([st1 |-> b, st2 |-> st21, w |-> w2], s1 \cup (b \ll 16))
    IN  Mixing("komirand16w", 32, All(16, {"st1", "st2", "w"}), 8, Create, Get)

Komirand32 ==
    LET Create(d) ==
            LET st21 == d[1] \gg 32
            IN  [st1 |-> st21, st2 |-> st21]
        Get(s) ==
            LET mul == Mul(64, s.st1, s.st2)
                st21 == U32(s.st2 ++ (mul \gg 32) ++ Hex2(\hAAAA, \hAAAA))
                st11 == U32(mul) \oplus st21
            IN  Gives([st1 |-> st11, st2 |-> st21], st11)
    IN  Mixing("komirand32", 32, All(32, {"st1", "st2"}), 8, Create, Get)

Komirand32w ==
    LET Create(d) == [st1 |-> U32(d[1]), st2 |-> d[1] \gg 32, w |-> d[2] \gg 32]
        Get(s) ==
            LET mul == Mul(64, s.st1, s.st2)
                w1 == U32(s.w ++ Hex2(\h9E37, \h79B9))
                st21 == U32(s.st2 ++ (mul \gg 32) ++ w1)
                st11 == U32(mul) \oplus st21
            IN  Gives([st1 |-> st11, st2 |-> st21, w |-> w1], st11)
    IN  Mixing("komirand32w", 32, All(32, {"st1", "st2", "w"}), 8, Create, Get)

A5rand ==
    LET Create(d) == [st1 |-> d[1], st2 |-> d[1]]
        Get(s) ==
            LET x == Mul(128, U64(s.st1 ++ Hex4(\h5555, \h5555, \h5555, \h5555)), U64(s.st2
                     ++ Hex4(\hAAAA, \hAAAA, \hAAAA, \hAAAA)))
                st11 == U64(x)
                st21 == x \gg 64
            IN  Gives([st1 |-> st11, st2 |-> st21], st11 \oplus st21)
    IN  Mixing("a5rand", 64, All(64, {"st1", "st2"}), 8, Create, Get)

A5randw ==
    LET Create(d) == [st1 |-> d[1], st2 |-> d[2], w |-> d[3]]
        Get(s) ==
            LET w1 == U64(s.w ++ Hex4(\h9E37, \h79B9, \h7F4A, \h7C15))
                x == Mul(128, U64(s.st1 ++ Hex4(\h5555, \h5555, \h5555, \h5555)), U64(s.st2
                     ++ w1))
                st11 == U64(x)
                st21 == x \gg 64
            IN  Gives([st1 |-> st11, st2 |-> st21, w |-> w1], st11 \oplus st21)
    IN  Mixing("a5randw", 64, All(64, {"st1", "st2", "w"}), 8, Create, Get)

A5rand32 ==
    LET Create(d) ==
            LET st21 == d[1] \gg 32
            IN  [st1 |-> st21, st2 |-> st21]
        Get(s) ==
            LET mul == Mul(64, U32(s.st1 ++ Hex2(\h5555, \h5555)), U32(s.st2 ++ Hex2(\hAAAA,
                       \hAAAA)))
                st11 == U32(mul)
                st21 == mul \gg 32
            IN  Gives([st1 |-> st11, st2 |-> st21], st11 \oplus st21)
    IN  Mixing("a5rand32", 32, All(32, {"st1", "st2"}), 8, Create, Get)

A5rand32w ==
    LET Create(d) == [st1 |-> d[1] \gg 32, st2 |-> d[2] \gg 32, w |-> d[3] \gg 32]
        Get(s) ==
            LET w1 == U32(s.w ++ Hex2(\h9E37, \h79B9))
                mul == Mul(64, U32(s.st1 ++ Hex2(\h5555, \h5555)), U32(s.st2 ++ w1))
                st11 == U32(mul)
                st21 == mul \gg 32
            IN  Gives([st1 |-> st11, st2 |-> st21, w |-> w1], st11 \oplus st21)
    IN  Mixing("a5rand32w", 32, All(32, {"st1", "st2", "w"}), 8, Create, Get)

Romumono ==
    LET Create(d) == [x |-> IF d[1] = {} THEN Hex4(\h123, \h4567, \h89AB, \hCDEF) ELSE d[1]]
        Get(s) == Gives([x |-> Mul(64, Rotl(64, s.x, 32), Hex4(\hD383, \h3E80, \h4F4C,
                               \h574B))], U32(s.x))
    IN  Mixing("romumono", 32, All(64, {"x"}), 0, Create, Get)

Romuduojr ==
    LET Create(d) == [x |-> IF d[1] = {} /\ d[2] = {} THEN Hex2(\hDEAD, \hBEEF) ELSE d[1],
                      y |-> IF d[1] = {} /\ d[2] = {} THEN Hex2(\hCAFE, \hBABE) ELSE d[2]]
        Get(s) == Gives([x |-> Mul(64, Hex4(\hD383, \h3E80, \h4F4C, \h574B), s.y),
                         y |-> Rotl(64, Minus(64, s.y, s.x), 27)], s.x)
    IN  Mixing("romuduojr", 64, All(64, {"x", "y"}), 0, Create, Get)

Romuduojrw ==
    LET Create(d) == [x |-> d[1], y |-> d[2], w |-> d[3]]
        Get(s) == Gives([x |-> Mul(64, Hex4(\hD383, \h3E80, \h4F4C, \h574B), U64(s.y
                               ++ s.w)), y |-> Rotl(64, Minus(64, s.y, s.x), 27),
                         w |-> U64(Inc(s.w))], s.x)
    IN  Counted("romuduojrw", 64, All(64, {"x", "y", "w"}), "w", 0, Create, Get)

Romutrio ==
    LET Create(d) ==
            LET i == FirstDraw(3, 1, LAMBDA j : d[j] # {})
            IN  [x |-> d[1], y |-> d[2], z |-> d[i]]
        Get(s) == Gives([x |-> Mul(64, Hex4(\hD383, \h3E80, \h4F4C, \h574B), s.z),
                         y |-> Rotl(64, Minus(64, s.y, s.x), 12),
                         z |-> Rotl(64, Minus(64, s.z, s.y), 44)], s.x)
    IN  Mixing("romutrio", 64, All(64, {"x", "y", "z"}), 0, Create, Get)

Sqxor ==
    LET Create(d) == [w |-> d[1]]
        Get(s) ==
            LET ww == U64(s.w ++ Hex4(\h9E37, \h79B9, \h7F4A, \h7C15))
                x == Mul(128, ww, ww)
                x1 == U64(x) \oplus (x \gg 64)
                x2 == Mul(128, x1, x1)
            IN  Gives([w |-> ww], U64(x2) \oplus (x2 \gg 64))
    IN  Mixing("sqxor", 64, All(64, {"w"}), 0, Create, Get)

Sqxor32 ==
    LET Create(d) == [w |-> d[1] \gg 32]
        Get(s) ==
            LET ww == U32(s.w ++ Hex2(\h9E37, \h79B9))
                sq == Mul(64, ww, ww)
                sq1 == Mul(64, U32((sq \gg 32) \oplus sq), ww)
            IN  Gives([w |-> ww], U32((sq1 \gg 32) \oplus sq1))
    IN  Mixing("sqxor32", 32, All(32, {"w"}), 0, Create, Get)

Cwg64 ==
    LET Create(d) == [x |-> d[1], a |-> d[2], w |-> d[3]]
        Get(s) ==
            LET w1 == U64(s.w ++ Hex4(\h9E37, \h79B9, \h7F4A, \h7C15))
                x1 == Mul(64, s.x \gg 1, s.x \cup {0}) \oplus w1
                a1 == U64(s.a ++ s.x)
            IN  Gives([x |-> x1, a |-> a1, w |-> w1], (a1 \gg 48) \oplus x1)
    IN  Mixing("cwg64", 64, All(64, {"x", "a", "w"}), 48, Create, Get)

Msws ==
    LET Create(d) == [x |-> d[1], w |-> d[2]]
        Get(s) ==
            LET w1 == U64(s.w ++ Hex4(\hB5AD, \h4ECE, \hDA1C, \hE2A9))
                x1 == Rotl(64, U64(Mul(64, s.x, s.x) ++ w1), 32)
            IN  Gives([x |-> x1, w |-> w1], U32(x1))
    IN  Mixing("msws", 32, All(64, {"x", "w"}), 0, Create, Get)

Msws64 ==
    LET Create(d) == [x |-> d[1], mcg |-> d[2] \cup {0}]
        Get(s) ==
            LET mcg1 == Mul(64, s.mcg, Hex4(\hE9AC, \hC0F3, \h34E9, \h3BD5))
                x1 == Rotl(64, U64(Mul(64, s.x, s.x) ++ mcg1), 32)
            IN  Gives([x |-> x1, mcg |-> mcg1], x1 \oplus mcg1)
    IN  Mixing("msws64", 64, All(64, {"x", "mcg"}), 0, Create, Get)

Msws64x ==
    LET Create(d) == [x |-> d[1], w |-> d[2]]
        Get(s) ==
            LET w1 == U64(s.w ++ Hex4(\h9E37, \h79B9, \h7F4A, \h7C15))
                x1 == U64(s.x ++ w1)
                x2 == Mul(128, x1, x1)
                x3 == U64(x2) \oplus (x2 \gg 64)
            IN  Gives([x |-> x3, w |-> w1], x3)
    IN  Mixing("msws64x", 64, All(64, {"x", "w"}), 0, Create, Get)

MswsCtr ==
    LET Create(d) == [ctr |-> d[1], key |-> Hex4(\hB5AD, \h4ECE, \hDA1C, \hE2A9)]
        Get(s) ==
            LET y == Mul(64, s.ctr, s.key)
                x == Rotl(64, U64(Mul(64, y, y) ++ y), 32)
                z == U64(y ++ s.key)
                x1 == Rotl(64, U64(Mul(64, x, x) ++ z), 32)
                x2 == Rotl(64, U64(Mul(64, x1, x1) ++ y), 32)
                t == U64(Mul(64, x2, x2) ++ z)
                x3 == Rotl(64, t, 32)
            IN  Gives([ctr |-> U64(Inc(s.ctr)), key |-> s.key],
                      t \oplus (U64(Mul(64, x3, x3) ++ y) \gg 32))
    IN  Counted("msws_ctr", 64, All(64, {"ctr", "key"}), "ctr", 0, Create, Get)

Mrc16 ==
    LET Create(d) ==
            LET b1 == U16(d[1] \gg 16)
                b2 == Rotl(16, b1, 10) \oplus Mul(16, U16(d[1]), Num(\hA965))
                ctr1 == U16(d[1] \gg 32)
                b3 == Rotl(16, b2, 10) \oplus Mul(16, U16(b1 ++ ctr1), Num(\hA965))
                ctr2 == U16(Inc(ctr1))
                b4 == Rotl(16, b3, 10) \oplus Mul(16, U16(b2 ++ ctr2), Num(\hA965))
                ctr3 == U16(Inc(ctr2))
                b5 == Rotl(16, b4, 10) \oplus Mul(16, U16(b3 ++ ctr3), Num(\hA965))
                ctr4 == U16(Inc(ctr3))
                b6 == Rotl(16, b5, 10) \oplus Mul(16, U16(b4 ++ ctr4), Num(\hA965))
                ctr5 == U16(Inc(ctr4))
                b7 == Rotl(16, b6, 10) \oplus Mul(16, U16(b5 ++ ctr5), Num(\hA965))
                ctr6 == U16(Inc(ctr5))
                b8 == Rotl(16, b7, 10) \oplus Mul(16, U16(b6 ++ ctr6), Num(\hA965))
                ctr7 == U16(Inc(ctr6))
                b9 == Rotl(16, b8, 10) \oplus Mul(16, U16(b7 ++ ctr7), Num(\hA965))
                ctr8 == U16(Inc(ctr7))
                b10 == Rotl(16, b9, 10) \oplus Mul(16, U16(b8 ++ ctr8), Num(\hA965))
                ctr9 == U16(Inc(ctr8))
                b11 == Rotl(16, b10, 10) \oplus Mul(16, U16(b9 ++ ctr9), Num(\hA965))
                ctr10 == U16(Inc(ctr9))
                b12 == Rotl(16, b11, 10) \oplus Mul(16, U16(b10 ++ ctr10), Num(\hA965))
                ctr11 == U16(Inc(ctr10))
                b13 == Rotl(16, b12, 10) \oplus Mul(16, U16(b11 ++ ctr11), Num(\hA965))
                ctr12 == U16(Inc(ctr11))
                b14 == Rotl(16, b13, 10) \oplus Mul(16, U16(b12 ++ ctr12), Num(\hA965))
                ctr13 == U16(Inc(ctr12))
                b15 == Rotl(16, b14, 10) \oplus Mul(16, U16(b13 ++ ctr13), Num(\hA965))
                ctr14 == U16(Inc(ctr13))
                b16 == Rotl(16, b15, 10) \oplus Mul(16, U16(b14 ++ ctr14), Num(\hA965))
                ctr15 == U16(Inc(ctr14))
                ctr16 == U16(Inc(ctr15))
            IN  [a |-> U16(b16 ++ ctr16),
                 b |-> Rotl(16, b16, 10) \oplus Mul(16, U16(b15 ++ ctr15), Num(\hA965)),
                 ctr |-> U16(Inc(ctr16))]
        Get(s) ==
            LET old == Mul(16, s.a, Num(\hA965))
                b1 == Rotl(16, s.b, 10) \oplus old
                ctr1 == U16(Inc(s.ctr))
                a1 == U16(b1 ++ ctr1)
                a2 == U16(s.b ++ s.ctr)
                old1 == Mul(16, a2, Num(\hA965))
            IN  Gives([a |-> a1, b |-> Rotl(16, b1, 10) \oplus old1,
                       ctr |-> U16(Inc(ctr1))],
                      U16(old ++ a2) \cup (U16(old1 ++ a1) \ll 16))
    IN  Mixing("mrc16", 32, All(16, {"a", "b", "ctr"}), 0, Create, Get)

Mrc32 ==
    LET Create(d) == [a |-> d[1] \gg 32, b |-> d[2] \gg 32, ctr |-> d[3] \gg 32]
        Get(s) ==
            LET a1 == U32(s.b ++ s.ctr)
                old == Mul(32, s.a, Hex2(\h7F4A, \h7C15))
            IN  Gives([a |-> a1, b |-> Rotl(32, s.b, 19) \oplus old,
                       ctr |-> U32(Inc(s.ctr))], U32(old ++ a1))
    IN  Counted("mrc32", 32, All(32, {"a", "b", "ctr"}), "ctr", 16, Create, Get)

Mrc64 ==
    LET Create(d) == [a |-> d[1], b |-> d[2], ctr |-> d[3]]
        Get(s) ==
            LET a1 == U64(s.b ++ s.ctr)
                old == Mul(64, s.a, Hex4(\h9E37, \h79B9, \h7F4A, \h7C15))
            IN  Gives([a |-> a1, b |-> Rotl(64, s.b, 21) \oplus old,
                       ctr |-> U64(Inc(s.ctr))], U64(old ++ a1))
    IN  Counted("mrc64", 64, All(64, {"a", "b", "ctr"}), "ctr", 16, Create, Get)

Mrsf32 ==
    LET Create(d) ==
            LET a1 == d[1] \gg 32
            IN  [a |-> IF a1 = {} THEN Hex2(\h1234, \h5678) ELSE a1, b |-> d[2] \gg 32]
        Get(s) ==
            LET a1 == Mul(32, s.b, Hex2(\hD351, \h9D65))
            IN  Gives([a |-> a1, b |-> Rotl(32, s.b, 13) \oplus s.a], U32(s.a ++ a1))
    IN  Mixing("mrsf32", 32, All(32, {"a", "b"}), 0, Create, Get)

Mrsf64 ==
    LET Create(d) == [a |-> Hex4(\h123, \h4567, \h89AB, \hCDEF), b |-> d[1]]
        Get(s) ==
            LET a1 == Mul(64, s.b, Hex4(\hAE37, \h69B9, \hD351, \h9D65))
            IN  Gives([a |-> a1, b |-> Rotl(64, s.b, 23) \oplus s.a], U64(s.a ++ a1))
    IN  Mixing("mrsf64", 64, All(64, {"a", "b"}), 0, Create, Get)

Mtc8 ==
    LET Next(s) ==
            LET ctr1 == U8(Inc(s.ctr))
                a1 == U8(Mul(15, s.b, Num(123)) \oplus ctr1)
            IN  Gives([a |-> a1, b |-> Rotl(8, U8(s.a ++ s.b), 3), ctr |-> ctr1], a1)
        Create(d) == [a |-> U8(d[1]), b |-> U8(d[1] \gg 8), ctr |-> U8(d[1] \gg 16)]
        Get(s) == Bytes(Next, s)
    IN  Mixing("mtc8", 32, All(8, {"a", "b", "ctr"}), 0, Create, Get)

Mtc16 ==
    LET Create(d) == [a |-> U16(d[1]), b |-> U16(d[1] \gg 16), ctr |-> U16(d[1] \gg 32)]
        Get(s) ==
            LET b1 == Rotl(16, U16(s.a ++ s.b), 10)
                ctr1 == U16(Inc(s.ctr))
                ctr2 == U16(Inc(ctr1))
                lo == U16(Mul(32, b1, Num(\hF36D)) \oplus ctr2)
                hi == U16(Mul(32, s.b, Num(\hF36D)) \oplus ctr1)
            IN  Gives([a |-> lo, b |-> Rotl(16, U16(hi ++ b1), 10), ctr |-> ctr2],
                      (hi \ll 16) \cup lo)
    IN  Mixing("mtc16", 32, All(16, {"a", "b", "ctr"}), 0, Create, Get)

Mtc32 ==
    LET Create(d) == [a |-> d[1] \gg 32, b |-> d[2] \gg 32, ctr |-> d[3] \gg 32]
        Get(s) ==
            LET ctr1 == U32(Inc(s.ctr))
                a1 == Mul(32, s.b, Hex2(\h5D58, \h8B65)) \oplus ctr1
            IN  Gives([a |-> a1, b |-> Rotl(32, U32(s.a ++ s.b), 13), ctr |-> ctr1], a1)
    IN  Mixing("mtc32", 32, All(32, {"a", "b", "ctr"}), 0, Create, Get)

Mtc64 ==
    LET Create(d) == [a |-> d[1], b |-> d[2], ctr |-> d[3]]
        Get(s) ==
            LET ctr1 == U64(Inc(s.ctr))
                a1 == Mul(64, s.b, Hex4(\h9E37, \h79B9, \h7F4A, \h7C15)) \oplus ctr1
            IN  Gives([a |-> a1, b |-> Rotl(64, U64(s.a ++ s.b), 23), ctr |-> ctr1], a1)
    IN  Mixing("mtc64", 64, All(64, {"a", "b", "ctr"}), 0, Create, Get)

Mtc64hi ==
    LET Create(d) == [a |-> d[1], b |-> d[2], ctr |-> d[3]]
        Get(s) ==
            LET x == Mul(128, s.a, Hex4(\h9E37, \h79B9, \h7F4A, \h7C15))
                a1 == (x \gg 64) \oplus s.b
                ctr1 == U64(Inc(s.ctr))
            IN  Gives([a |-> a1, b |-> U64(U64(x) ++ ctr1), ctr |-> ctr1], a1)
    IN  Mixing("mtc64hi", 64, All(64, {"a", "b", "ctr"}), 0, Create, Get)

Wob2m ==
    LET Create(d) == [a |-> d[1], b |-> d[2],
                      count |-> Hex4(\hFFFF, \hFFFF, \hFFFF, \hFFF6)]
        Get(s) ==
            LET temp == U64(s.a ++ s.count)
                a1 == U64(s.b ++ Rotl(64, temp, 12))
                b1 == Mul(64, Hex4(\h581, \hAF43, \hEB71, \hD8B3), temp) \oplus Rotl(64, a1,
                      28)
            IN  Gives([a |-> a1, b |-> b1, count |-> U64(Inc(s.count))], b1)
    IN  Counted("wob2m", 64, All(64, {"a", "b", "count"}), "count", 10, Create, Get)

MulNext ==
    \/ Prvhash12c \/ Prvhash12cw \/ Prvhash16c \/ Prvhash16cw \/ Prvhash64c
    \/ Prvhash64cw \/ Komirand \/ Komirandw \/ Komirand16 \/ Komirand16w
    \/ Komirand32 \/ Komirand32w \/ A5rand \/ A5randw \/ A5rand32 \/ A5rand32w
    \/ Romumono \/ Romuduojr \/ Romuduojrw \/ Romutrio \/ Sqxor \/ Sqxor32 \/ Cwg64
    \/ Msws \/ Msws64 \/ Msws64x \/ MswsCtr \/ Mrc16 \/ Mrc32 \/ Mrc64 \/ Mrsf32
    \/ Mrsf64 \/ Mtc8 \/ Mtc16 \/ Mtc32 \/ Mtc64 \/ Mtc64hi \/ Wob2m

=============================================================================
