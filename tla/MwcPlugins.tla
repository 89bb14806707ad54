----------------------------- MODULE MwcPlugins ------------------------------
(***************************************************************************)
(* Plugins that multiply with carry: a lag or two and a carry, of words of *)
(* every width, with and without a scrambler of the output.                *)
(***************************************************************************)
EXTENDS PluginIntf

Mwc1616 ==
    LET Create(d) == [z |-> U16(d[1]) \cup {16}, w |-> U16(d[1] \gg 16) \cup {16}]
        Get(s) ==
            LET z1 == U32(Mul(32, Num(\h9069), U16(s.z)) ++ (s.z \gg 16))
                w1 == Mul(31, Num(\h4650), U16(s.w)) ++ (s.w \gg 16)
            IN  Gives([z |-> z1, w |-> w1], U32((z1 \ll 16) ++ w1))
    IN  Mixing("mwc1616", 32, All(32, {"z", "w"}), 0, Create, Get)

Mwc1616p ==
    LET Create(d) ==
            LET seed0 == d[1] \gg 32
            IN  [z |-> U16(seed0) \cup {16}, w |-> (seed0 \gg 16) \cup {16}]
        Get(s) ==
            LET z1 == U32(Mul(32, Num(\hF08A), U16(s.z)) ++ (s.z \gg 16))
                w1 == U32(Mul(32, Num(\hF98D), U16(s.w)) ++ (s.w \gg 16))
            IN  Gives([z |-> z1, w |-> w1], U32(Rotl(32, z1, 16) ++ w1))
    IN  Mixing("mwc1616p", 32, All(32, {"z", "w"}), 0, Create, Get)

Mwc1616x ==
    LET Create(d) ==
            LET seed0 == d[1] \gg 32
            IN  [z |-> U16(seed0) \cup {16}, w |-> (seed0 \gg 16) \cup {16}]
        Get(s) ==
            LET z1 == U32(Mul(32, Num(\hF08A), U16(s.z)) ++ (s.z \gg 16))
                w1 == U32(Mul(32, Num(\hF98D), U16(s.w)) ++ (s.w \gg 16))
            IN  Gives([z |-> z1, w |-> w1], Rotl(32, z1, 16) \oplus w1)
    IN  Mixing("mwc1616x", 32, All(32, {"z", "w"}), 0, Create, Get)

Mwc3232x ==
    LET Create(d) == [z |-> (d[1] \gg 32) \cup {32}, w |-> U32(d[1]) \cup {32}]
        Get(s) ==
            LET z1 == U64(Mul(64, Hex2(\hFFF7, \hF9B3), U32(s.z)) ++ (s.z \gg 32))
                w1 == U64(Mul(64, Hex2(\hFFF7, \hF6DD), U32(s.w)) ++ (s.w \gg 32))
            IN  Gives([z |-> z1, w |-> w1], Rotl(64, z1, 32) \oplus w1)
    IN  Mixing("mwc3232x", 64, All(64, {"z", "w"}), 0, Create, Get)

Mwc1632 ==
    LET Create(d) == [x |-> U16(d[1] \gg 32) \cup {16}]
        Get(s) ==
            LET x1 == U32(Mul(32, Num(\hF98D), U16(s.x)) ++ (s.x \gg 16))
            IN  Gives([x |-> x1], x1)
    IN  Mixing("mwc16_32", 32, All(32, {"x"}), 0, Create, Get)

Mwc16x6 ==
    LET Create(d) == [k |-> U16(d[1]) \cup {16}, j |-> U16(d[1] \gg 16) \cup {16},
                      i |-> U16(d[1] \gg 32) \cup {16}, l |-> (d[1] \gg 48) \cup {16},
                      m |-> U16(d[2]) \cup {16}, n |-> U16(d[2] \gg 16) \cup {16}]
        Get(s) ==
            LET k1 == Mul(31, Num(\h78B7), U16(s.k)) ++ (s.k \gg 16)
                j1 == Mul(31, Num(\h4650), U16(s.j)) ++ (s.j \gg 16)
                i1 == Mul(31, Num(\h7155), U16(s.i)) ++ (s.i \gg 16)
                l1 == Mul(31, Num(\h7689), U16(s.l)) ++ (s.l \gg 16)
                m1 == Mul(31, Num(\h78B7), U16(s.m)) ++ (s.m \gg 16)
                n1 == Mul(31, Num(\h796B), U16(s.n)) ++ (s.n \gg 16)
            IN  Gives([k |-> k1, j |-> j1, i |-> i1, l |-> l1, m |-> m1, n |-> n1],
                      U32((U32(k1 ++ i1 ++ m1) \gg 16) ++ j1 ++ l1 ++ n1))
    IN  Mixing("mwc16x6", 32, All(32, {"k", "j", "i", "l", "m", "n"}), 0, Create, Get)

Mwc32x ==
    LET Create(d) ==
            LET i == FirstDraw(1, 1, LAMBDA j : ~(U32((d[j] \gg 32) \ll 1) = {}))
                data1 == U32((d[i] \gg 32) \ll 1)
            IN  [data |-> data1]
        Get(s) ==
            LET x == U16(s.data)
                c == s.data \gg 16
                data1 == U32(Mul(32, Num(\hF98D), x) ++ c)
                x1 == U16(data1)
                c1 == data1 \gg 16
            IN  Gives([data |-> U32(Mul(32, Num(\hF98D), x1) ++ c1)],
                      ((x \oplus c) \ll 16) \cup (x1 \oplus c1))
    IN  Mixing("mwc32x", 32, All(32, {"data"}), 0, Create, Get)

Mwc32xxa8 ==
    LET Create(d) ==
            LET x == d[1] \gg 32
            IN  [x0 |-> U8(x), x1 |-> U8(x \gg 8), x2 |-> U8(x \gg 16),
                 c |-> Cut(7, x \gg 24) \cup {0}]
        Get(s) ==
            LET t == Mul(16, Num(228), s.x2)
                t1 == U16(t ++ s.c)
                x21 == U8(t1)
                t2 == Mul(16, Num(228), x21)
                t3 == Mul(16, Num(228), s.x0)
                t4 == Mul(16, Num(228), s.x1)
                t5 == U16(t4 ++ (t1 \gg 8))
                t6 == U16(t3 ++ (t5 \gg 8))
                t7 == U16(t2 ++ (t6 \gg 8))
                x11 == U8(t6)
                x22 == U8(t5)
            IN  Gives([x0 |-> U8(t7), x1 |-> x11, x2 |-> x22, c |-> t7 \gg 8],
                      (((((({} \cup U8((s.x2 \oplus s.x1) ++ (s.x0
                      \oplus (t \gg 8)))) \ll 8) \cup U8((s.x1 \oplus s.x0) ++ (x21
                      \oplus (t4 \gg 8)))) \ll 8) \cup U8((s.x0 \oplus x21) ++ (x22
                      \oplus (t3 \gg 8)))) \ll 8) \cup U8((x21 \oplus x22) ++ (x11
                      \oplus (t2 \gg 8))))
    IN  Mixing("mwc32xxa8", 32, All(8, {"x0", "x1", "x2", "c"}), 6, Create, Get)

Mwc40xxa8 ==
    LET Create(d) ==
            LET x == d[1] \gg 32
            IN  [x0 |-> U8(x), x1 |-> U8(x \gg 8), x2 |-> U8(x \gg 16), x3 |-> x \gg 24,
                 c |-> {0}]
        Get(s) ==
            LET t == Mul(16, Num(227), s.x0)
                t1 == Mul(16, Num(227), s.x1)
                t2 == Mul(16, Num(227), s.x2)
                t3 == Mul(16, Num(227), s.x3)
                t4 == U16(t3 ++ s.c)
                t5 == U16(t2 ++ (t4 \gg 8))
                t6 == U16(t1 ++ (t5 \gg 8))
                t7 == U16(t ++ (t6 \gg 8))
                x11 == U8(t6)
                x21 == U8(t5)
                x31 == U8(t4)
            IN  Gives([x0 |-> U8(t7), x1 |-> x11, x2 |-> x21, x3 |-> x31, c |-> t7 \gg 8],
                      (((((({} \cup U8((s.x2 \oplus s.x1) ++ (s.x0
                      \oplus (t3 \gg 8)))) \ll 8) \cup U8((s.x1 \oplus s.x0) ++ (x31
                      \oplus (t2 \gg 8)))) \ll 8) \cup U8((s.x0 \oplus x31) ++ (x21
                      \oplus (t1 \gg 8)))) \ll 8) \cup U8((x31 \oplus x21) ++ (x11
                      \oplus (t \gg 8))))
    IN  Mixing("mwc40xxa8", 32, All(8, {"x0", "x1", "x2", "x3", "c"}), 6, Create, Get)

Mwc48xxa16 ==
    LET Create(d) ==
            LET x == d[1] \gg 32
            IN  [x0 |-> U16(x), x1 |-> x \gg 16, c |-> {0}]
        Get(s) ==
            LET t == Mul(32, Num(\hCD53), s.x0)
                t1 == Mul(32, Num(\hCD53), s.x1)
                t2 == U32(t1 ++ s.c)
                c1 == t2 \gg 16
                t3 == U32(t ++ c1)
                x11 == U16(t2)
            IN  Gives([x0 |-> U16(t3), x1 |-> x11, c |-> t3 \gg 16],
                      (({} \cup U16((s.x1 \oplus s.x0) ++ (s.c \oplus (t1 \gg 16)))) \ll 16)
                      \cup U16((s.x0 \oplus x11) ++ (c1 \oplus (t \gg 16))))
    IN  Mixing("mwc48xxa16", 32, All(16, {"x0", "x1", "c"}), 6, Create, Get)

Mwc64 ==
    LET Create(d) ==
            LET i == FirstDraw(1, 1, LAMBDA j : U64(d[j] \ll 1) # {})
                data1 == U64(d[i] \ll 1)
            IN  [data |-> data1]
        Get(s) ==
            LET x == U32(s.data)
            IN  Gives([data |-> U64(Mul(64, Hex2(\hFF67, \h6488), x) ++ (s.data \gg 32))],
                      x)
    IN  Mixing("mwc64", 32, All(64, {"data"}), 0, Create, Get)

Mwc642p58 ==
    LET Create(d) ==
            LET i == FirstDraw(1, 1, LAMBDA j : d[j] # {})
            IN  [x |-> d[i], c |-> d[i + 1] \gg 16]
        Get(s) ==
            LET t == U64((s.x \ll 58) ++ s.c)
                x1 == U64(s.x ++ t)
            IN  Gives([x |-> x1, c |-> (s.x \gg 6) ++ If(Less(x1, t), {0})], x1)
    IN  Mixing("mwc64_2p58", 64, All(64, {"x", "c"}), 0, Create, Get)

Mwc64k2a2 ==
    LET Create(d) == [x0 |-> d[1], x1 |-> d[2], c |-> Hex2(\h1234, \h5678)]
        Get(s) ==
            LET x == Mul(128, Hex4(\h2AE, \h390B, \h9274, \hF6D), s.x0) ++ s.c
                x2 == Mul(128, Hex4(\h6, \hFCCE, \h264F, \hCC37), s.x1)
                x3 == U64(x) ++ ((x \gg 64) \ll 64) ++ U64(x2)
            IN  Gives([x0 |-> U64(x3), x1 |-> s.x0,
                       c |-> U64((U128(x3) \gg 64) ++ (x2 \gg 64))], s.x0)
    IN  Mixing("mwc64k2a2", 64, All(64, {"x0", "x1", "c"}), 0, Create, Get)

Mwc64k3a3 ==
    LET Create(d) == [x0 |-> d[1], x1 |-> d[2], x2 |-> d[3], c |-> Hex2(\h1234, \h5678)]
        Get(s) ==
            LET x == Mul(128, Hex4(\h97, \h9F36, \h60CB, \hACA4), s.x0)
                x3 == U64(x) ++ ((x \gg 64) \ll 64) ++ s.c
                x4 == Mul(128, Hex4(\h31D, \hCB74, \hB965, \h10A8), s.x1)
                x5 == U64(x3) ++ ((U128(x3) \gg 64) \ll 64) ++ U64(x4)
                x6 == Mul(128, Hex(<<\h5194, \hD464, \h9DCD>>), s.x2)
                x7 == U64(x5) ++ (U64((U128(x5) \gg 64) ++ (x4 \gg 64)) \ll 64) ++ U64(x6)
            IN  Gives([x0 |-> U64(x7), x1 |-> s.x0, x2 |-> s.x1,
                       c |-> U64((U128(x7) \gg 64) ++ (x6 \gg 64))], s.x0)
    IN  Mixing("mwc64k3a3", 64, All(64, {"x0", "x1", "x2", "c"}), 0, Create, Get)

Mwc64k3a3eq ==
    LET Create(d) == [x0 |-> d[1], x1 |-> d[2], x2 |-> d[3], c |-> Hex2(\h1234, \h5678)]
        Get(s) ==
            LET x == s.x0 ++ ({} \ll 64) ++ s.x1
                x3 == U64(x) ++ ((U128(x) \gg 64) \ll 64) ++ s.x2
                x4 == Mul(128, Hex(<<\h1D49, \h5210, \h185C>>), U64(x3)) ++ s.c
            IN  Gives([x0 |-> U64(x4), x1 |-> s.x0, x2 |-> s.x1,
                       c |-> U64(Mul(64, Hex(<<\h1D49, \h5210, \h185C>>), U128(x3) \gg 64)
                             ++ (x4 \gg 64))], s.x0)
    IN  Mixing("mwc64k3a3eq", 64, All(64, {"x0", "x1", "x2", "c"}), 0, Create, Get)

Mwc64x ==
    LET Create(d) ==
            LET i == FirstDraw(1, 1, LAMBDA j : U64(d[j] \ll 1) # {})
                data1 == U64(d[i] \ll 1)
            IN  [data |-> data1]
        Get(s) ==
            LET x == U32(s.data)
                c == s.data \gg 32
            IN  Gives([data |-> U64(Mul(64, Hex2(\hFF67, \h6488), x) ++ c)], x \oplus c)
    IN  Mixing("mwc64x", 32, All(64, {"data"}), 0, Create, Get)

Mwc64xU31 ==
    LET Create(d) ==
            LET i == FirstDraw(1, 1, LAMBDA j : U64(d[j] \ll 1) # {})
                data1 == U64(d[i] \ll 1)
            IN  [data |-> data1]
        Get(s) ==
            LET x == U32(s.data)
                c == s.data \gg 32
            IN  Gives([data |-> U64(Mul(64, Hex2(\hFF67, \h6488), x) ++ c)],
                      U32((x \oplus c) \ll 1))
    IN  Mixing("mwc64x_u31", 32, All(64, {"data"}), 0, Create, Get)

Mwc128 ==
    LET Create(d) == [x |-> d[1], c |-> {0}]
        Get(s) ==
            LET x1 == Mul(128, Hex4(\hFFEB, \hB71D, \h94FC, \hDAF9), s.x) ++ s.c
                x2 == U64(x1)
            IN  Gives([x |-> x2, c |-> x1 \gg 64], x2)
    IN  Mixing("mwc128", 64, All(64, {"x", "c"}), 0, Create, Get)

Mwc128x ==
    LET Create(d) == [x |-> d[1], c |-> {0}]
        Get(s) ==
            LET x1 == Mul(128, Hex4(\hFFEB, \hB71D, \h94FC, \hDAF9), s.x) ++ s.c
                x2 == U64(x1)
                c1 == x1 \gg 64
            IN  Gives([x |-> x2, c |-> c1], x2 \oplus c1)
    IN  Mixing("mwc128x", 64, All(64, {"x", "c"}), 0, Create, Get)

Mwc128xxa32 ==
    LET Create(d) == [x0 |-> U32(d[1]), x1 |-> d[1] \gg 32, x2 |-> Hex2(\hCAFE, \hF00D),
                      c |-> Hex2(\hD15E, \hA5E5)]
        Get(s) ==
            LET t == Mul(64, Hex2(\hCFDB, \hC53D), s.x2)
                t1 == U64(t ++ s.c)
            IN  Gives([x0 |-> U32(t1), x1 |-> s.x0, x2 |-> s.x1, c |-> t1 \gg 32],
                      U32((s.x2 \oplus s.x1) ++ (s.x0 \oplus (t \gg 32))))
    IN  Mixing("mwc128xxa32", 32, All(32, {"x0", "x1", "x2", "c"}), 6, Create, Get)

Mwc192 ==
    LET Create(d) == [x |-> d[1], y |-> d[2], c |-> {0}]
        Get(s) ==
            LET x1 == Mul(128, Hex4(\hFFA0, \h4E67, \hB3C9, \h5D86), s.x) ++ s.c
            IN  Gives([x |-> s.y, y |-> U64(x1), c |-> x1 \gg 64], s.y)
    IN  Mixing("mwc192", 64, All(64, {"x", "y", "c"}), 0, Create, Get)

Mwc256 ==
    LET Create(d) == [x0 |-> d[1], x1 |-> d[2], x2 |-> d[3], c |-> {0}]
        Get(s) ==
            LET x == Mul(128, Hex4(\hFFF6, \h2CF2, \hCCC0, \hCDAF), s.x2) ++ s.c
            IN  Gives([x0 |-> U64(x), x1 |-> s.x0, x2 |-> s.x1, c |-> x \gg 64], s.x0)
    IN  Mixing("mwc256", 64, All(64, {"x0", "x1", "x2", "c"}), 0, Create, Get)

Mwc256xxa64 ==
    \* The order of the two calls is left to the compiler: gcc makes the last first.
    LET Create(d) == [x0 |-> d[2], x1 |-> d[1],
                      x2 |-> Hex4(\hCAFE, \hF00D, \hD15E, \hA5E5),
                      c |-> Hex4(\h1405, \h7B7E, \hF767, \h814F)]
        Get(s) ==
            LET x == Mul(128, Hex4(\hFEB3, \h4465, \h7C0A, \hF413), s.x2)
                t_hi == x \gg 64
                x3 == U64(x) ++ (t_hi \ll 64) ++ s.c
            IN  Gives([x0 |-> U64(x3), x1 |-> s.x0, x2 |-> s.x1, c |-> U128(x3) \gg 64],
                      U64((s.x2 \oplus s.x1) ++ (s.x0 \oplus t_hi)))
    IN  Mixing("mwc256xxa64", 64, All(64, {"x0", "x1", "x2", "c"}), 6, Create, Get)

Gmwc128 ==
    LET Create(d) == [x |-> d[1], c |-> {0}]
        Get(s) ==
            LET x1 == Mul(128, Hex4(\hFF00, \h2AAE, \h7D81, \hA646), s.x) ++ s.c
                t_lo == U64(x1)
                x2 == Mul(64, Hex4(\h9B1E, \hEA37, \h92A4, \h2C61), t_lo)
            IN  Gives([x |-> x2,
                       c |-> U64(((Mul(128, Hex4(\h7D, \h84A, \h4D80, \h885F), x2)
                             ++ t_lo) \gg 64) ++ (x1 \gg 64))], x2)
    IN  Mixing("gmwc128", 64, All(64, {"x", "c"}), 0, Create, Get)

Mall32 ==
    LET Create(d) == [x0 |-> U32(d[1]), x1 |-> d[1] \gg 32, x2 |-> U32(d[2]),
                      x3 |-> d[2] \gg 32, c |-> Num(\h3039)]
        Get(s) ==
            LET prod == U64(Mul(63, Hex2(\h7DD4, \hFFC7), s.x0) ++ Mul(43, Num(1492), s.x1)
                        ++ Mul(43, Num(1776), s.x2) ++ Mul(45, Num(5115), s.x3) ++ s.c)
                x31 == U32(prod)
            IN  Gives([x0 |-> s.x1, x1 |-> s.x2, x2 |-> s.x3, x3 |-> x31,
                       c |-> prod \gg 32], x31)
    IN  Mixing("mall32", 32, All(32, {"x0", "x1", "x2", "x3", "c"}), 0, Create, Get)

Mall64 ==
    LET Create(d) == [x0 |-> d[1], x1 |-> d[2], x2 |-> d[3], x3 |-> d[4],
                      c |-> Hex2(\h4996, \h2D2)]
        Get(s) ==
            LET x == Mul(128, Hex4(\hF9CF, \h4CD1, \h2CD1, \h8FED), s.x0)
                x4 == U64(x) ++ ((x \gg 64) \ll 64) ++ s.c
                x5 == Mul(128, Hex(<<\h1, \h9BAF, \hFBED>>), s.x1)
                x6 == U64(x4) ++ ((U128(x4) \gg 64) \ll 64) ++ U64(x5)
                x7 == Mul(128, Hex2(\hAF, \h92B), s.x2)
                x8 == U64(x6) ++ (U64((U128(x6) \gg 64) ++ (x5 \gg 64)) \ll 64) ++ U64(x7)
                x9 == Mul(128, Hex(<<\h2, \h18BE, \hC502>>), s.x3)
                x10 == U64(x8) ++ (U64((U128(x8) \gg 64) ++ (x7 \gg 64)) \ll 64) ++ U64(x9)
                x31 == U64(x10)
            IN  Gives([x0 |-> s.x1, x1 |-> s.x2, x2 |-> s.x3, x3 |-> x31,
                       c |-> U64((U128(x10) \gg 64) ++ (x9 \gg 64))], x31)
    IN  Mixing("mall64", 64, All(64, {"x0", "x1", "x2", "x3", "c"}), 0, Create, Get)

Rwc32 ==
    LET Create(d) == [x |-> d[1] \gg 32, y |-> d[2] \gg 32, z |-> d[3] \gg 32, c |-> {0}]
        Get(s) ==
            LET new == U64(Mul(64, Hex2(\h423A, \h3728), s.y ++ s.z) ++ s.c)
                x1 == U32(new)
            IN  Gives([x |-> x1, y |-> s.x, z |-> s.y, c |-> new \gg 32], x1)
    IN  Mixing("rwc32", 32, All(32, {"x", "y", "z", "c"}), 0, Create, Get)

Rwc32sm ==
    LET Create(d) == [x |-> d[1] \gg 32, y |-> d[2] \gg 32, c |-> {0}]
        Get(s) ==
            LET new == U64(Mul(64, Hex2(\h423A, \h3728), s.x ++ s.y) ++ s.c)
                x1 == U32(new)
            IN  Gives([x |-> x1, y |-> s.x, c |-> new \gg 32], x1)
    IN  Mixing("rwc32sm", 32, All(32, {"x", "y", "c"}), 0, Create, Get)

Rwc32u48 ==
    LET Create(d) == [x |-> d[1] \gg 32, y |-> d[2] \gg 32, z |-> d[3] \gg 32, c |-> {0}]
        Get(s) ==
            LET new == Mul(48, Num(\h72CA), s.y ++ s.z) ++ s.c
                x1 == U32(new)
            IN  Gives([x |-> x1, y |-> s.x, z |-> s.y, c |-> new \gg 32], x1)
    IN  Mixing("rwc32u48", 32, All(32, {"x", "y", "z", "c"}), 0, Create, Get)

Smwc24 ==
    LET Next(s) ==
            LET mul == Mul(14, Num(45), s.x) ++ s.c
            IN  Gives([x |-> U8(mul), x2 |-> s.x, c |-> mul \gg 8],
                      U8(Mul(16, Num(137), s.x) \oplus ((s.x2 \ll 5) \cup (s.x2 \gg 3))))
        Create(d) == [x |-> U8(d[1] \gg 32), x2 |-> U8(d[2] \gg 32), c |-> {0}]
        Get(s) == Bytes(Next, s)
    IN  Mixing("smwc24", 32, All(8, {"x", "x2", "c"}), 0, Create, Get)

Smwc48 ==
    LET Create(d) == [x |-> U16(d[1] \gg 32), x2 |-> U16(d[2] \gg 32), c |-> {0}]
        Get(s) ==
            LET mul == U32(Mul(32, Num(\hFEFA), s.x) ++ s.c)
                x21 == U16(mul)
                mul1 == U32(Mul(32, Num(\hFEFA), x21) ++ (mul \gg 16))
            IN  Gives([x |-> U16(mul1), x2 |-> x21, c |-> mul1 \gg 16],
                      (U16(Mul(32, Num(\hF36D), s.x) \oplus ((s.x2 \ll 5)
                      \cup (s.x2 \gg 11))) \ll 16) \cup U16(Mul(32, Num(\hF36D), x21)
                      \oplus ((s.x \ll 5) \cup (s.x \gg 11))))
    IN  Mixing("smwc48", 32, All(16, {"x", "x2", "c"}), 0, Create, Get)

Smwc48lux ==
    LET Create(d) == [x |-> U16(d[1] \gg 32), x2 |-> U16(d[2] \gg 32), c |-> {0}]
        Get(s) ==
            LET mul == U32(Mul(32, Num(\hFEFA), s.x) ++ s.c)
                mul1 == U32(Mul(32, Num(\hFEFA), U16(mul)) ++ (mul \gg 16))
                x21 == U16(mul1)
                mul2 == U32(Mul(32, Num(\hFEFA), x21) ++ (mul1 \gg 16))
                x22 == U16(mul2)
                mul3 == U32(Mul(32, Num(\hFEFA), x22) ++ (mul2 \gg 16))
                mul4 == U32(Mul(32, Num(\hFEFA), U16(mul3)) ++ (mul3 \gg 16))
                x23 == U16(mul4)
                mul5 == U32(Mul(32, Num(\hFEFA), x23) ++ (mul4 \gg 16))
            IN  Gives([x |-> U16(mul5), x2 |-> x23, c |-> mul5 \gg 16],
                      (U16(Mul(32, Num(\hF36D), s.x) \oplus Rotl(16, s.x2, 5)) \ll 16)
                      \cup U16(Mul(32, Num(\hF36D), x22) \oplus Rotl(16, x21, 5)))
    IN  Mixing("smwc48lux", 32, All(16, {"x", "x2", "c"}), 0, Create, Get)

Smwc96 ==
    LET Create(d) == [x |-> d[1] \gg 32, x2 |-> d[2] \gg 32, c |-> {0}]
        Get(s) ==
            LET mul == Mul(43, Num(1353), s.x) ++ s.c
            IN  Gives([x |-> U32(mul), x2 |-> s.x, c |-> mul \gg 32],
                      Mul(32, Hex2(\h5D58, \h8B65), s.x) \oplus Rotl(32, s.x2, 14))
    IN  Mixing("smwc96", 32, All(32, {"x", "x2", "c"}), 0, Create, Get)

MwcNext ==
    \/ Mwc1616 \/ Mwc1616p \/ Mwc1616x \/ Mwc3232x \/ Mwc1632 \/ Mwc16x6 \/ Mwc32x
    \/ Mwc32xxa8 \/ Mwc40xxa8 \/ Mwc48xxa16 \/ Mwc64 \/ Mwc642p58 \/ Mwc64k2a2
    \/ Mwc64k3a3 \/ Mwc64k3a3eq \/ Mwc64x \/ Mwc64xU31 \/ Mwc128 \/ Mwc128x
    \/ Mwc128xxa32 \/ Mwc192 \/ Mwc256 \/ Mwc256xxa64 \/ Gmwc128 \/ Mall32
    \/ Mall64 \/ Rwc32 \/ Rwc32sm \/ Rwc32u48 \/ Smwc24 \/ Smwc48 \/ Smwc48lux
    \/ Smwc96

=============================================================================
