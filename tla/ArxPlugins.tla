----------------------------- MODULE ArxPlugins ------------------------------
(***************************************************************************)
(* Plugins that add, rotate and xor: small chaotic generators, most of them *)
(* with a counter in the state.                                            *)
(***************************************************************************)
EXTENDS PluginIntf

\* Sfc16 with an output that stays an int, to which the sum was promoted.
Sfc16Promoted ==
    LET Create(d) == [a |-> {}, b |-> U16(d[1]), c |-> U16(d[1] \gg 32), counter |-> {0}]
        Get(s) ==
            LET b1 == U16(s.c ++ (s.c \ll 3))
                out == s.a ++ s.b ++ s.counter
                c1 == U16(((s.c \ll 6) \cup (s.c \gg 10)) ++ out)
                counter1 == U16(Inc(s.counter))
                tmp == U16((s.b \oplus (s.b \gg 5)) ++ b1 ++ counter1)
            IN  Gives([a |-> b1 \oplus (b1 \gg 5), b |-> U16(c1 ++ (c1 \ll 3)),
                       c |-> U16(((c1 \ll 6) \cup (c1 \gg 10)) ++ tmp),
                       counter |-> U16(Inc(counter1))], (out \ll 16) \cup tmp)
    IN  Mixing("sfc16", 32, All(16, {"a", "b", "c", "counter"}), 12, Create, Get)

Ara32 ==
    LET Create(d) == [a |-> d[1] \gg 32, b |-> d[2] \gg 32, c |-> (d[3] \gg 32) \cup {0}]
        Get(s) ==
            LET a1 == U32(s.a ++ Rotl(32, U32(s.b ++ s.c), 7))
                b1 == U32(s.b ++ Rotl(32, U32(s.c ++ a1), 11))
            IN  Gives([a |-> a1, b |-> b1, c |-> U32(s.c ++ Rotl(32, U32(a1 ++ b1), 15))],
                      a1)
    IN  Mixing("ara32", 32, All(32, {"a", "b", "c"}), 0, Create, Get)

Ara64 ==
    LET Create(d) == [a |-> d[1], b |-> d[2], c |-> d[3] \cup {0}]
        Get(s) ==
            LET a1 == U64(s.a ++ Rotl(64, U64(s.b ++ s.c), 13))
                b1 == U64(s.b ++ Rotl(64, U64(s.c ++ a1), 23))
            IN  Gives([a |-> a1, b |-> b1, c |-> U64(s.c ++ Rotl(64, U64(a1 ++ b1), 31))],
                      a1)
    IN  Mixing("ara64", 64, All(64, {"a", "b", "c"}), 0, Create, Get)

Arx32 ==
    LET Create(d) == [a |-> d[1] \gg 32, b |-> d[2] \gg 32, c |-> (d[3] \gg 32) \cup {0}]
        Get(s) ==
            LET a1 == s.a \oplus Rotl(32, U32(s.b ++ s.c), 7)
                b1 == s.b \oplus Rotl(32, U32(s.c ++ a1), 11)
            IN  Gives([a |-> a1, b |-> b1, c |-> s.c \oplus Rotl(32, U32(a1 ++ b1), 15)],
                      a1)
    IN  Mixing("arx32", 32, All(32, {"a", "b", "c"}), 0, Create, Get)

Arx64 ==
    LET Create(d) == [a |-> d[1], b |-> d[2], c |-> d[3] \cup {0}]
        Get(s) ==
            LET a1 == s.a \oplus Rotl(64, U64(s.b ++ s.c), 13)
                b1 == s.b \oplus Rotl(64, U64(s.c ++ a1), 23)
            IN  Gives([a |-> a1, b |-> b1, c |-> s.c \oplus Rotl(64, U64(a1 ++ b1), 31)],
                      a1)
    IN  Mixing("arx64", 64, All(64, {"a", "b", "c"}), 0, Create, Get)

Arxfw8 ==
    LET Create(d) == [a |-> U8(d[1]), b |-> U8(d[1] \gg 16), w |-> U8(d[1] \gg 32)]
        Get(s) ==
            LET b1 == U8(s.b ++ s.w)
                b2 == U8(s.a ++ (Rotl(8, b1, 1) \oplus Rotl(8, b1, 4) \oplus b1))
                w1 == U8(s.w ++ Num(157))
                b3 == U8(b2 ++ w1)
                a1 == U8(b1 \oplus (Rotl(8, b2, 7) ++ Rotl(8, b2, 4) ++ b2))
                b4 == U8(a1 ++ (Rotl(8, b3, 1) \oplus Rotl(8, b3, 4) \oplus b3))
                a2 == U8(b3 \oplus (Rotl(8, b4, 7) ++ Rotl(8, b4, 4) ++ b4))
                w2 == U8(w1 ++ Num(157))
                b5 == U8(b4 ++ w2)
                b6 == U8(a2 ++ (Rotl(8, b5, 1) \oplus Rotl(8, b5, 4) \oplus b5))
                w3 == U8(w2 ++ Num(157))
                b7 == U8(b6 ++ w3)
                a3 == U8(b5 \oplus (Rotl(8, b6, 7) ++ Rotl(8, b6, 4) ++ b6))
                b8 == U8(a3 ++ (Rotl(8, b7, 1) \oplus Rotl(8, b7, 4) \oplus b7))
                a4 == U8(b7 \oplus (Rotl(8, b8, 7) ++ Rotl(8, b8, 4) ++ b8))
            IN  Gives([a |-> a4, b |-> b8, w |-> U8(w3 ++ Num(157))],
                      (a1 \oplus b2) \cup ((a2 \oplus b4) \ll 8) \cup ((a3
                      \oplus b6) \ll 16) \cup ((a4 \oplus b8) \ll 24))
    IN  Mixing("arxfw8", 32, All(8, {"a", "b", "w"}), 8, Create, Get)

Arxfw8ex ==
    LET Create(d) == [a |-> U8(d[1]), b |-> U8(d[1] \gg 16), w |-> U16(d[1] \gg 32)]
        Get(s) ==
            LET b1 == U8(s.b ++ s.w)
                b2 == U8(s.a ++ (Rotl(8, b1, 1) \oplus Rotl(8, b1, 4) \oplus b1))
                      \oplus (s.w \gg 8)
                w1 == U16(s.w ++ Num(157))
                b3 == U8(b2 ++ w1)
                a1 == U8(b1 \oplus (Rotl(8, b2, 7) ++ Rotl(8, b2, 4) ++ b2))
                b4 == U8(a1 ++ (Rotl(8, b3, 1) \oplus Rotl(8, b3, 4) \oplus b3))
                      \oplus (w1 \gg 8)
                a2 == U8(b3 \oplus (Rotl(8, b4, 7) ++ Rotl(8, b4, 4) ++ b4))
                w2 == U16(w1 ++ Num(157))
                b5 == U8(b4 ++ w2)
                b6 == U8(a2 ++ (Rotl(8, b5, 1) \oplus Rotl(8, b5, 4) \oplus b5))
                      \oplus (w2 \gg 8)
                w3 == U16(w2 ++ Num(157))
                b7 == U8(b6 ++ w3)
                a3 == U8(b5 \oplus (Rotl(8, b6, 7) ++ Rotl(8, b6, 4) ++ b6))
                b8 == U8(a3 ++ (Rotl(8, b7, 1) \oplus Rotl(8, b7, 4) \oplus b7))
                      \oplus (w3 \gg 8)
                a4 == U8(b7 \oplus (Rotl(8, b8, 7) ++ Rotl(8, b8, 4) ++ b8))
            IN  Gives([a |-> a4, b |-> b8, w |-> U16(w3 ++ Num(157))],
                      (a1 \oplus b2) \cup ((a2 \oplus b4) \ll 8) \cup ((a3
                      \oplus b6) \ll 16) \cup ((a4 \oplus b8) \ll 24))
    IN  Mixing("arxfw8ex", 32, [a |-> 8, b |-> 8, w |-> 16], 8, Create, Get)

Arxfw8ex2 ==
    LET Create(d) == [a |-> U8(d[1]), b |-> U8(d[1] \gg 8), xs0 |-> U8(d[1] \gg 16),
                      xs1 |-> U8(d[1] \gg 24), xs2 |-> U8(d[1] \gg 32),
                      xs3 |-> U8(d[1] \gg 40) \cup {0}]
        Get(s) ==
            LET t == s.xs0 \oplus (s.xs0 \gg 1)
                xs01 == U8(s.xs3 \oplus t \oplus (s.xs3 \gg 3) \oplus (t \ll 1))
                a1 == U8(s.b ++ xs01)
                b1 == U8(s.a ++ (Rotl(8, a1, 1) \oplus Rotl(8, a1, 4) \oplus a1))
                t1 == s.xs1 \oplus (s.xs1 \gg 1)
                xs11 == U8(xs01 \oplus t1 \oplus (xs01 \gg 3) \oplus (t1 \ll 1))
                a2 == U8(b1 ++ xs11)
                b2 == U8(a1 ++ (Rotl(8, a2, 1) \oplus Rotl(8, a2, 4) \oplus a2))
                t2 == s.xs2 \oplus (s.xs2 \gg 1)
                xs21 == U8(xs11 \oplus t2 \oplus (xs11 \gg 3) \oplus (t2 \ll 1))
                a3 == U8(b2 ++ xs21)
                b3 == U8(a2 ++ (Rotl(8, a3, 1) \oplus Rotl(8, a3, 4) \oplus a3))
                t3 == s.xs3 \oplus (s.xs3 \gg 1)
                xs31 == U8(xs21 \oplus t3 \oplus (xs21 \gg 3) \oplus (t3 \ll 1))
                a4 == U8(b3 ++ xs31)
                b4 == U8(a3 ++ (Rotl(8, a4, 1) \oplus Rotl(8, a4, 4) \oplus a4))
            IN  Gives([a |-> a4, b |-> b4, xs0 |-> xs01, xs1 |-> xs11, xs2 |-> xs21,
                       xs3 |-> xs31],
                      (a1 \oplus b1) \cup ((a2 \oplus b2) \ll 8) \cup ((a3
                      \oplus b3) \ll 16) \cup ((a4 \oplus b4) \ll 24))
    IN  Mixing("arxfw8ex2", 32,
               All(8, {"a", "b", "xs0", "xs1", "xs2", "xs3"}), 8, Create, Get)

Arxfw8ex3 ==
    LET Create(d) == [a |-> U8(d[1]), b |-> U8(d[1] \gg 8), xs0 |-> U8(d[1] \gg 16),
                      xs1 |-> U8(d[1] \gg 24), xs2 |-> U8(d[1] \gg 32),
                      xs3 |-> U8(d[1] \gg 40) \cup {0}, w |-> U8(d[1] \gg 48)]
        Get(s) ==
            LET t == s.xs0 \oplus (s.xs0 \gg 1)
                xs01 == U8(s.xs3 \oplus t \oplus (s.xs3 \gg 3) \oplus (t \ll 1))
                w1 == U8(s.w ++ Num(151))
                a1 == U8(s.b ++ xs01 ++ w1)
                b1 == U8(s.a ++ (Rotl(8, a1, 1) \oplus Rotl(8, a1, 4) \oplus a1))
                t1 == s.xs1 \oplus (s.xs1 \gg 1)
                xs11 == U8(xs01 \oplus t1 \oplus (xs01 \gg 3) \oplus (t1 \ll 1))
                w2 == U8(w1 ++ Num(151))
                a2 == U8(b1 ++ xs11 ++ w2)
                b2 == U8(a1 ++ (Rotl(8, a2, 1) \oplus Rotl(8, a2, 4) \oplus a2))
                t2 == s.xs2 \oplus (s.xs2 \gg 1)
                xs21 == U8(xs11 \oplus t2 \oplus (xs11 \gg 3) \oplus (t2 \ll 1))
                w3 == U8(w2 ++ Num(151))
                a3 == U8(b2 ++ xs21 ++ w3)
                b3 == U8(a2 ++ (Rotl(8, a3, 1) \oplus Rotl(8, a3, 4) \oplus a3))
                t3 == s.xs3 \oplus (s.xs3 \gg 1)
                xs31 == U8(xs21 \oplus t3 \oplus (xs21 \gg 3) \oplus (t3 \ll 1))
                w4 == U8(w3 ++ Num(151))
                a4 == U8(b3 ++ xs31 ++ w4)
                b4 == U8(a3 ++ (Rotl(8, a4, 1) \oplus Rotl(8, a4, 4) \oplus a4))
            IN  Gives([a |-> a4, b |-> b4, xs0 |-> xs01, xs1 |-> xs11, xs2 |-> xs21,
                       xs3 |-> xs31, w |-> w4],
                      (a1 \oplus b1) \cup ((a2 \oplus b2) \ll 8) \cup ((a3
                      \oplus b3) \ll 16) \cup ((a4 \oplus b4) \ll 24))
    IN  Mixing("arxfw8ex3", 32,
               All(8, {"a", "b", "xs0", "xs1", "xs2", "xs3", "w"}), 8, Create, Get)

Arxfw16 ==
    LET Create(d) == [a |-> U16(d[1]), b |-> U16(d[1] \gg 16), w |-> U16(d[1] \gg 32)]
        Get(s) ==
            LET b1 == U16(s.b ++ s.w)
                b2 == U16(s.a ++ (Rotl(16, b1, 3) \oplus Rotl(16, b1, 8) \oplus b1))
                w1 == U16(s.w ++ Num(\h9E37))
                b3 == U16(b2 ++ w1)
                a1 == U16(b1 \oplus (Rotl(16, b2, 15) ++ Rotl(16, b2, 8) ++ b2))
                b4 == U16(a1 ++ (Rotl(16, b3, 3) \oplus Rotl(16, b3, 8) \oplus b3))
                a2 == U16(b3 \oplus (Rotl(16, b4, 15) ++ Rotl(16, b4, 8) ++ b4))
            IN  Gives([a |-> a2, b |-> b4, w |-> U16(w1 ++ Num(\h9E37))],
                      (a1 \oplus b2) \cup ((a2 \oplus b4) \ll 16))
    IN  Mixing("arxfw16", 32, All(16, {"a", "b", "w"}), 8, Create, Get)

Arxfw16ex2 ==
    LET Create(d) == [a |-> U16(d[1]), b |-> U16(d[1] \gg 16), xs0 |-> U16(d[1] \gg 32),
                      xs1 |-> (d[1] \gg 48) \cup {0}, w |-> {}]
        Get(s) ==
            LET t == U16(s.xs0 \oplus (s.xs0 \ll 1))
                xs01 == s.xs1 \oplus (s.xs1 \gg 7) \oplus t \oplus (t \gg 1)
                w1 == U16(s.w ++ Num(\h9E39))
                a1 == U16(s.b ++ xs01 ++ w1)
                b1 == U16(s.a ++ (Rotl(16, a1, 3) \oplus Rotl(16, a1, 8) \oplus a1))
                t1 == U16(s.xs1 \oplus (s.xs1 \ll 1))
                xs11 == xs01 \oplus (xs01 \gg 7) \oplus t1 \oplus (t1 \gg 1)
                w2 == U16(w1 ++ Num(\h9E39))
                a2 == U16(b1 ++ xs11 ++ w2)
                b2 == U16(a1 ++ (Rotl(16, a2, 3) \oplus Rotl(16, a2, 8) \oplus a2))
            IN  Gives([a |-> a2, b |-> b2, xs0 |-> xs01, xs1 |-> xs11, w |-> w2],
                      (a1 \oplus b1) \cup ((a2 \oplus b2) \ll 16))
    IN  Mixing("arxfw16ex2", 32, All(16, {"a", "b", "xs0", "xs1", "w"}), 8, Create, Get)

Arxfw32 ==
    LET Create(d) == [a |-> d[1] \gg 32, b |-> d[2] \gg 32, w |-> d[3] \gg 32]
        Get(s) ==
            LET b1 == U32(s.b ++ s.w)
                b2 == U32(s.a ++ (Rotl(32, b1, 7) \oplus Rotl(32, b1, 16) \oplus b1))
            IN  Gives([a |-> U32(b1 \oplus (Rotl(32, b2, 13) ++ Rotl(32, b2, 16) ++ b2)),
                       b |-> b2, w |-> U32(Inc(s.w))], s.a \oplus s.b)
    IN  Counted("arxfw32", 32, All(32, {"a", "b", "w"}), "w", 8, Create, Get)

Arxfw64 ==
    LET Create(d) == [a |-> d[1], b |-> d[2], w |-> d[3]]
        Get(s) ==
            LET b1 == U64(s.b ++ s.w)
                b2 == U64(s.a ++ (Rotl(64, b1, 13) \oplus Rotl(64, b1, 32) \oplus b1))
            IN  Gives([a |-> U64(b1 \oplus (Rotl(64, b2, 57) ++ Rotl(64, b2, 32) ++ b2)),
                       b |-> b2, w |-> U64(Inc(s.w))], s.a \oplus s.b)
    IN  Counted("arxfw64", 64, All(64, {"a", "b", "w"}), "w", 8, Create, Get)

Chip8 ==
    LET Create(d) == [a |-> U8(d[1] \gg 24), b |-> U8(d[1] \gg 16), c |-> U8(d[1] \gg 8),
                      d |-> U8(d[1])]
        Get(s) ==
            LET d1 == U8(s.d ++ Num(157))
                d2 == U8(d1 ++ Num(157))
                b1 == s.d \oplus s.a
                c1 == Rotl(8, s.b, 2)
                a1 == U8(b1 ++ c1)
                b2 == d2 \oplus a1
                a2 == U8(s.b ++ s.c)
                b3 == d1 \oplus a2
                c2 == Rotl(8, b3, 2)
                d3 == U8(d2 ++ Num(157))
                c3 == Rotl(8, b1, 2)
                a3 == U8(b3 ++ c3)
            IN  Gives([a |-> U8(b2 ++ c2), b |-> d3 \oplus a3, c |-> Rotl(8, b2, 2),
                       d |-> U8(d3 ++ Num(157))],
                      (((((({} \cup U8(Rotl(8, s.a, 2) \oplus (Rotl(8, s.b, 7)
                      ++ s.c))) \ll 8) \cup U8(Rotl(8, a2, 2) \oplus (Rotl(8, b1, 7)
                      ++ c1))) \ll 8) \cup U8(Rotl(8, a1, 2) \oplus (Rotl(8, b3, 7)
                      ++ c3))) \ll 8) \cup U8(Rotl(8, a3, 2) \oplus (Rotl(8, b2, 7) ++ c2)))
    IN  Mixing("chip8", 32, All(8, {"a", "b", "c", "d"}), 32, Create, Get)

Chip32 ==
    LET Create(d) == [a |-> d[1] \gg 32, b |-> d[2] \gg 32, c |-> d[3] \gg 32,
                      d |-> d[4] \gg 32]
        Get(s) == Gives([a |-> U32(s.b ++ s.c), b |-> s.d \oplus s.a,
                         c |-> Rotl(32, s.b, 11), d |-> U32(s.d ++ Hex2(\h9E37, \h79B9))],
                        U32(Rotl(32, s.a, 14) \oplus (Rotl(32, s.b, 23) ++ s.c)))
    IN  Counted("chip32", 32, All(32, {"a", "b", "c", "d"}), "d", 32, Create, Get)

Chip64 ==
    LET Create(d) == [a |-> d[1], b |-> d[2], c |-> d[3], d |-> d[4]]
        Get(s) == Gives([a |-> U64(s.b ++ s.c), b |-> s.d \oplus s.a,
                         c |-> Rotl(64, s.b, 37),
                         d |-> U64(s.d ++ Hex4(\h9E37, \h79B9, \h7F4A, \h7C15))],
                        U64(Rotl(64, s.a, 28) \oplus (Rotl(64, s.b, 7) ++ s.c)))
    IN  Counted("chip64", 64, All(64, {"a", "b", "c", "d"}), "d", 0, Create, Get)

Sfc8 ==
    LET Create(d) == [a |-> {}, b |-> U8(d[1]), c |-> U8(d[1] \gg 32), counter |-> {0}]
        Get(s) ==
            LET out == U8(s.a ++ s.b ++ s.counter)
                c1 == U8(Rotl(8, s.c, 3) ++ out)
                b1 == U8(s.c ++ (s.c \ll 1))
                counter1 == U8(Inc(s.counter))
                tmp == U8((s.b \oplus (s.b \gg 2)) ++ b1 ++ counter1)
                c2 == U8(Rotl(8, c1, 3) ++ tmp)
                b2 == U8(c2 ++ (c2 \ll 1))
                b3 == U8(c1 ++ (c1 \ll 1))
                counter2 == U8(Inc(counter1))
                tmp1 == U8((b1 \oplus (b1 \gg 2)) ++ b3 ++ counter2)
                c3 == U8(Rotl(8, c2, 3) ++ tmp1)
                counter3 == U8(Inc(counter2))
                tmp2 == U8((b3 \oplus (b3 \gg 2)) ++ b2 ++ counter3)
            IN  Gives([a |-> b2 \oplus (b2 \gg 2), b |-> U8(c3 ++ (c3 \ll 1)),
                       c |-> U8(Rotl(8, c3, 3) ++ tmp2), counter |-> U8(Inc(counter3))],
                      (((((out \ll 8) \cup tmp) \ll 8) \cup tmp1) \ll 8) \cup tmp2)
    IN  Mixing("sfc8", 32, All(8, {"a", "b", "c", "counter"}), 12, Create, Get)

Sfc16 ==
    LET Create(d) == [a |-> {}, b |-> U16(d[1]), c |-> U16(d[1] \gg 32), counter |-> {0}]
        Get(s) ==
            LET b1 == U16(s.c ++ (s.c \ll 3))
                out == U16(s.a ++ s.b ++ s.counter)
                c1 == U16(((s.c \ll 6) \cup (s.c \gg 10)) ++ out)
                counter1 == U16(Inc(s.counter))
                tmp == U16((s.b \oplus (s.b \gg 5)) ++ b1 ++ counter1)
            IN  Gives([a |-> b1 \oplus (b1 \gg 5), b |-> U16(c1 ++ (c1 \ll 3)),
                       c |-> U16(((c1 \ll 6) \cup (c1 \gg 10)) ++ tmp),
                       counter |-> U16(Inc(counter1))], (out \ll 16) \cup tmp)
    IN  Mixing("sfc16", 32, All(16, {"a", "b", "c", "counter"}), 12, Create, Get)

Sfc32 ==
    LET Create(d) == [a |-> {}, b |-> U32(d[1]), c |-> d[1] \gg 32, counter |-> {0}]
        Get(s) ==
            LET tmp == U32(s.a ++ s.b ++ s.counter)
            IN  Gives([a |-> s.b \oplus (s.b \gg 9), b |-> U32(s.c ++ (s.c \ll 3)),
                       c |-> U32(Rotl(32, s.c, 21) ++ tmp),
                       counter |-> U32(Inc(s.counter))], tmp)
    IN  Counted("sfc32", 32,
                All(32, {"a", "b", "c", "counter"}), "counter", 12, Create, Get)

Sfc64 ==
    LET Create(d) == [a |-> d[1], b |-> d[1], c |-> d[1], counter |-> {0}]
        Get(s) ==
            LET tmp == U64(s.a ++ s.b ++ s.counter)
            IN  Gives([a |-> s.b \oplus (s.b \gg 11), b |-> U64(s.c ++ (s.c \ll 3)),
                       c |-> U64(Rotl(64, s.c, 24) ++ tmp),
                       counter |-> U64(Inc(s.counter))], tmp)
    IN  Counted("sfc64", 64,
                All(64, {"a", "b", "c", "counter"}), "counter", 16, Create, Get)

Tylo64 ==
    LET Create(d) == [a |-> d[1], b |-> d[2], counter |-> {1}]
        Get(s) ==
            LET out == s.a \oplus s.counter
            IN  Gives([a |-> U64((s.b ++ (s.b \ll 3)) \oplus (s.b \gg 11)),
                       b |-> U64(Rotl(64, s.b, 24) ++ out),
                       counter |-> U64(Inc(s.counter))], out)
    IN  Counted("tylo64", 64, All(64, {"a", "b", "counter"}), "counter", 64, Create, Get)

Flea32x1 ==
    LET Create(d) == [a |-> U32(d[1]), b |-> d[1] \gg 32, c |-> U32(d[2]),
                      d |-> d[2] \gg 32]
        Get(s) ==
            LET a1 == Rotl(32, s.b, 15)
                c1 == U32(s.d ++ a1)
            IN  Gives([a |-> a1, b |-> U32(s.c ++ Rotl(32, s.d, 27)), c |-> c1,
                       d |-> U32(s.a ++ c1)], c1)
    IN  Mixing("flea32x1", 32, All(32, {"a", "b", "c", "d"}), 0, Create, Get)

Ranval ==
    LET Create(d) ==
            LET b1 == d[1] \gg 32
            IN  [a |-> Hex2(\hF1EA, \h5EED), b |-> b1, c |-> b1, d |-> b1]
        Get(s) ==
            LET a1 == s.b \oplus Rotl(32, s.c, 16)
                e == Minus(32, s.a, Rotl(32, s.b, 23))
                d1 == U32(e ++ a1)
            IN  Gives([a |-> a1, b |-> U32(s.c ++ Rotl(32, s.d, 11)), c |-> U32(s.d ++ e),
                       d |-> d1], d1)
    IN  Mixing("ranval", 32, All(32, {"a", "b", "c", "d"}), 32, Create, Get)

Ranval64 ==
    LET Create(d) == [a |-> Hex2(\hF1EA, \h5EED), b |-> d[1], c |-> d[1], d |-> d[1]]
        Get(s) ==
            LET a1 == s.b \oplus Rotl(64, s.c, 13)
                e == Minus(64, s.a, Rotl(64, s.b, 7))
                d1 == U64(e ++ a1)
            IN  Gives([a |-> a1, b |-> U64(s.c ++ Rotl(64, s.d, 37)), c |-> U64(s.d ++ e),
                       d |-> d1], d1)
    IN  Mixing("ranval64", 64, All(64, {"a", "b", "c", "d"}), 20, Create, Get)

Gjrand8 ==
    LET Next(s) ==
            LET b1 == U8(s.b ++ s.c)
                a1 == U8(Rotl(8, s.a, 4) ++ b1)
                c1 == Rotl(8, s.c \oplus b1, 2)
                a2 == U8(a1 ++ c1)
                d1 == U8(s.d ++ Num(53))
            IN  Gives([a |-> a2, b |-> U8(Rotl(8, b1 \oplus a1, 5) ++ d1),
                       c |-> U8(c1 ++ a2), d |-> d1], a2)
        Create(d) == After(14, StepOn({"a", "b", "c", "d"}, Next), [a |-> U8(d[1]), b |-> {}, c |-> Num(201), d |-> {}])
        Get(s) == Bytes(Next, s)
    IN  Mixing("gjrand8", 32, All(8, {"a", "b", "c", "d"}), 0, Create, Get)

Gjrand16 ==
    LET Next(s) ==
            LET b1 == U16(s.b ++ s.c)
                a1 == U16(Rotl(16, s.a, 8) ++ b1)
                c1 == Rotl(16, s.c \oplus b1, 5)
                a2 == U16(a1 ++ c1)
                d1 == U16(s.d ++ Num(\h96A5))
            IN  Gives([a |-> a2, b |-> U16(Rotl(16, b1 \oplus a1, 10) ++ d1),
                       c |-> U16(c1 ++ a2), d |-> d1], a2)
        Create(d) == After(14, StepOn({"a", "b", "c", "d"}, Next), [a |-> U16(d[1]), b |-> {}, c |-> Num(2001), d |-> {}])
        Get(s) == Halves(Next, s)
    IN  Mixing("gjrand16", 32, All(16, {"a", "b", "c", "d"}), 0, Create, Get)

Gjrand32 ==
    LET Create(d) == [a |-> d[1] \gg 32, b |-> {}, c |-> Hex2(\h1E, \h8481), d |-> {}]
        Get(s) ==
            LET b1 == U32(s.b ++ s.c)
                a1 == U32(Rotl(32, s.a, 16) ++ b1)
                c1 == Rotl(32, s.c \oplus b1, 11)
                a2 == U32(a1 ++ c1)
                d1 == U32(s.d ++ Num(\h96A5))
            IN  Gives([a |-> a2, b |-> U32(Rotl(32, b1 \oplus a1, 19) ++ d1),
                       c |-> U32(c1 ++ a2), d |-> d1], a2)
    IN  Mixing("gjrand32", 32, All(32, {"a", "b", "c", "d"}), 14, Create, Get)

Gjrand64 ==
    LET Create(d) == [a |-> d[1], b |-> {}, c |-> Hex2(\h1E, \h8481), d |-> {}]
        Get(s) ==
            LET b1 == U64(s.b ++ s.c)
                a1 == U64(Rotl(64, s.a, 32) ++ b1)
                c1 == Rotl(64, s.c \oplus b1, 23)
                a2 == U64(a1 ++ c1)
                d1 == U64(s.d ++ Hex2(\h55AA, \h96A5))
            IN  Gives([a |-> a2, b |-> U64(Rotl(64, b1 \oplus a1, 19) ++ d1),
                       c |-> U64(c1 ++ a2), d |-> d1], a2)
    IN  Mixing("gjrand64", 64, All(64, {"a", "b", "c", "d"}), 14, Create, Get)

Ghsc64 ==
    LET Create(d) == [a |-> d[1], b |-> d[2], c |-> d[3]]
        Get(s) ==
            LET a1 == Rotl(64, s.a, 29) \oplus s.b
                c1 == U64(Rotl(64, s.c, 41) ++ a1)
            IN  Gives([a |-> a1, b |-> U64(s.b ++ Hex4(\h3, \hF28C, \hB715, \h71C7)),
                       c |-> c1], c1)
    IN  Counted("ghsc64", 64, All(64, {"a", "b", "c"}), "b", 16, Create, Get)

Konadare192 ==
    LET Create(d) == [a |-> d[1], b |-> d[2], c |-> d[3]]
        Get(s) ==
            LET b1 == Rotl(64, U64(s.b ++ (s.a \oplus (s.a \gg 32))), 53)
            IN  Gives([a |-> U64(s.a ++ Hex4(\hBB67, \hAE85, \h84CA, \hA73B)), b |-> b1,
                       c |-> Rotl(64, U64(s.c ++ b1), 8)], s.b \oplus s.c)
    IN  Counted("konadare192", 64, All(64, {"a", "b", "c"}), "a", 32, Create, Get)

Biski8 ==
    LET Next(s) == Gives([loop_mix |-> s.ctr \oplus s.mix,
                          mix |-> U8(Rotl(8, s.mix, 2) ++ Rotl(8, s.loop_mix, 5)),
                          ctr |-> U8(s.ctr ++ Num(153))], U8(s.mix ++ s.loop_mix))
        Create(d) == [loop_mix |-> U8(d[1]), mix |-> U8(d[2]), ctr |-> U8(d[3])]
        Get(s) == Bytes(Next, s)
    IN  Mixing("biski8", 32, All(8, {"loop_mix", "mix", "ctr"}), 0, Create, Get)

Biski8Alt ==
    LET Next(s) == Gives([loop_mix |-> s.ctr \oplus s.mix,
                          mix |-> U8((s.mix \oplus Rotl(8, s.mix, 2)) ++ Rotl(8, s.loop_mix,
                                  5)), ctr |-> U8(s.ctr ++ Num(153))],
                         U8(s.mix ++ s.loop_mix))
        Create(d) == [loop_mix |-> U8(d[1]), mix |-> U8(d[2]), ctr |-> U8(d[3])]
        Get(s) == Bytes(Next, s)
    IN  Mixing("biski8_alt", 32, All(8, {"loop_mix", "mix", "ctr"}), 0, Create, Get)

Biski8Mul ==
    LET Next(s) ==
            LET output == Mul(8, Num(157), s.mix)
            IN  Gives([last_mix |-> s.ctr \oplus s.mix,
                       mix |-> U8(Rotl(8, s.last_mix, 3) ++ output),
                       ctr |-> U8(s.ctr ++ Num(157))], output)
        Create(d) == [last_mix |-> U8(d[1]), mix |-> U8(d[2]), ctr |-> U8(d[3])]
        Get(s) == Bytes(Next, s)
    IN  Mixing("biski8_mul", 32, All(8, {"last_mix", "mix", "ctr"}), 16, Create, Get)

Biski16 ==
    LET Next(s) == Gives([loop_mix |-> s.ctr \oplus s.mix,
                          mix |-> U16(Rotl(16, s.mix, 4) ++ Rotl(16, s.loop_mix, 9)),
                          ctr |-> U16(s.ctr ++ Num(\h9999))], U16(s.mix ++ s.loop_mix))
        Create(d) == [loop_mix |-> U16(d[1]), mix |-> U16(d[2]), ctr |-> U16(d[3])]
        Get(s) == Halves(Next, s)
    IN  Mixing("biski16", 32, All(16, {"loop_mix", "mix", "ctr"}), 0, Create, Get)

Biski16Alt ==
    LET Next(s) == Gives([loop_mix |-> s.ctr \oplus s.mix,
                          mix |-> U16((s.mix \oplus Rotl(16, s.mix, 4)) ++ Rotl(16,
                                  s.loop_mix, 9)), ctr |-> U16(s.ctr ++ Num(\h9999))],
                         U16(s.mix ++ s.loop_mix))
        Create(d) == [loop_mix |-> U16(d[1]), mix |-> U16(d[2]), ctr |-> U16(d[3])]
        Get(s) == Halves(Next, s)
    IN  Mixing("biski16_alt", 32, All(16, {"loop_mix", "mix", "ctr"}), 0, Create, Get)

Biski16Mul ==
    LET Next(s) ==
            LET output == Mul(16, Num(\h9E37), s.mix)
            IN  Gives([last_mix |-> s.ctr \oplus s.mix,
                       mix |-> U16(Rotl(16, s.last_mix, 11) ++ output),
                       ctr |-> U16(s.ctr ++ Num(\h9E37))], output)
        Create(d) == [last_mix |-> U16(d[1]), mix |-> U16(d[2]), ctr |-> U16(d[3])]
        Get(s) == Halves(Next, s)
    IN  Mixing("biski16_mul", 32, All(16, {"last_mix", "mix", "ctr"}), 0, Create, Get)

Biski32Ver2 ==
    LET Create(d) == [loop_mix |-> d[1] \gg 32, mix |-> d[2] \gg 32, ctr |-> d[3] \gg 32]
        Get(s) == Gives([loop_mix |-> s.ctr \oplus s.mix,
                         mix |-> U32(Rotl(32, s.mix, 7) ++ Rotl(32, s.loop_mix, 19)),
                         ctr |-> U32(s.ctr ++ Hex2(\h9999, \h9999))],
                        U32(s.mix ++ s.loop_mix))
    IN  Counted("biski32_ver2", 32,
                All(32, {"loop_mix", "mix", "ctr"}), "ctr", 0, Create, Get)

Biski32V1 ==
    LET Create(d) == [loop_mix |-> d[1] \gg 32, mix |-> d[2] \gg 32, ctr |-> d[3] \gg 32]
        Get(s) == Gives([loop_mix |-> s.ctr \oplus s.mix,
                         mix |-> U32(Rotl(32, s.mix, 8) ++ Rotl(32, s.loop_mix, 20)),
                         ctr |-> U32(s.ctr ++ Hex2(\h9999, \h9999))],
                        U32(s.mix ++ s.loop_mix))
    IN  Counted("biski32_v1", 32,
                All(32, {"loop_mix", "mix", "ctr"}), "ctr", 0, Create, Get)

Biski32Alt ==
    LET Create(d) == [loop_mix |-> d[1] \gg 32, mix |-> d[2] \gg 32, ctr |-> d[3] \gg 32]
        Get(s) == Gives([loop_mix |-> s.ctr \oplus s.mix,
                         mix |-> U32((s.mix \oplus Rotl(32, s.mix, 8)) ++ Rotl(32,
                                 s.loop_mix, 20)),
                         ctr |-> U32(s.ctr ++ Hex2(\h9999, \h9999))],
                        U32(s.mix ++ s.loop_mix))
    IN  Counted("biski32_alt", 32,
                All(32, {"loop_mix", "mix", "ctr"}), "ctr", 0, Create, Get)

Biski64Ver2 ==
    LET Create(d) == [loop_mix |-> d[1], mix |-> d[2], ctr |-> d[3]]
        Get(s) == Gives([loop_mix |-> s.ctr \oplus s.mix,
                         mix |-> U64(Rotl(64, s.mix, 17) ++ Rotl(64, s.loop_mix, 39)),
                         ctr |-> U64(s.ctr ++ Hex4(\h9999, \h9999, \h9999, \h9999))],
                        U64(s.mix ++ s.loop_mix))
    IN  Counted("biski64_ver2", 64,
                All(64, {"loop_mix", "mix", "ctr"}), "ctr", 0, Create, Get)

Biski64V1 ==
    LET Create(d) == [loop_mix |-> d[1], mix |-> d[2], ctr |-> d[3]]
        Get(s) == Gives([loop_mix |-> s.ctr \oplus s.mix,
                         mix |-> U64(Rotl(64, s.mix, 16) ++ Rotl(64, s.loop_mix, 40)),
                         ctr |-> U64(s.ctr ++ Hex4(\h9999, \h9999, \h9999, \h9999))],
                        U64(s.mix ++ s.loop_mix))
    IN  Counted("biski64_v1", 64,
                All(64, {"loop_mix", "mix", "ctr"}), "ctr", 0, Create, Get)

Biski64Alt ==
    LET Create(d) == [loop_mix |-> d[1], mix |-> d[2], ctr |-> d[3]]
        Get(s) == Gives([loop_mix |-> s.ctr \oplus s.mix,
                         mix |-> U64((s.mix \oplus Rotl(64, s.mix, 16)) ++ Rotl(64,
                                 s.loop_mix, 40)),
                         ctr |-> U64(s.ctr ++ Hex4(\h9999, \h9999, \h9999, \h9999))],
                        U64(s.mix ++ s.loop_mix))
    IN  Counted("biski64_alt", 64,
                All(64, {"loop_mix", "mix", "ctr"}), "ctr", 0, Create, Get)

Biski64sh ==
    LET Create(d) == [last_mix |-> {}, mix |-> {}, ctr |-> d[1]]
        Get(s) ==
            LET output == Mul(64, Hex4(\h9E37, \h79B9, \h7F4A, \h7C15), s.mix)
            IN  Gives([last_mix |-> s.ctr \oplus s.mix,
                       mix |-> U64(Rotl(64, s.last_mix, 39) ++ output),
                       ctr |-> U64(s.ctr ++ Hex4(\h9E37, \h79B9, \h7F4A, \h7C15))], output)
    IN  Counted("biski64sh", 64,
                All(64, {"last_mix", "mix", "ctr"}), "ctr", 16, Create, Get)

StormdropNew ==
    LET Create(d) == [entropy |-> d[1] \gg 32, state0 |-> U32(d[2]),
                      state1 |-> d[2] \gg 32, state2 |-> U32(d[3]),
                      state3 |-> d[3] \gg 32]
        Get(s) ==
            LET entropy1 == U32(s.entropy ++ (s.entropy \ll 16))
                entropy2 == U32(entropy1 ++ (entropy1 \ll 6))
                state01 == U32(s.state0 ++ (s.state1 \oplus entropy1))
                state21 == s.state2 \oplus entropy1
                state31 == s.state3 \oplus state21 \oplus entropy2
                entropy3 == entropy2 \oplus state01 \oplus (entropy2 \gg 9) \oplus state31
            IN  Gives([entropy |-> entropy3, state0 |-> state01,
                       state1 |-> U32(Inc(s.state1)), state2 |-> state21,
                       state3 |-> state31], entropy3)
    IN  Counted("stormdrop_new", 32,
                All(32, {"entropy", "state0", "state1", "state2", "state3"}), "state1", 0,
                Create, Get)

StormdropOld ==
    LET Create(d) == [entropy |-> d[1] \gg 32, state0 |-> U32(d[2]),
                      state1 |-> d[2] \gg 32, state2 |-> U32(d[3]),
                      state3 |-> d[3] \gg 32]
        Get(s) ==
            LET entropy1 == U32(s.entropy \oplus (s.entropy \ll 16))
                entropy2 == entropy1 \oplus ((s.state1 \oplus entropy1) \gg 5)
                entropy3 == U32(entropy2 ++ (entropy2 \ll 6))
                state01 == s.state0 \oplus entropy1
                state21 == s.state2 \oplus entropy2
                state31 == s.state3 \oplus state21 \oplus entropy3
                entropy4 == entropy3 \oplus state01 \oplus (entropy3 \gg 9) \oplus state31
            IN  Gives([entropy |-> entropy4, state0 |-> state01,
                       state1 |-> U32(Inc(s.state1)), state2 |-> state21,
                       state3 |-> state31], entropy4)
    IN  Counted("stormdrop_old", 32,
                All(32, {"entropy", "state0", "state1", "state2", "state3"}), "state1", 0,
                Create, Get)

Ranrot8tiny ==
    LET Next(s) ==
            LET w1 == U8(s.w ++ Num(151))
                m11 == U8(U8(Rotl(8, s.m1, 5) ++ Rotl(8, s.m3, 3)) ++ Rotl(8, w1
                       \oplus (w1 \gg 4), Value(Cut(3, s.m2))))
            IN  Gives([m1 |-> m11, m2 |-> s.m1, m3 |-> s.m2, w |-> w1], m11)
        Create(d) == [m1 |-> U8(d[1]), m2 |-> U8(d[1] \gg 8), m3 |-> U8(d[1] \gg 16),
                      w |-> U8(d[1] \gg 24)]
        Get(s) == Bytes(Next, s)
    IN  Mixing("ranrot8tiny", 32, All(8, {"m1", "m2", "m3", "w"}), 0, Create, Get)

Ranrot16tiny ==
    LET Next(s) ==
            LET w1 == U16(s.w ++ Num(\h9E37))
                m11 == U16(U16(Rotl(16, s.m1, 7) ++ Rotl(16, s.m3, 3)) ++ Rotl(16, w1
                       \oplus (w1 \gg 8), Value(Cut(4, s.m2))))
            IN  Gives([m1 |-> m11, m2 |-> s.m1, m3 |-> s.m2, w |-> w1], m11)
        Create(d) == [m1 |-> U16(d[1]), m2 |-> U16(d[1] \gg 16), m3 |-> U16(d[1] \gg 32),
                      w |-> d[1] \gg 48]
        Get(s) == Halves(Next, s)
    IN  Mixing("ranrot16tiny", 32, All(16, {"m1", "m2", "m3", "w"}), 0, Create, Get)

Ranrot32tiny ==
    LET Create(d) == [m1 |-> U32(d[1]), m2 |-> d[1] \gg 32, m3 |-> U32(d[2]),
                      w |-> d[2] \gg 32]
        Get(s) ==
            LET w1 == U32(s.w ++ Hex2(\h9E37, \h79B9))
                m11 == U32(U32(Rotl(32, s.m1, 11) ++ Rotl(32, s.m3, 7)) ++ Rotl(32, w1
                       \oplus (w1 \gg 16), Value(Cut(5, s.m2))))
            IN  Gives([m1 |-> m11, m2 |-> s.m1, m3 |-> s.m2, w |-> w1], m11)
    IN  Mixing("ranrot32tiny", 32, All(32, {"m1", "m2", "m3", "w"}), 0, Create, Get)

Ranrot64tiny ==
    LET Create(d) == [m1 |-> d[1], m2 |-> d[2], m3 |-> d[3], w |-> d[4]]
        Get(s) ==
            LET w1 == U64(s.w ++ Hex4(\h9E37, \h79B9, \h7F4A, \h7C15))
                m11 == U64(U64(Rotl(64, s.m1, 25) ++ Rotl(64, s.m3, 17)) ++ Rotl(64, w1
                       \oplus (w1 \gg 32), Value(Cut(6, s.m2))))
            IN  Gives([m1 |-> m11, m2 |-> s.m1, m3 |-> s.m2, w |-> w1], m11)
    IN  Mixing("ranrot64tiny", 64, All(64, {"m1", "m2", "m3", "w"}), 0, Create, Get)

RanrotBi ==
    LET Create(d) == [hi |-> Not(64, d[1]), lo |-> d[1]]
        Get(s) ==
            LET lo1 == U64((s.lo \ll 29) ++ (s.lo \gg 31))
                hi1 == U64(U64((s.hi \ll 19) ++ (s.hi \gg 23)) ++ lo1)
            IN  Gives([hi |-> hi1, lo |-> U64(lo1 ++ hi1)], hi1)
    IN  Mixing("ranrot_bi", 64, All(64, {"hi", "lo"}), 0, Create, Get)

Sapparot ==
    LET Create(d) == [a |-> U32(d[1]), b |-> d[1] \gg 32]
        Get(s) ==
            LET b1 == Rotl(32, U32(s.a ++ Hex2(\h9E37, \h79B9)), 7)
                a1 == Rotl(32, U32(s.b \oplus Not(32, b1) \oplus (b1 \ll 3)), 7)
            IN  Gives([a |-> a1, b |-> b1], a1 \oplus b1)
    IN  Mixing("sapparot", 32, All(32, {"a", "b"}), 0, Create, Get)

Sapparot2 ==
    LET Create(d) == [a |-> U32(d[1]), b |-> d[1] \gg 32, c |-> d[2] \gg 32]
        Get(s) ==
            LET a1 == U32((s.b ++ (s.a \ll 1) ++ {0}) \oplus Rotl(32, s.b, 5))
                b1 == Rotl(32, U32(s.a ++ Hex2(\h9E37, \h79B9)), 7)
                c1 == Rotl(32, U32(s.c ++ s.a), Value(s.b \gg 27))
            IN  Gives([a |-> a1, b |-> b1, c |-> c1], c1 \oplus b1 \oplus a1)
    IN  Mixing("sapparot2", 32, All(32, {"a", "b", "c"}), 0, Create, Get)

Sapparot264 ==
    LET Create(d) == [a |-> d[1], b |-> d[2], c |-> d[3]]
        Get(s) ==
            LET a1 == U64((s.b ++ (s.a \ll 1) ++ {0}) \oplus Rotl(64, s.b, 5))
                b1 == Rotl(64, U64(s.a ++ Hex4(\h9E37, \h79B9, \h7F4A, \h7C55)), 13)
                c1 == Rotl(64, U64(s.c ++ s.a), Value(s.b \gg 58))
            IN  Gives([a |-> a1, b |-> b1, c |-> c1], c1 \oplus b1 \oplus a1)
    IN  Mixing("sapparot2_64", 64, All(64, {"a", "b", "c"}), 0, Create, Get)

Tychei ==
    LET Create(d) == [a |-> U32(d[1]), b |-> d[1] \gg 32, c |-> Hex2(\h9B37, \h79B9),
                      d |-> Hex2(\h517C, \hC1B7)]
        Get(s) ==
            LET b1 == Rotl(32, s.b, 25) \oplus s.c
                a1 == Minus(32, s.a, b1)
                c1 == Minus(32, s.c, s.d)
                b2 == Rotl(32, b1, 20) \oplus c1
                a2 == Minus(32, a1, b2)
                d1 == Rotl(32, s.d, 24) \oplus s.a
            IN  Gives([a |-> a2, b |-> b2, c |-> Minus(32, c1, d1),
                       d |-> Rotl(32, d1, 16) \oplus a1], a2)
    IN  Mixing("tychei", 32, All(32, {"a", "b", "c", "d"}), 20, Create, Get)

Tychei64 ==
    LET Create(d) == [a |-> d[1], b |-> d[2], c |-> Hex4(\h517C, \hC1B7, \h2722, \hA95),
                      d |-> Hex4(\h9E37, \h79B9, \h7F4A, \h7C15)]
        Get(s) ==
            LET b1 == Rotl(64, s.b, 63) \oplus s.c
                a1 == Minus(64, s.a, b1)
                c1 == Minus(64, s.c, s.d)
                b2 == Rotl(64, b1, 24) \oplus c1
                a2 == Minus(64, a1, b2)
                d1 == Rotl(64, s.d, 16) \oplus s.a
            IN  Gives([a |-> a2, b |-> b2, c |-> Minus(64, c1, d1),
                       d |-> Rotl(64, d1, 32) \oplus a1], a2)
    IN  Mixing("tychei64", 64, All(64, {"a", "b", "c", "d"}), 20, Create, Get)

Tychei64w ==
    LET Create(d) == [a |-> d[1], b |-> d[2], c |-> Hex4(\h517C, \hC1B7, \h2722, \hA95),
                      d |-> Hex4(\h9E37, \h79B9, \h7F4A, \h7C15), ctr |-> {}]
        Get(s) ==
            LET c1 == U64(s.c ++ s.ctr)
                b1 == Rotl(64, s.b, 63) \oplus c1
                a1 == Minus(64, s.a, b1)
                c2 == Minus(64, c1, s.d)
                b2 == Rotl(64, b1, 24) \oplus c2
                a2 == Minus(64, a1, b2)
                d1 == Rotl(64, s.d, 16) \oplus s.a
            IN  Gives([a |-> a2, b |-> b2, c |-> Minus(64, c2, d1),
                       d |-> Rotl(64, d1, 32) \oplus a1, ctr |-> U64(Inc(s.ctr))], a2)
    IN  Counted("tychei64w", 64,
                All(64, {"a", "b", "c", "d", "ctr"}), "ctr", 20, Create, Get)

Xabc8 ==
    LET Next(s) ==
            LET x1 == U8(s.x ++ Num(151))
                a1 == s.a \oplus s.c \oplus x1
                b1 == U8(s.b ++ a1)
                c1 == U8((s.c ++ Rotl(8, b1, 7)) \oplus a1)
            IN  Gives([x |-> x1, a |-> a1, b |-> b1, c |-> c1], c1 \oplus b1)
        Create(d) == [x |-> U8(d[1] \gg 24), a |-> U8(d[1]), b |-> U8(d[1] \gg 8),
                      c |-> U8(d[1] \gg 16)]
        Get(s) == Bytes(Next, s)
    IN  Mixing("xabc8", 32, All(8, {"x", "a", "b", "c"}), 32, Create, Get)

Xabc16 ==
    LET Next(s) ==
            LET x1 == U16(s.x ++ Num(\h9E37))
                a1 == s.a \oplus s.c \oplus x1
                b1 == U16(s.b ++ a1)
                c1 == U16((s.c ++ ((b1 \ll 11) \cup (b1 \gg 5))) \oplus a1)
            IN  Gives([x |-> x1, a |-> a1, b |-> b1, c |-> c1], c1 \oplus b1)
        Create(d) == [x |-> d[1] \gg 48, a |-> U16(d[1]), b |-> U16(d[1] \gg 16),
                      c |-> U16(d[1] \gg 32)]
        Get(s) == Halves(Next, s)
    IN  Mixing("xabc16", 32, All(16, {"x", "a", "b", "c"}), 32, Create, Get)

Xabc32 ==
    LET Create(d) == [x |-> d[2] \gg 32, a |-> U32(d[1]), b |-> d[1] \gg 32,
                      c |-> U32(d[2])]
        Get(s) ==
            LET x1 == U32(s.x ++ Hex2(\h9E37, \h79B9))
                a1 == s.a \oplus s.c \oplus x1
                b1 == U32(s.b ++ a1)
                c1 == U32((s.c ++ Rotr(32, b1, 9)) \oplus a1)
            IN  Gives([x |-> x1, a |-> a1, b |-> b1, c |-> c1], c1 \oplus b1)
    IN  Mixing("xabc32", 32, All(32, {"x", "a", "b", "c"}), 32, Create, Get)

Xabc64 ==
    LET Create(d) == [x |-> d[4], a |-> d[1], b |-> d[2], c |-> d[3]]
        Get(s) ==
            LET x1 == U64(s.x ++ Hex4(\h9E37, \h79B9, \h7F4A, \h7C15))
                a1 == s.a \oplus s.c \oplus x1
                b1 == U64(s.b ++ a1)
                c1 == U64((s.c ++ Rotr(64, b1, 12)) \oplus a1)
            IN  Gives([x |-> x1, a |-> a1, b |-> b1, c |-> c1], c1 \oplus b1)
    IN  Mixing("xabc64", 64, All(64, {"x", "a", "b", "c"}), 32, Create, Get)

Xormix32 ==
    LET Create(d) == [x |-> d[1] \gg 32, w |-> d[2] \gg 32]
        Get(s) ==
            LET w1 == U32(s.w ++ Hex2(\hAC6D, \h9BB7))
                x1 == U32((s.x \oplus Rotl(32, s.x, 5) \oplus Rotl(32, s.x, 24)) ++ w1)
            IN  Gives([x |-> x1, w |-> w1], x1)
    IN  Mixing("xormix32", 32, All(32, {"x", "w"}), 32, Create, Get)

Xormix64 ==
    LET Create(d) == [x |-> d[1], w |-> d[2]]
        Get(s) ==
            LET w1 == U64(s.w ++ Hex4(\h9E37, \h79B9, \h7F4A, \h7C15))
                x1 == U64((s.x \oplus Rotl(64, s.x, 3) \oplus Rotl(64, s.x, 29)) ++ w1)
            IN  Gives([x |-> x1, w |-> w1], x1)
    IN  Mixing("xormix64", 64, All(64, {"x", "w"}), 32, Create, Get)

Xormix64ctr ==
    LET Create(d) == [ctr |-> d[1]]
        Get(s) ==
            LET ctr1 == U64(s.ctr ++ Hex4(\h3779, \h8849, \h2272, \h1DEB))
                x == U64((ctr1 \oplus Rotl(64, ctr1, 4) \oplus Rotl(64, ctr1, 9))
                     ++ Hex4(\h49A8, \hD5B3, \h6969, \hF969))
                x1 == U64((x \oplus Rotl(64, x, 4) \oplus Rotl(64, x, 9)) ++ Hex4(\h6969,
                      \hF969, \h49A8, \hD5B3))
            IN  Gives([ctr |-> ctr1], x1 \oplus Rotl(64, x1, 4) \oplus Rotl(64, x1, 9))
    IN  Mixing("xormix64ctr", 64, All(64, {"ctr"}), 32, Create, Get)

Xorshift128rp ==
    LET Create(d) == [s0 |-> d[1],
                      s1 |-> IF d[1] = {} /\ d[2] = {} THEN Hex4(\h9E37, \h79B9, \h7F4A,
                             \h7C15) ELSE d[2]]
        Get(s) ==
            LET x == U64(s.s0 \oplus (s.s0 \ll 23))
                x1 == x \oplus (x \gg 17) \oplus s.s1
            IN  Gives([s0 |-> s.s1, s1 |-> U64(x1 ++ s.s1)], x1)
    IN  Mixing("xorshift128rp", 64, All(64, {"s0", "s1"}), 0, Create, Get)

Yasmarang ==
    LET Create(d) == [pad |-> d[1] \gg 32, n |-> Num(69), d |-> Num(233), dat |-> {}]
        Get(s) ==
            LET pad1 == Rotl(32, U32(s.pad ++ s.dat ++ Mul(32, s.d, s.n)), 3)
                d1 == s.d \oplus Rotl(32, pad1, 31)
                dat1 == U8(s.dat \oplus pad1 \oplus (d1 \gg 8) \oplus {0})
            IN  Gives([pad |-> pad1, n |-> pad1 \cup {1}, d |-> d1, dat |-> dat1],
                      U32(pad1 \oplus (d1 \ll 5) \oplus (pad1 \gg 18) \oplus (dat1 \ll 1)))
    IN  Mixing("yasmarang", 32, [pad |-> 32, n |-> 32, d |-> 32, dat |-> 8], 0, Create, Get)

Zibri64ex ==
    LET Create(d) == [s0 |-> d[1] \gg 32, s1 |-> d[2] \gg 32, ctr |-> d[3] \gg 32]
        Get(s) ==
            LET ctr1 == U32(s.ctr ++ Hex2(\h9E37, \h79B9))
            IN  Gives([s0 |-> Rotl(32, U32(s.s0 ++ s.s1), 27),
                       s1 |-> U32(Rotl(32, s.s0, 11) ++ ctr1), ctr |-> ctr1],
                      s.s0 \oplus s.s1)
    IN  Mixing("zibri64ex", 32, All(32, {"s0", "s1", "ctr"}), 0, Create, Get)

Zibri128 ==
    LET Create(d) == [s0 |-> Hex4(\h9E37, \h79B9, \h7F4A, \h7C15), s1 |-> d[1]]
        Get(s) ==
            LET s01 == Rotl(64, U64(s.s0 ++ s.s1), 56)
            IN  Gives([s0 |-> s01, s1 |-> s.s0], s01)
    IN  Mixing("zibri128", 64, All(64, {"s0", "s1"}), 0, Create, Get)

Zibri128ex ==
    LET Create(d) == [s0 |-> d[1], s1 |-> d[2], ctr |-> d[3]]
        Get(s) ==
            LET ctr1 == U64(s.ctr ++ Hex4(\h9E37, \h79B9, \h7F4A, \h7C15))
            IN  Gives([s0 |-> Rotl(64, U64(s.s0 ++ s.s1), 57),
                       s1 |-> U64(Rotl(64, s.s0, 23) ++ ctr1), ctr |-> ctr1],
                      s.s0 \oplus s.s1)
    IN  Mixing("zibri128ex", 64, All(64, {"s0", "s1", "ctr"}), 0, Create, Get)

Zibri192 ==
    LET Create(d) == [s0 |-> Hex4(\h9E37, \h79B9, \h7F4A, \h7C15), s1 |-> d[1],
                      s2 |-> d[2]]
        Get(s) ==
            LET s01 == Rotl(64, U64(s.s0 ++ s.s1 ++ s.s2), 48)
            IN  Gives([s0 |-> s01, s1 |-> s.s0, s2 |-> s.s1], s01)
    IN  Mixing("zibri192", 64, All(64, {"s0", "s1", "s2"}), 0, Create, Get)

Zibri192ex ==
    LET Create(d) == [s0 |-> d[1], s1 |-> d[2], s2 |-> d[3], ctr |-> d[4]]
        Get(s) ==
            LET ctr1 == U64(s.ctr ++ Hex4(\h9E37, \h79B9, \h7F4A, \h7C15))
            IN  Gives([s0 |-> Rotl(64, U64(s.s0 ++ s.s1 ++ s.s2), 51),
                       s1 |-> U64(Rotl(64, s.s0, 17) ++ ctr1), s2 |-> s.s1, ctr |-> ctr1],
                      s.s0 \oplus s.s1)
    IN  Mixing("zibri192ex", 64, All(64, {"s0", "s1", "s2", "ctr"}), 0, Create, Get)

ArxNext ==
    \/ Ara32 \/ Ara64 \/ Arx32 \/ Arx64 \/ Arxfw8 \/ Arxfw8ex \/ Arxfw8ex2
    \/ Arxfw8ex3 \/ Arxfw16 \/ Arxfw16ex2 \/ Arxfw32 \/ Arxfw64 \/ Chip8 \/ Chip32
    \/ Chip64 \/ Sfc8 \/ Sfc16 \/ Sfc32 \/ Sfc64 \/ Tylo64 \/ Flea32x1 \/ Ranval
    \/ Ranval64 \/ Gjrand8 \/ Gjrand16 \/ Gjrand32 \/ Gjrand64 \/ Ghsc64
    \/ Konadare192 \/ Biski8 \/ Biski8Alt \/ Biski8Mul \/ Biski16 \/ Biski16Alt
    \/ Biski16Mul \/ Biski32Ver2 \/ Biski32V1 \/ Biski32Alt \/ Biski64Ver2
    \/ Biski64V1 \/ Biski64Alt \/ Biski64sh \/ StormdropNew \/ StormdropOld
    \/ Ranrot8tiny \/ Ranrot16tiny \/ Ranrot32tiny \/ Ranrot64tiny \/ RanrotBi
    \/ Sapparot \/ Sapparot2 \/ Sapparot264 \/ Tychei \/ Tychei64 \/ Tychei64w
    \/ Xabc8 \/ Xabc16 \/ Xabc32 \/ Xabc64 \/ Xormix32 \/ Xormix64 \/ Xormix64ctr
    \/ Xorshift128rp \/ Yasmarang \/ Zibri64ex \/ Zibri128 \/ Zibri128ex
    \/ Zibri192 \/ Zibri192ex

=============================================================================
