------------------------------- MODULE Words -------------------------------
(***************************************************************************)
(* Unsigned integers of C with their width: a word is the set of the       *)
(* places of its bits that are 1, so that & is \cap, | is \cup.  The       *)
(* operators of C that may leave the width have no width here: sums and    *)
(* left shifts are exact, and U8, ..., U128 cut them where C does.         *)
(***************************************************************************)
EXTENDS Integers, Sequences, FiniteSets, FiniteSetsExt

x \oplus y == (x \ y) \cup (y \ x)
x \ll k    == {b + k : b \in x}
x \gg k    == {b - k : b \in {c \in x : c >= k}}

Cut(w, x)  == {b \in x : b < w}
U8(x)      == Cut(8, x)
U16(x)     == Cut(16, x)
U32(x)     == Cut(32, x)
U64(x)     == Cut(64, x)
U128(x)    == Cut(128, x)

Ones(w)          == 0 .. w - 1
Not(w, x)        == Ones(w) \ x
Rotl(w, x, k)    == {(b + k) % w : b \in x}
Rotr(w, x, k)    == {(b + w - k) % w : b \in x}
If(cond, x)      == IF cond THEN x ELSE {}

RECURSIVE Sum2(_, _)
Sum2(x, y) == IF y = {} THEN x ELSE Sum2(x \oplus y, (x \cap y) \ll 1)
x ++ y     == Sum2(x, y)

Inc(x)           == x ++ {0}
Minus(w, x, y)   == Cut(w, (x ++ Not(w, y)) ++ {0})
Dec(w, x)        == Cut(w, x ++ Ones(w))
Less(x, y)       == \E b \in y \ x : \A c \in x \ y : c < b

\* The product, column by column, below bit w.
RECURSIVE Columns(_, _, _, _, _, _)
Columns(w, x, y, k, carry, acc) ==
    IF k = w THEN acc
    ELSE LET s == carry + Cardinality({i \in x : k - i \in y})
         IN  IF s % 2 = 1 THEN Columns(w, x, y, k + 1, s \div 2, acc \cup {k})
             ELSE Columns(w, x, y, k + 1, s \div 2, acc)
Mul(w, x, y) == Columns(w, x, y, 0, 0, {})

\* Constants: a number, and the hexadecimal digits by four, as in
\* 0x9E3779B97F4A7C15 = Hex(<<\h9E37, \h79B9, \h7F4A, \h7C15>>).
Num(n) == {b \in 0 .. 30 : (n \div 2^b) % 2 = 1}
Hex(s) == UNION {Num(s[i]) \ll (16 * (Len(s) - i)) : i \in DOMAIN s}
Hex2(a, b)       == Hex(<<a, b>>)
Hex4(a, b, c, d) == Hex(<<a, b, c, d>>)

\* A word as a number below 2^31.
Value(x) == LET v[b \in 0 .. 31] == IF b = 0 THEN 0
                                    ELSE v[b - 1] + (IF b - 1 \in x THEN 2^(b - 1) ELSE 0)
            IN  v[31]

\* Quotient and remainder of a word, from bit i - 1 down.
RECURSIVE Quotient(_, _, _, _, _, _)
Quotient(w, x, y, i, q, r) ==
    IF i = 0 THEN [q |-> q, r |-> r]
    ELSE LET next == (r \ll 1) \cup If(i - 1 \in x, {0})
         IN  IF Less(next, y) THEN Quotient(w, x, y, i - 1, q, next)
             ELSE Quotient(w, x, y, i - 1, q \cup {i - 1}, Minus(w + 1, next, y))
DivMod(w, x, y) == Quotient(w, x, y, w, {}, {})
Mod(w, x, y) == DivMod(w, x, y).r

=============================================================================
