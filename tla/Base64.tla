------------------------------- MODULE Base64 -------------------------------
(***************************************************************************)
(* src/src/base64.c: words of 32 bits, the highest bit first, as text in   *)
(* symbols of 6 bits, and back.  Keys of the seed generator are shown and  *)
(* read in this form.                                                      *)
(*                                                                         *)
(* A word is the sequence of its 32 bits, a symbol that of its 6; Pad is   *)
(* the character '=' and Junk any other character that is no symbol.       *)
(***************************************************************************)
EXTENDS Integers, Sequences

Pad  == <<"=">>
Junk == <<"?">>

\* The bits of the words or symbols of s, n in each.
Joined(s, n) == [i \in 1 .. n * Len(s) |-> s[1 + ((i - 1) \div n)][1 + ((i - 1) % n)]]

\* s cut into pieces of n elements; a shorter rest is left out.
Pieces(s, n) == [k \in 1 .. Len(s) \div n |-> [i \in 1 .. n |-> s[(k - 1) * n + i]]]

\* s filled up with zeros to whole pieces.
FilledUp(s, n) ==
    [i \in 1 .. n * ((Len(s) + n - 1) \div n) |-> IF i <= Len(s) THEN s[i] ELSE 0]

\* calc_base64_len
Base64Len(nbytes) == IF nbytes = 0 THEN 0 ELSE (1 + ((nbytes - 1) \div 3)) * 4

(***************************************************************************)
(* The queue gives up 6 bits at a time; what is left at the end is filled  *)
(* up with zeros, and the text with padding.                               *)
(***************************************************************************)
Encode(words) ==
    LET syms == Pieces(FilledUp(Joined(words, 32), 6), 6)
    IN  syms \o [i \in 1 .. Base64Len(4 * Len(words)) - Len(syms) |-> Pad]

IsSymbol(c) == Len(c) = 6

\* The symbols of a text, whatever stands between them.
Symbols(text) ==
    LET kept[i \in 0 .. Len(text)] ==
            IF i = 0 THEN <<>>
            ELSE IF IsSymbol(text[i]) THEN Append(kept[i - 1], text[i])
            ELSE kept[i - 1]
    IN  kept[Len(text)]

\* Bits left behind 1, 2, 3 words modulo 3 (nextrabits_ok).
ExtraBits(u32_len) == <<4, 2, 0>>[1 + ((u32_len - 1) % 3)]

\* NULL: a result is never empty.
Failure == <<>>

\* Mutant: the rest of the queue is dropped.
RestIsAny(bits, u32_len) == TRUE

\* Whether the rest of the queue is acceptable.
RestIsZero(bits, u32_len) ==
    \A i \in 32 * u32_len + 1 .. Len(bits) : bits[i] = 0

Decode(text) ==
    LET bits    == Joined(Symbols(text), 6)
        u32_len == Len(bits) \div 32
    IN  IF \/ u32_len = 0
           \/ ExtraBits(u32_len) # Len(bits) - 32 * u32_len
           \/ ~RestIsZero(bits, u32_len)
        THEN Failure
        ELSE Pieces(bits, 32)

=============================================================================
