------------------------------ MODULE Envelopes ------------------------------
(***************************************************************************)
(* Generators that wrap another one, and the dumps of a generator to       *)
(* stdout (src/src/core.c), and the generator that reads stdin             *)
(* (src/src/fileio.c).                                                     *)
(*                                                                         *)
(* A word is the sequence of its bits, the lowest first; a bit of the      *)
(* parent is named by the number of the output it comes from and its       *)
(* place there, a bit of the filler of the 31 and 63 bit filters by the    *)
(* number of the filler.                                                   *)
(***************************************************************************)
EXTENDS Integers, Sequences, SequencesExt, FiniteSets

CONSTANT Half        \* 32: half of the bits of the wider generators

ASSUME EnvelopesAssumption == Half \in Nat \ {0}

Filters == {"reverse-bits", "interleaved32", "high32", "low32",
            "uint31", "uint31_low", "uint63"}

\* Output number k of a parent of nbits bits.
Output(k, nbits) == [i \in 1 .. nbits |-> <<k, i - 1>>]

FillerOf == -1
FillerBit(k) == <<FillerOf, k>>

LowHalf(u)  == SubSeq(u, 1, Half)
HighHalf(u) == SubSeq(u, Half + 1, 2 * Half)

(***************************************************************************)
(* Which parents main lets a filter have.                                  *)
(***************************************************************************)
Suits(filter, nbits) ==
    CASE filter = "uint31" -> nbits = Half
      [] filter \in {"uint63", "interleaved32", "high32", "low32"} -> nbits = 2 * Half
      [] OTHER -> TRUE

NBits(filter, nbits) == IF filter = "reverse-bits" THEN nbits
                        ELSE IF filter = "uint63" THEN 2 * Half ELSE Half

(***************************************************************************)
(* create_enveloped, create_enveloped_uint31: the state of an envelope is  *)
(* the number of outputs its parent has given, the buffer of               *)
(* interleaved32 with its position, and how often the filler was stepped.  *)
(***************************************************************************)
Invalid == 2

CreateEnveloped(filter) ==
    [drawn   |-> IF filter \in {"uint31", "uint31_low", "uint63"} THEN 2 ELSE 0,
     val     |-> <<>>, pos |-> Invalid, fillers |-> 0]

\* Mutant: the halves are returned but the buffer is never invalid again.
Interleave32Stale(obj, nbits) ==
    LET full == IF obj.pos = Invalid /\ obj.val = <<>>
                THEN [obj EXCEPT !.val = Output(obj.drawn, nbits),
                                 !.pos = 0, !.drawn = @ + 1]
                ELSE [obj EXCEPT !.pos = @ % 2]
    IN  [obj |-> [full EXCEPT !.pos = @ + 1],
         out |-> IF full.pos = 0 THEN LowHalf(full.val) ELSE HighHalf(full.val)]

Interleave32(obj, nbits) ==
    LET full == IF obj.pos # Invalid THEN obj
                ELSE [obj EXCEPT !.val = Output(obj.drawn, nbits),
                                 !.pos = 0, !.drawn = @ + 1]
    IN  [obj |-> [full EXCEPT !.pos = @ + 1],
         out |-> IF full.pos = 0 THEN LowHalf(full.val) ELSE HighHalf(full.val)]

(***************************************************************************)
(* get_bits of an envelope.  The filler is put where the parent's bit is   *)
(* expected to be 0; uint31_low takes the low half of the output, and      *)
(* moves it down by one bit.                                               *)
(***************************************************************************)
GetBits(filter, obj, nbits) ==
    LET u    == Output(obj.drawn, nbits)
        next == [obj EXCEPT !.drawn = @ + 1]
        fill == [next EXCEPT !.fillers = @ + 1]
    IN  CASE filter = "reverse-bits"  -> [obj |-> next, out |-> Reverse(u)]
          [] filter = "interleaved32" -> Interleave32(obj, nbits)
          [] filter = "high32"        -> [obj |-> next, out |-> HighHalf(u)]
          [] filter = "low32"         -> [obj |-> next, out |-> LowHalf(u)]
          [] filter \in {"uint31", "uint63"} ->
                [obj |-> fill, out |-> <<FillerBit(obj.fillers)>> \o Tail(u)]
          [] filter = "uint31_low" ->
                [obj |-> fill, out |-> Append(Tail(LowHalf(u)), FillerBit(obj.fillers))]

-----------------------------------------------------------------------------
(***************************************************************************)
(* StdinCollector.  The input is words 0 .. len - 1, read in blocks of     *)
(* `block' words by whatever object asks; a partial block ends the         *)
(* program.                                                                *)
(***************************************************************************)
StdinStart == [read |-> 0, total |-> 0, exited |-> FALSE]

Collector(block) == [from |-> 0, pos |-> block]

FillBuffer(in, len, block) ==
    LET nwords == IF in.read + block <= len THEN block ELSE len - in.read
    IN  [read |-> in.read + nwords, total |-> in.total + nwords,
         exited |-> nwords # block]

\* Mutant: it is filled one word late.
IsEmptyLate(obj, block) == obj.pos > block

\* Whether the buffer has to be filled.
IsEmpty(obj, block) == obj.pos >= block

\* The next word, unless the program ends.
CollectorGet(obj, in, len, block) ==
    IF IsEmpty(obj, block)
    THEN [obj |-> [from |-> in.read, pos |-> 1],
          in  |-> FillBuffer(in, len, block), word |-> in.read]
    ELSE [obj |-> [obj EXCEPT !.pos = @ + 1], in |-> in, word |-> obj.from + obj.pos]

=============================================================================
