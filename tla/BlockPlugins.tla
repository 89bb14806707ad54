----------------------------- MODULE BlockPlugins -----------------------------
(***************************************************************************)
(* Plugins (generators/*.c) that make several outputs at a time and hand   *)
(* them out word by word: block ciphers in the counter mode, and chaotic   *)
(* generators with a buffer.                                               *)
(*                                                                         *)
(* What differs from plugin to plugin, and from the portable to the AVX2   *)
(* version of one, is when the buffer is filled for the first time,        *)
(* whether the counter is stepped before or after that, how many copies of *)
(* the cipher work side by side, how a counter of two words carries, and   *)
(* in which order the words leave the buffer.  What the cipher makes of a  *)
(* counter is left out: a block is named by the counter it is made from,   *)
(* an output by its block and its place there.                             *)
(***************************************************************************)
EXTENDS Integers, Sequences, FiniteSets, TLC

CONSTANT CtrRange            \* 2^32 or 2^64: values of a word of a counter

ASSUME BlockPluginsAssumption ==
    CtrRange \in Nat \ {0} /\ \A n \in {2, 4, 8, 16} : CtrRange % n = 0

-----------------------------------------------------------------------------
(***************************************************************************)
(* Kinds of plugins.  A plugin makes `copies' blocks of `words' words.     *)
(*   made      the first blocks are made when the object is created        *)
(*   incFirst  the counter is stepped before new blocks, not after them    *)
(*   eager     new blocks are made as soon as the last word has been given *)
(*   order     the order of words: "blocks" one by one, "words" of the     *)
(*             same number from all copies together, or a block "down"     *)
(*             from its last word                                          *)
(*   carry     into the upper word of the counter: each its "own", all     *)
(*             when the "first" lower word becomes 0, or "none"            *)
(*   apart     the copies differ in the upper words of their counters      *)
(*   chained   a block is made from the last one: there is no counter that *)
(*             comes back to 0                                             *)
(*   warm      outputs thrown away when the object is created              *)
(*   known     the input of the cipher is initialised                      *)
(*   places    where the position may be if it is not initialised; behind  *)
(*             the buffer stands for all values that are not seen as "full"*)
(***************************************************************************)
OnDemand(words) ==
    [words |-> words, copies |-> 1, made |-> FALSE, incFirst |-> FALSE,
     eager |-> FALSE, order |-> "blocks", carry |-> "own", apart |-> FALSE,
     chained |-> FALSE, warm |-> 0, known |-> TRUE, places |-> {}]

CountFirst(words) == [OnDemand(words) EXCEPT !.incFirst = TRUE]
Ahead(words)      == [CountFirst(words) EXCEPT !.made = TRUE]
Eager(words)      == [Ahead(words) EXCEPT !.eager = TRUE]
Doubled(words)    == [OnDemand(words) EXCEPT !.made = TRUE]

Copies(p, n)     == [p EXCEPT !.copies = n]
NoCarry(p)       == [p EXCEPT !.carry = "none"]
FirstCarries(p)  == [p EXCEPT !.carry = "first"]
ByWords(p)       == [p EXCEPT !.order = "words"]
Downwards(p)     == [p EXCEPT !.order = "down"]
Apart(p)         == [p EXCEPT !.apart = TRUE, !.carry = "none"]
Chained(p)       == [p EXCEPT !.chained = TRUE]
WarmUp(p, n)     == [p EXCEPT !.warm = n]
NotSet(p)        == [p EXCEPT !.known = FALSE]
StartsAt(p, S)   == [p EXCEPT !.places = S]

-----------------------------------------------------------------------------
(***************************************************************************)
(* The object: the counters of the copies, the counters of the blocks in   *)
(* the buffer, the number of words given from the buffer, and whether only *)
(* initialised memory of the object has been used so far.                  *)
(***************************************************************************)
Size(p)    == p.words * p.copies
Lanes(p)   == 0 .. p.copies - 1
Stride(p)  == IF p.apart THEN 1 ELSE p.copies

\* The copy and the word that the output from place q of the buffer is.
CopyAt(p, q) == IF p.order = "words" THEN q % p.copies ELSE q \div p.words
WordIn(p, q) == CASE p.order = "words"  -> q \div p.copies
                  [] p.order = "down"   -> p.words - 1 - q
                  [] p.order = "blocks" -> q % p.words

\* Mutant: the carry into the upper words of the counters is lost.
IncCounterNoCarry(p, obj) ==
    [obj EXCEPT !.ctr = [j \in Lanes(p) |->
        <<(obj.ctr[j][1] + Stride(p)) % CtrRange, obj.ctr[j][2]>>]]

IncCounter(p, obj) ==
    LET low(j) == (obj.ctr[j][1] + Stride(p)) % CtrRange
        Carries(j) == CASE p.carry = "own"   -> low(j) < Stride(p)
                        [] p.carry = "first" -> low(0) = 0
                        [] p.carry = "none"  -> FALSE
    IN  [obj EXCEPT !.ctr = [j \in Lanes(p) |->
            <<low(j), IF Carries(j) THEN (obj.ctr[j][2] + 1) % CtrRange
                      ELSE obj.ctr[j][2]>>]]

MakeBlocks(p, obj) ==
    [obj EXCEPT !.out = obj.ctr, !.pos = 0, !.clean = @ /\ p.known]

RefillBuffer(p, obj) == IF p.incFirst THEN MakeBlocks(p, IncCounter(p, obj))
                  ELSE IncCounter(p, MakeBlocks(p, obj))

\* What is at the current position, and the position behind it.
Take(p, obj) ==
    LET read == obj.pos < Size(p) /\ CopyAt(p, obj.pos) \in DOMAIN obj.out
    IN  [obj |-> [obj EXCEPT !.pos = @ + 1, !.clean = @ /\ read],
         out |-> IF read THEN <<obj.out[CopyAt(p, obj.pos)], WordIn(p, obj.pos)>>
                 ELSE <<>>]

\* get_bits: the next output.
NextWord(p, obj) ==
    LET last == Take(p, obj)
    IN  CASE ~p.eager /\ obj.pos = Size(p)       -> Take(p, RefillBuffer(p, obj))
          [] p.eager /\ last.obj.pos = Size(p)   -> [last EXCEPT !.obj = RefillBuffer(p, @)]
          [] OTHER                               -> last

\* The object after n outputs are thrown away.
Discarded(p, obj, n) ==
    LET after[i \in 0 .. n] ==
            IF i = 0 THEN obj ELSE LET prev == after[i - 1] IN NextWord(p, prev).obj
    IN  after[n]

(***************************************************************************)
(* create: the objects that it may return.  Plugins that do not set the    *)
(* position before the warm-up set it behind the buffer after it.          *)
(***************************************************************************)
Create(p) ==
    LET new == [ctr |-> [j \in Lanes(p) |-> IF p.apart THEN <<0, j>>
                                            ELSE <<j % CtrRange, j \div CtrRange>>],
                out |-> <<>>, pos |-> Size(p), clean |-> TRUE]
        first == IF p.made THEN MakeBlocks(p, new) ELSE new
        Warm(obj) == Discarded(p, obj, p.warm)
    IN  IF p.places = {} THEN {Warm(first)}
        ELSE {IF p.warm = 0 THEN [first EXCEPT !.pos = q]
              ELSE [Warm([first EXCEPT !.pos = q]) EXCEPT !.pos = Size(p)] : q \in p.places}

-----------------------------------------------------------------------------
(***************************************************************************)
(* Counter mode.                                                           *)
(***************************************************************************)
BufGen32(words) == OnDemand(words)
BufGen64(words) == OnDemand(words)

Aes128Ni        == OnDemand(2)
Aes128C99       == OnDemand(2)
AesDec2         == NoCarry(OnDemand(2))
BlaBlaScalar    == NoCarry(Copies(Eager(16), 2))
BlaBlaVector    == NoCarry(Copies(Eager(16), 2))
ChaChaC99       == Ahead(16)
ChaChaC99Ctr32  == NoCarry(Ahead(16))
ChaChaAvx       == Ahead(16)
ChaChaAvxCtr32  == NoCarry(Ahead(16))
ChaChaCopies    == 4
ChaChaVector    == Copies(Ahead(16), ChaChaCopies)
Des             == NoCarry(OnDemand(1))
Fwfarx128Scalar == OnDemand(4)
Fwfarx128Vector == Copies(Eager(4), 8)
Fwfarx256Scalar == NoCarry(Ahead(4))
Fwfarx256Vector == NoCarry(Copies(Eager(4), 8))
Jctr32Scalar    == Eager(8)
Jctr32Vector    == Copies(Eager(8), 8)
Jctr64Scalar    == NoCarry(Eager(8))
Jctr64Vector    == NoCarry(Copies(Eager(8), 4))
KuznWords       == 2
Kuzn            == NoCarry(OnDemand(KuznWords))
LeaScalar       == BufGen32(4)
LeaVector       == FirstCarries(ByWords(Copies(BufGen32(4), 16)))
Lepton32x1V1    == OnDemand(1)
Lepton32x1V2    == OnDemand(1)
MagmaScalar     == NoCarry(OnDemand(1))
MagmaCopies     == 8
MagmaVector     == FirstCarries(Copies(OnDemand(1), MagmaCopies))
Mularx128       == NoCarry(OnDemand(2))
Mularx128u32    == OnDemand(4)
PhiloxGet(words) == CountFirst(words)
Philox          == PhiloxGet(4)
Philox2x32Get(words) == CountFirst(words)
Philox2x32      == Philox2x32Get(2)
Philox32Get(words) == CountFirst(words)
Philox32        == Philox32Get(4)
Rge256ExCtr     == Ahead(8)
Rge512Scalar    == NoCarry(Ahead(8))
Rge512Vector    == NoCarry(Copies(Eager(8), 4))
Speck128Scalar  == Ahead(2)
Speck128Vector  == NoCarry(Copies(Ahead(2), 8))
Speck128sc      == OnDemand(2)
Threefish1024   == NoCarry(Ahead(16))
Threefish1024Vector == NoCarry(Copies(Ahead(16), 4))
Threefry        == BufGen64(4)
ThreefryVector  == NoCarry(ByWords(Copies(BufGen64(4), 4)))
Threefry2x64Get(words) == CountFirst(words)
Threefry2x64Vector == ByWords(Apart(Copies(Threefry2x64Get(2), 8)))
Xtea            == NoCarry(OnDemand(1))
XteaVector      == FirstCarries(Copies(OnDemand(1), 16))
Xtea2x64        == NoCarry(Ahead(2))
Xxtea128        == BufGen32(4)
Xxtea128Vector  == FirstCarries(ByWords(Copies(BufGen32(4), 8)))
Xxtea256        == BufGen32(8)

\* The first block is made by create, and again when the buffer is empty.
Lepton32x2      == Doubled(2)
Lepton32x4      == Doubled(4)
Xtea2           == Doubled(4)

-----------------------------------------------------------------------------
(***************************************************************************)
(* Buffers of chained blocks.                                              *)
(***************************************************************************)
Hc256Get(words) == Chained(OnDemand(words))
Hc256           == Hc256Get(16)
Isaac           == Downwards(Chained(Ahead(256)))
Isaac64         == Downwards(Chained(Ahead(256)))
MaD0            == Downwards(Chained(Eager(64)))
Ranluxpp        == Chained(Ahead(9))
Rge256Ex        == Chained(CountFirst(8))
Rge512Ex        == Chained(Ahead(8))
V3b             == WarmUp(Downwards(Chained(OnDemand(4))), 16)
Xoroshiro128ppBuffer == ByWords(Chained(Apart(Copies(OnDemand(250), 4))))

-----------------------------------------------------------------------------
(***************************************************************************)
(* Plugins that use what create has not initialised: the position, the     *)
(* words above the counters, or the state of the copies (unless both seeds *)
(* are 0).                                                                 *)
(***************************************************************************)
Beyond(p) == 0 .. Size(p) + 1

GhSc128         == StartsAt(WarmUp(Chained(OnDemand(2)), 16), Beyond(OnDemand(2)))
GhSc256         == StartsAt(WarmUp(Chained(OnDemand(4)), 16), Beyond(OnDemand(4)))
GhSc64Mod       == StartsAt(WarmUp(Chained(OnDemand(4)), 16), Beyond(OnDemand(4)))
GhSc64Old       == StartsAt(WarmUp(Chained(OnDemand(4)), 16), Beyond(OnDemand(4)))
Mularx256       == NotSet(NoCarry(OnDemand(4)))
Threefry2x64    == StartsAt(NoCarry(Threefry2x64Get(2)), 0 .. 2)
Xxtea256Vector  == NotSet(FirstCarries(ByWords(Copies(BufGen32(8), 8))))
Xoroshiro128ppVector == NotSet(Chained(Apart(Copies(OnDemand(1), 4))))
Xorshift128ppVector  == NotSet(Chained(Apart(Copies(OnDemand(1), 4))))

-----------------------------------------------------------------------------
BlockPlugins ==
    [aes128_aesni |-> Aes128Ni, aes128_c99 |-> Aes128C99, aesdec2 |-> AesDec2,
     blabla_scalar |-> BlaBlaScalar, blabla_vector |-> BlaBlaVector,
     chacha_c99 |-> ChaChaC99, chacha_ctr32 |-> ChaChaC99Ctr32,
     chacha_avx |-> ChaChaAvx, chacha_avxctr32 |-> ChaChaAvxCtr32,
     chacha_vector |-> ChaChaVector, des |-> Des,
     fwfarx128 |-> Fwfarx128Scalar, fwfarx128_avx2 |-> Fwfarx128Vector,
     fwfarx256 |-> Fwfarx256Scalar, fwfarx256_avx2 |-> Fwfarx256Vector,
     jctr32 |-> Jctr32Scalar, jctr32_avx2 |-> Jctr32Vector,
     jctr64 |-> Jctr64Scalar, jctr64_avx2 |-> Jctr64Vector,
     kuzn |-> Kuzn, lea |-> LeaScalar, lea_vector |-> LeaVector,
     leptonflurry32x1_v1 |-> Lepton32x1V1, leptonflurry32x1 |-> Lepton32x1V2,
     leptonflurry32x2 |-> Lepton32x2, leptonflurry32x4 |-> Lepton32x4,
     magma |-> MagmaScalar, magma_vector |-> MagmaVector,
     mularx128 |-> Mularx128, mularx128_u32 |-> Mularx128u32,
     philox |-> Philox, philox2x32 |-> Philox2x32, philox32 |-> Philox32,
     rge256exctr |-> Rge256ExCtr, rge512exctr |-> Rge512Scalar,
     rge512exctr_avx2 |-> Rge512Vector,
     speck128 |-> Speck128Scalar, speck128_vector |-> Speck128Vector,
     speck128sc |-> Speck128sc,
     threefish |-> Threefish1024, threefish_avx2 |-> Threefish1024Vector,
     threefry |-> Threefry, threefry_avx2 |-> ThreefryVector,
     threefry2x64_avx2 |-> Threefry2x64Vector,
     xtea |-> Xtea, xtea_vector |-> XteaVector, xtea2 |-> Xtea2, xtea2_64 |-> Xtea2x64,
     xxtea128 |-> Xxtea128, xxtea128_avx2 |-> Xxtea128Vector, xxtea256 |-> Xxtea256,
     hc256 |-> Hc256, isaac |-> Isaac, isaac64 |-> Isaac64, mad0 |-> MaD0,
     ranluxpp |-> Ranluxpp, rge256ex |-> Rge256Ex, rge512ex |-> Rge512Ex,
     v3b |-> V3b, xoroshiro128pp_vec |-> Xoroshiro128ppBuffer]

Uninitialised ==
    [ghsc128 |-> GhSc128, ghsc256 |-> GhSc256, ghsc64_mod |-> GhSc64Mod,
     ghsc64_old |-> GhSc64Old, mularx256 |-> Mularx256, threefry2x64 |-> Threefry2x64,
     xxtea256_avx2 |-> Xxtea256Vector, xoroshiro128pp_vector |-> Xoroshiro128ppVector,
     xorshift128pp_vector |-> Xorshift128ppVector]

=============================================================================
