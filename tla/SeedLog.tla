------------------------------- MODULE SeedLog -------------------------------
(***************************************************************************)
(* The seed generator of src/src/entropy.c: a ChaCha20 counter generator   *)
(* that hands out 64-bit seeds, and the log of the seeds it has handed     *)
(* out, a buffer that doubles up to a limit and then stops growing.        *)
(*                                                                         *)
(* The cipher is abstracted to what it guarantees: word i of a block is a  *)
(* function of key, counter and i, so a seed is named by these three.  The *)
(* counter keeps its two words and their carry.                            *)
(*                                                                         *)
(* The object is not thread safe; get_seed64_mt (module BatteryThreads)    *)
(* serialises the calls, so each call is one step here.                    *)
(***************************************************************************)
EXTENDS Integers, Sequences

CONSTANTS
    Keys,          \* 256-bit keys
    NoKey,         \* the generator is not initialized
    Ords,          \* thread ordinals a seed is logged under
    WordRange,     \* values of a counter word: 2^32 in the code
    BlockSeeds,    \* seeds in a block of 16 words: 8 in the code
    SlogLen,       \* entries of a new log: 2^8 in the code
    SlogMaxLen,    \* limit of its growth: 2^20 in the code
    MaxSeeds       \* bound on the seeds of one key

ASSUME SeedLogAssumption ==
    /\ NoKey \notin Keys
    /\ Ords \subseteq Nat
    /\ WordRange \in Nat \ {0, 1}
    /\ BlockSeeds \in Nat \ {0}
    /\ SlogLen \in Nat \ {0}
    /\ SlogMaxLen \in Nat
    /\ SlogLen <= SlogMaxLen
    /\ MaxSeeds \in Nat

VARIABLES
    gen,         \* key, counter words and position of the ChaCha20 state
    slog,        \* the buffer of the log
    slog_len,    \* entries allocated
    slog_pos,    \* entries in use
    freed,       \* Entropy_free has been called
    issued       \* history: entries for all seeds since the key was set

vars == <<gen, slog, slog_len, slog_pos, freed, issued>>

NoEntry == [seed |-> <<>>, thread_id |-> 0]     \* calloc

Init ==
    /\ gen = [key |-> NoKey, x12 |-> 0, x13 |-> 0, pos |-> 0]
    /\ slog = <<>>
    /\ slog_len = 0
    /\ slog_pos = 0
    /\ freed = FALSE
    /\ issued = <<>>

Entropy_is_init == gen.key # NoKey

\* Mutant: the carry into the second counter word is missing.
AdvanceNoCarry(g) ==
    IF g.pos >= BlockSeeds
    THEN [g EXCEPT !.x12 = (@ + 1) % WordRange, !.pos = 1]
    ELSE [g EXCEPT !.pos = @ + 1]

(***************************************************************************)
(* ChaCha20State_next64 takes two words of a block; an exhausted block is  *)
(* followed by the one of the next counter value.                          *)
(***************************************************************************)
Advance(g) ==
    IF g.pos >= BlockSeeds
    THEN [g EXCEPT !.x12 = (@ + 1) % WordRange,
                   !.x13 = IF (g.x12 + 1) % WordRange = 0
                           THEN (@ + 1) % WordRange ELSE @,
                   !.pos = 1]
    ELSE [g EXCEPT !.pos = @ + 1]

SeedOf(g) == <<g.key, g.x12, g.x13, g.pos>>

\* Mutant: the position in the block is not reset for a new key.
FirstStateKeepsPos(k) ==
    Advance(Advance(Advance(Advance(
        [key |-> k, x12 |-> 0, x13 |-> 0,
         pos |-> IF Entropy_is_init THEN gen.pos ELSE BlockSeeds]))))

(***************************************************************************)
(* ChaCha20State_init starts with an exhausted block; the first four       *)
(* outputs are printed by Entropy_init_from_key and never used as seeds.   *)
(***************************************************************************)
FirstState(k) ==
    Advance(Advance(Advance(Advance(
        [key |-> k, x12 |-> 0, x13 |-> 0, pos |-> BlockSeeds]))))

NewLog == [i \in 1 .. SlogLen |-> NoEntry]

(***************************************************************************)
(* Entropy_init_from_textseed and a successful                             *)
(* Entropy_init_from_base64_seed (corrupted base64 changes nothing): the   *)
(* options of the command line may set the key more than once.             *)
(***************************************************************************)
Entropy_init_from_key(k) ==
    /\ ~freed
    /\ gen' = FirstState(k)
    /\ slog' = NewLog
    /\ slog_len' = SlogLen
    /\ slog_pos' = 0
    /\ issued' = <<>>
    /\ UNCHANGED freed

(***************************************************************************)
(* Resizing in Entropy_seed64: the length doubles up to its limit, realloc *)
(* keeps what is in the buffer.  The buffer grows one entry before it is   *)
(* full.                                                                   *)
(***************************************************************************)
NewLen(len, n) ==
    IF n < len - 1 THEN len
    ELSE IF 2 * len > SlogMaxLen THEN SlogMaxLen ELSE 2 * len

\* Mutant: the old entries are not copied.
ResizedFresh(log, len, newlen) ==
    IF newlen = len THEN log ELSE [i \in 1 .. newlen |-> NoEntry]

Resized(log, len, newlen) ==
    [i \in 1 .. newlen |-> IF i <= len THEN log[i] ELSE NoEntry]

\* Mutant: logging goes on when the log has reached its limit.
LogFullNever(n) == FALSE

(***************************************************************************)
(* The log stops one entry before its limit.                               *)
(***************************************************************************)
LogFull(n) == n = SlogMaxLen - 1

(***************************************************************************)
(* The rest of Entropy_seed64, with the generator in state g and the log   *)
(* as given: the next seed, its entry in the log while there is room.      *)
(***************************************************************************)
IssueSeed(g, log, len, n, past, thread_id) ==
    LET next   == Advance(g)
        entry  == [seed |-> SeedOf(next), thread_id |-> thread_id]
        newlen == NewLen(len, n)
    IN  /\ gen' = next
        /\ issued' = Append(past, entry)
        /\ IF LogFull(n)
           THEN slog' = log /\ slog_len' = len /\ slog_pos' = n
           ELSE /\ slog' = [Resized(log, len, newlen) EXCEPT ![n + 1] = entry]
                /\ slog_len' = newlen
                /\ slog_pos' = n + 1

Entropy_seed64(thread_id) ==
    /\ ~freed /\ Entropy_is_init
    /\ Len(issued) < MaxSeeds
    /\ IssueSeed(gen, slog, slog_len, slog_pos, issued, thread_id)
    /\ UNCHANGED freed

(***************************************************************************)
(* The first call without a seed option takes a key from the system        *)
(* (Entropy_init) and goes on with it.                                     *)
(***************************************************************************)
Entropy_seed64_lazy(thread_id, k) ==
    /\ ~freed /\ ~Entropy_is_init
    /\ MaxSeeds > 0
    /\ IssueSeed(FirstState(k), NewLog, SlogLen, 0, <<>>, thread_id)
    /\ UNCHANGED freed

(***************************************************************************)
(* Entropy_free only drops the buffer: the object still looks initialized. *)
(* The programs free it (CallerAPI_free) on their way out.                 *)
(***************************************************************************)
Entropy_free ==
    /\ ~freed
    /\ freed' = TRUE
    /\ slog' = <<>>
    /\ UNCHANGED <<gen, slog_len, slog_pos, issued>>

Exited == freed /\ UNCHANGED vars

Next ==
    \/ \E k \in Keys : Entropy_init_from_key(k)
    \/ \E o \in Ords : Entropy_seed64(o)
    \/ \E o \in Ords, k \in Keys : Entropy_seed64_lazy(o, k)
    \/ Entropy_free
    \/ Exited

Spec == Init /\ [][Next]_vars

-----------------------------------------------------------------------------
Entry == [seed : (Keys \cup {NoKey}) \X Nat \X Nat \X Nat, thread_id : Ords]

(***************************************************************************)
(* The buffer has the length the object says, and the position of the next *)
(* entry lies inside.                                                      *)
(***************************************************************************)
TypeOK ==
    /\ gen \in [key : Keys \cup {NoKey}, x12 : 0 .. WordRange - 1,
                x13 : 0 .. WordRange - 1, pos : 0 .. BlockSeeds]
    /\ slog_len \in 0 .. SlogMaxLen
    /\ slog_pos \in Nat
    /\ freed \in BOOLEAN
    /\ issued \in Seq(Entry)
    /\ IF freed \/ ~Entropy_is_init
       THEN slog = <<>>
       ELSE /\ slog \in [1 .. slog_len -> Entry \cup {NoEntry}]
            /\ slog_pos < slog_len

(***************************************************************************)
(* The log that the full report prints is the history of the seeds since   *)
(* the key was set, as far as it goes: no reallocation loses an entry, no  *)
(* entry is written twice, and when the log has reached its limit the      *)
(* seeds it misses are the last ones.                                      *)
(***************************************************************************)
LogIsHistory ==
    (Entropy_is_init /\ ~freed) =>
        /\ \/ slog_pos = Len(issued)
           \/ slog_pos = SlogMaxLen - 1 /\ slog_pos < Len(issued)
        /\ \A i \in 1 .. slog_pos : slog[i] = issued[i]

(***************************************************************************)
(* The key that Entropy_get_base64_key prints into the report, given back  *)
(* as a seed option, yields the same seeds: the n-th seed depends on the   *)
(* present key and n alone, whatever key the object had before.            *)
(***************************************************************************)
StreamSeed(k, m) ==    \* output number m of the generator, from 1
    LET block == ((m - 1) \div BlockSeeds) + 1
    IN  <<k, block % WordRange, (block \div WordRange) % WordRange,
          ((m - 1) % BlockSeeds) + 1>>

SeedsAreReplayable ==
    \A n \in 1 .. Len(issued) :
        issued[n].seed = StreamSeed(gen.key, n + 4)

(***************************************************************************)
(* No two threads ever get the same seed before the 64-bit block counter   *)
(* has run through all its values.                                         *)
(***************************************************************************)
SeedsAreDistinct ==
    Len(issued) + 4 <= BlockSeeds * WordRange * WordRange =>
        \A m, n \in 1 .. Len(issued) :
            issued[m].seed = issued[n].seed => m = n

=============================================================================
