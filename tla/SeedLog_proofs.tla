--------------------------- MODULE SeedLog_proofs ---------------------------
(***************************************************************************)
(* The log of issued seeds is never written outside its buffer and is the  *)
(* history of the seeds, for every initial length of the buffer, every     *)
(* limit of its growth and every number of seeds.                          *)
(***************************************************************************)
EXTENDS SeedLog, NumberLemmas, TLAPS

Gen == [key : Keys \cup {NoKey}, x12 : 0 .. WordRange - 1,
        x13 : 0 .. WordRange - 1, pos : 0 .. BlockSeeds]

(***************************************************************************)
(* A log of n entries in a buffer of len, against the history.             *)
(***************************************************************************)
LogInv(log, len, n, past) ==
    /\ log \in [1 .. len -> Entry \cup {NoEntry}]
    /\ len \in Nat /\ n \in Nat
    /\ n < len /\ len <= SlogMaxLen
    /\ past \in Seq(Entry)
    /\ n = Len(past) \/ (n = SlogMaxLen - 1 /\ n < Len(past))
    /\ \A i \in 1 .. n : log[i] = past[i]

(***************************************************************************)
(* One step of the generator stays within the ranges of its fields.        *)
(***************************************************************************)
LEMMA AdvanceType ==
    ASSUME NEW g \in Gen
    PROVE  Advance(g) \in Gen /\ Advance(g).key = g.key
<1>1. \A x \in Nat : x % WordRange \in 0 .. WordRange - 1
  BY SeedLogAssumption
<1>2. /\ g.key \in Keys \cup {NoKey}
      /\ g.x12 \in 0 .. WordRange - 1 /\ g.x13 \in 0 .. WordRange - 1
      /\ g.pos \in 0 .. BlockSeeds
  BY DEF Gen
<1>3. CASE g.pos >= BlockSeeds
  <2>1. (g.x12 + 1) % WordRange \in 0 .. WordRange - 1
    BY <1>1, <1>2, SeedLogAssumption
  <2>2. (g.x13 + 1) % WordRange \in 0 .. WordRange - 1
    BY <1>1, <1>2, SeedLogAssumption
  <2>3. 1 \in 0 .. BlockSeeds
    BY SeedLogAssumption
  <2>4. QED
    BY <1>2, <1>3, <2>1, <2>2, <2>3 DEF Advance, Gen
<1>4. CASE ~(g.pos >= BlockSeeds)
  <2>1. g.pos + 1 \in 0 .. BlockSeeds
    BY <1>2, <1>4, SeedLogAssumption
  <2>2. QED
    BY <1>2, <1>4, <2>1 DEF Advance, Gen
<1>5. QED
  BY <1>3, <1>4

(***************************************************************************)
(* A generator with a new key is within the ranges, and has that key.      *)
(***************************************************************************)
LEMMA FirstStateType ==
    ASSUME NEW k \in Keys
    PROVE  FirstState(k) \in Gen /\ FirstState(k).key = k
<1> DEFINE g == [key |-> k, x12 |-> 0, x13 |-> 0, pos |-> BlockSeeds]
<1>1. g \in Gen /\ g.key = k
  BY SeedLogAssumption DEF Gen
<1> HIDE DEF g
<1>2. QED
  BY <1>1, AdvanceType DEF FirstState, g

(***************************************************************************)
(* A new log is the history of no seeds.                                   *)
(***************************************************************************)
LEMMA NewLogInv == LogInv(NewLog, SlogLen, 0, <<>>)
BY SeedLogAssumption DEF LogInv, NewLog

(***************************************************************************)
(* The buffer that Entropy_seed64 writes to has room for the entry and one *)
(* more.                                                                   *)
(***************************************************************************)
LEMMA NewLenHasRoom ==
    ASSUME NEW len \in Nat, NEW n \in Nat,
           n < len, len <= SlogMaxLen, ~LogFull(n)
    PROVE  /\ NewLen(len, n) \in Nat
           /\ n + 1 < NewLen(len, n)
           /\ len <= NewLen(len, n)
           /\ NewLen(len, n) <= SlogMaxLen
BY SeedLogAssumption DEF NewLen, LogFull

(***************************************************************************)
(* Issuing a seed keeps the log the history.                               *)
(***************************************************************************)
LEMMA IssueSeedKeeps ==
    ASSUME NEW g \in Gen, g.key \in Keys, NEW o \in Ords,
           NEW log, NEW len, NEW n, NEW past,
           LogInv(log, len, n, past),
           IssueSeed(g, log, len, n, past, o)
    PROVE  /\ gen' \in Gen /\ gen'.key = g.key
           /\ LogInv(slog', slog_len', slog_pos', issued')
<1> DEFINE next == Advance(g)
           entry == [seed |-> SeedOf(next), thread_id |-> o]
<1>1. next \in Gen /\ next.key = g.key
  BY AdvanceType
<1>2. entry \in Entry
  <2> HIDE DEF next
  <2>1. QED
    BY <1>1 DEF SeedOf, Entry, Gen
<1>3. gen' = next /\ issued' = Append(past, entry)
  BY DEF IssueSeed
<1> HIDE DEF entry, next
<1>4. /\ issued' \in Seq(Entry)
      /\ Len(issued') = Len(past) + 1
      /\ issued'[Len(past) + 1] = entry
      /\ \A i \in 1 .. Len(past) : issued'[i] = past[i]
      /\ Len(past) \in Nat
  BY <1>2, <1>3 DEF LogInv
<1>5. CASE LogFull(n)
  <2>1. slog' = log /\ slog_len' = len /\ slog_pos' = n
    BY <1>5 DEF IssueSeed
  <2>2. n <= Len(past)
    BY <1>4 DEF LogInv
  <2>3. \A i \in 1 .. n : slog'[i] = issued'[i]
    BY <1>4, <2>1, <2>2 DEF LogInv
  <2>4. LogInv(slog', slog_len', slog_pos', issued')
    BY <1>4, <1>5, <2>1, <2>2, <2>3 DEF LogInv, LogFull
  <2>5. QED
    BY <1>1, <1>3, <2>4
<1>6. CASE ~LogFull(n)
  <2> DEFINE newlen == NewLen(len, n)
             buf == Resized(log, len, newlen)
  <2>1. /\ newlen \in Nat /\ n + 1 < newlen
        /\ len <= newlen /\ newlen <= SlogMaxLen
    BY <1>6, NewLenHasRoom DEF LogInv
  <2>2. /\ slog' = [buf EXCEPT ![n + 1] = entry]
        /\ slog_len' = newlen
        /\ slog_pos' = n + 1
    BY <1>6 DEF IssueSeed, entry, next
  <2>3. n = Len(past)
    BY <1>6 DEF LogInv, LogFull
  <2> HIDE DEF newlen
  <2>4. /\ buf \in [1 .. newlen -> Entry \cup {NoEntry}]
        /\ \A i \in 1 .. n : buf[i] = log[i]
    BY <2>1 DEF LogInv, Resized
  <2> HIDE DEF buf
  <2>5. slog' \in [1 .. newlen -> Entry \cup {NoEntry}]
    BY <1>2, <2>1, <2>2, <2>4
  <2>6. \A i \in 1 .. n + 1 : slog'[i] = issued'[i]
    <3>1. slog'[n + 1] = entry
      BY <2>1, <2>2, <2>4 DEF LogInv
    <3>2. ASSUME NEW i \in 1 .. n
          PROVE  slog'[i] = issued'[i]
      <4>1. i \in 1 .. newlen /\ i # n + 1 /\ i \in 1 .. Len(past)
        BY <2>1, <2>3 DEF LogInv
      <4>2. slog'[i] = buf[i]
        BY <2>2, <2>4, <4>1
      <4>3. log[i] = past[i]
        BY DEF LogInv
      <4>4. QED
        BY <1>4, <2>4, <4>1, <4>2, <4>3
    <3>3. QED
      BY <1>4, <2>3, <3>1, <3>2
  <2>7. LogInv(slog', slog_len', slog_pos', issued')
    BY <1>4, <2>1, <2>2, <2>3, <2>5, <2>6 DEF LogInv
  <2>8. QED
    BY <1>1, <1>3, <2>7
<1>7. QED
  BY <1>5, <1>6

-----------------------------------------------------------------------------
(***************************************************************************)
(* The inductive invariant: before the key is set there is no log, while   *)
(* the object is in use the log is the history, and after Entropy_free     *)
(* only the sizes are left.                                                *)
(***************************************************************************)
IInv ==
    /\ gen \in Gen
    /\ freed \in BOOLEAN
    /\ issued \in Seq(Entry)
    /\ slog_len \in 0 .. SlogMaxLen
    /\ slog_pos \in Nat
    /\ (freed \/ ~Entropy_is_init) => slog = <<>>
    /\ (Entropy_is_init /\ ~freed) => LogInv(slog, slog_len, slog_pos, issued)

(***************************************************************************)
(* A program starts with a generator without key and log.                  *)
(***************************************************************************)
LEMMA InitIInv == Init => IInv
<1> SUFFICES ASSUME Init PROVE IInv
  OBVIOUS
<1>1. gen \in Gen /\ gen.key = NoKey
  BY SeedLogAssumption DEF Init, Gen
<1>2. slog = <<>> /\ freed \in BOOLEAN
  BY DEF Init
<1>3. slog_len \in 0 .. SlogMaxLen /\ slog_pos \in Nat
  BY SeedLogAssumption DEF Init
<1>4. issued \in Seq(Entry)
  <2>1. issued = <<>>
    BY DEF Init
  <2>2. QED
    BY <2>1
<1>5. QED
  BY <1>1, <1>2, <1>3, <1>4 DEF IInv, Entropy_is_init

(***************************************************************************)
(* Setting a key, issuing a seed and freeing the log keep the invariant.   *)
(***************************************************************************)
LEMMA NextKeeps == IInv /\ [Next]_vars => IInv'
<1> SUFFICES ASSUME IInv, [Next]_vars PROVE IInv'
  OBVIOUS
<1>1. ASSUME NEW k \in Keys, Entropy_init_from_key(k) PROVE IInv'
  <2>1. gen' \in Gen /\ gen'.key # NoKey
    BY <1>1, FirstStateType, SeedLogAssumption DEF Entropy_init_from_key
  <2>2. LogInv(slog', slog_len', slog_pos', issued')
    BY <1>1, NewLogInv DEF Entropy_init_from_key
  <2>3. QED
    BY <1>1, <2>1, <2>2 DEF IInv, LogInv, Entropy_is_init, Entropy_init_from_key
<1>2. ASSUME NEW o \in Ords, Entropy_seed64(o) PROVE IInv'
  <2>1. gen \in Gen /\ gen.key \in Keys
    BY <1>2 DEF IInv, Entropy_seed64, Entropy_is_init, Gen
  <2>2. LogInv(slog, slog_len, slog_pos, issued)
    BY <1>2 DEF IInv, Entropy_seed64
  <2>3. /\ gen' \in Gen /\ gen'.key = gen.key
        /\ LogInv(slog', slog_len', slog_pos', issued')
    BY <1>2, <2>1, <2>2, IssueSeedKeeps DEF Entropy_seed64
  <2>4. QED
    BY <1>2, <2>3 DEF IInv, LogInv, Entropy_is_init, Entropy_seed64
<1>3. ASSUME NEW o \in Ords, NEW k \in Keys, Entropy_seed64_lazy(o, k)
      PROVE  IInv'
  <2>1. FirstState(k) \in Gen /\ FirstState(k).key \in Keys
    BY FirstStateType
  <2>2. /\ gen' \in Gen /\ gen'.key \in Keys
        /\ LogInv(slog', slog_len', slog_pos', issued')
    BY <1>3, <2>1, NewLogInv, IssueSeedKeeps DEF Entropy_seed64_lazy
  <2>3. QED
    BY <1>3, <2>2, SeedLogAssumption
    DEF IInv, LogInv, Entropy_is_init, Entropy_seed64_lazy
<1>4. CASE Entropy_free
  BY <1>4 DEF IInv, Entropy_free, Entropy_is_init
<1>5. CASE Exited \/ UNCHANGED vars
  BY <1>5 DEF IInv, LogInv, Entropy_is_init, Exited, vars
<1>6. QED
  BY <1>1, <1>2, <1>3, <1>4, <1>5 DEF Next

(***************************************************************************)
(* The invariant holds in every run.                                       *)
(***************************************************************************)
THEOREM Invariance == Spec => []IInv
<1>1. QED
  BY InitIInv, NextKeeps, PTL DEF Spec

(***************************************************************************)
(* Type correctness, with the bounds of the buffer: Entropy_seed64 always  *)
(* writes to an allocated entry.                                           *)
(***************************************************************************)
THEOREM TypeCorrect == Spec => []TypeOK
<1>1. IInv => TypeOK
  BY DEF IInv, LogInv, TypeOK, Gen, Entropy_is_init
<1>2. QED
  BY <1>1, Invariance, PTL

(***************************************************************************)
(* The printed log is the history of the seeds up to its limit.            *)
(***************************************************************************)
THEOREM LogIsComplete == Spec => []LogIsHistory
<1>1. IInv => LogIsHistory
  BY DEF IInv, LogInv, LogIsHistory
<1>2. QED
  BY <1>1, Invariance, PTL

-----------------------------------------------------------------------------
(***************************************************************************)
(* The seeds themselves: the state of the generator after m outputs is a   *)
(* function of the key and m.  Block number b of a key (the first one is   *)
(* 1) has b in its two counter words.                                      *)
(***************************************************************************)
BlockOf(m) == ((m - 1) \div BlockSeeds) + 1

IsAt(g, m) ==
    /\ g.x12 = BlockOf(m) % WordRange
    /\ g.x13 = (BlockOf(m) \div WordRange) % WordRange
    /\ g.pos = ((m - 1) % BlockSeeds) + 1

\* SeedOf reads off StreamSeed.
LEMMA SeedAt ==
    ASSUME NEW g, NEW m, IsAt(g, m)
    PROVE  SeedOf(g) = StreamSeed(g.key, m)
BY DEF SeedOf, StreamSeed, IsAt, BlockOf

(***************************************************************************)
(* The two words with their carry count the blocks, and the position       *)
(* starts again in each block.                                             *)
(***************************************************************************)
LEMMA AdvanceCounts ==
    ASSUME NEW g \in Gen, NEW m \in Nat \ {0}, IsAt(g, m)
    PROVE  IsAt(Advance(g), m + 1)
<1>1. /\ BlockSeeds \in Nat \ {0} /\ WordRange \in Nat \ {0}
      /\ m - 1 \in Nat
  BY SeedLogAssumption
<1>2. \A a \in Nat : /\ a \div BlockSeeds \in Nat
                     /\ a % BlockSeeds \in 0 .. BlockSeeds - 1
  BY <1>1, DivModOf
<1>3. BlockOf(m) \in Nat
  BY <1>1, <1>2 DEF BlockOf
<1>4. \A a \in Nat :
        /\ (a + 1) % BlockSeeds =
               IF a % BlockSeeds = BlockSeeds - 1 THEN 0 ELSE (a % BlockSeeds) + 1
        /\ (a + 1) \div BlockSeeds =
               IF a % BlockSeeds = BlockSeeds - 1
               THEN a \div BlockSeeds + 1 ELSE a \div BlockSeeds
  BY <1>1, DivModNext
<1>5. /\ BlockOf(m + 1) = ((m - 1) + 1) \div BlockSeeds + 1
      /\ (m + 1 - 1) % BlockSeeds = ((m - 1) + 1) % BlockSeeds
  <2>1. m + 1 - 1 = (m - 1) + 1
    OBVIOUS
  <2>2. QED
    BY <2>1 DEF BlockOf
<1>6. CASE (m - 1) % BlockSeeds = BlockSeeds - 1
  <2>1. BlockOf(m + 1) = BlockOf(m) + 1 /\ (m + 1 - 1) % BlockSeeds = 0
    BY <1>1, <1>4, <1>5, <1>6 DEF BlockOf
  <2>2. g.pos >= BlockSeeds
    BY <1>1, <1>6 DEF IsAt
  <2> DEFINE b == BlockOf(m)
  <2>3. b \in Nat /\ g.x12 = b % WordRange /\ g.x13 = (b \div WordRange) % WordRange
    BY <1>3 DEF IsAt
  <2>4. /\ BlockOf(m + 1) = b + 1
        /\ (m + 1 - 1) % BlockSeeds = 0
    BY <2>1
  <2> HIDE DEF b
  <2>5. \A a \in Nat :
          /\ a % WordRange \in 0 .. WordRange - 1 /\ a \div WordRange \in Nat
          /\ (a + 1) % WordRange =
                 IF a % WordRange = WordRange - 1 THEN 0 ELSE (a % WordRange) + 1
          /\ (a + 1) \div WordRange =
                 IF a % WordRange = WordRange - 1
                 THEN a \div WordRange + 1 ELSE a \div WordRange
    <3>1. ASSUME NEW a \in Nat
          PROVE  a % WordRange \in 0 .. WordRange - 1 /\ a \div WordRange \in Nat
      BY <1>1, DivModOf
    <3>2. QED
      BY <1>1, <3>1, DivModNext
  <2>6. Advance(g) =
            [g EXCEPT !.x12 = (@ + 1) % WordRange,
                      !.x13 = IF (g.x12 + 1) % WordRange = 0
                              THEN (@ + 1) % WordRange ELSE @,
                      !.pos = 1]
    BY <2>2 DEF Advance
  <2>7. /\ Advance(g).x12 = (g.x12 + 1) % WordRange
        /\ Advance(g).x13 = IF (g.x12 + 1) % WordRange = 0
                            THEN (g.x13 + 1) % WordRange ELSE g.x13
        /\ Advance(g).pos = 1
    BY <2>6 DEF Gen
  <2>8. \A a \in Nat : ((a % WordRange) + 1) % WordRange = (a + 1) % WordRange
    <3> SUFFICES ASSUME NEW a \in Nat
                 PROVE  ((a % WordRange) + 1) % WordRange = (a + 1) % WordRange
      OBVIOUS
    <3>1. (a % WordRange) % WordRange = a % WordRange
      <4>1. \A r \in 0 .. WordRange - 1 : r % WordRange = r
        BY <1>1
      <4>2. QED
        BY <2>5, <4>1
    <3>2. a % WordRange \in Nat
      BY <1>1, <2>5
    <3>3. QED
      BY <2>5, <3>1, <3>2
  <2>9. Advance(g).x12 = (b + 1) % WordRange
    BY <2>3, <2>7, <2>8
  <2>10. Advance(g).x13 = ((b + 1) \div WordRange) % WordRange
    <3>1. CASE b % WordRange = WordRange - 1
      <4>1. (b + 1) % WordRange = 0 /\ (b + 1) \div WordRange = b \div WordRange + 1
        BY <2>3, <2>5, <3>1
      <4>2. Advance(g).x13 = (g.x13 + 1) % WordRange
        BY <2>7, <2>9, <4>1
      <4>3. b \div WordRange \in Nat
        BY <2>3, <2>5
      <4>4. QED
        BY <2>3, <2>8, <4>1, <4>2, <4>3
    <3>2. CASE b % WordRange # WordRange - 1
      <4>1. /\ (b + 1) % WordRange = (b % WordRange) + 1
            /\ (b + 1) \div WordRange = b \div WordRange
        BY <2>3, <2>5, <3>2
      <4>2. (b + 1) % WordRange # 0
        BY <1>1, <2>3, <2>5, <4>1
      <4>3. QED
        BY <2>3, <2>7, <2>9, <4>1, <4>2
    <3>3. QED
      BY <3>1, <3>2
  <2>11. QED
    BY <2>4, <2>7, <2>9, <2>10 DEF IsAt
<1>7. CASE (m - 1) % BlockSeeds # BlockSeeds - 1
  <2>1. /\ BlockOf(m + 1) = BlockOf(m)
        /\ (m + 1 - 1) % BlockSeeds = ((m - 1) % BlockSeeds) + 1
    BY <1>1, <1>4, <1>5, <1>7 DEF BlockOf
  <2>2. ~(g.pos >= BlockSeeds)
    <3>1. PICK r \in 0 .. BlockSeeds - 1 : r = (m - 1) % BlockSeeds
      BY <1>1, <1>2
    <3>2. g.pos = r + 1 /\ r # BlockSeeds - 1
      BY <1>7, <3>1 DEF IsAt
    <3>3. QED
      BY <1>1, <3>2
  <2>3. /\ Advance(g).x12 = g.x12 /\ Advance(g).x13 = g.x13
        /\ Advance(g).pos = g.pos + 1
    BY <2>2 DEF Advance, Gen
  <2>4. QED
    BY <2>1, <2>3 DEF IsAt
<1>8. QED
  BY <1>6, <1>7

(***************************************************************************)
(* A new key starts behind the four outputs that are only printed.         *)
(***************************************************************************)
LEMMA FirstStateCounts ==
    ASSUME NEW k \in Keys
    PROVE  IsAt(FirstState(k), 4)
<1> DEFINE g == [key |-> k, x12 |-> 0, x13 |-> 0, pos |-> BlockSeeds]
<1>1. g \in Gen
  BY SeedLogAssumption DEF Gen
<1>2. IsAt(Advance(g), 1)
  <2>1. Advance(g).x12 = 1 % WordRange /\ Advance(g).pos = 1
    BY SeedLogAssumption DEF Advance
  <2>2. 1 % WordRange = 1 /\ 1 \div WordRange = 0 /\ 0 % WordRange = 0
    BY SeedLogAssumption
  <2>3. Advance(g).x13 = 0
    BY <2>2, SeedLogAssumption DEF Advance
  <2>4. (1 - 1) \div BlockSeeds = 0 /\ (1 - 1) % BlockSeeds = 0
    BY SeedLogAssumption
  <2>5. BlockOf(1) = 1
    BY <2>4 DEF BlockOf
  <2>6. QED
    BY <2>1, <2>2, <2>3, <2>4, <2>5 DEF IsAt
<1> HIDE DEF g
<1> DEFINE g1 == Advance(g)
           g2 == Advance(g1)
           g3 == Advance(g2)
<1>3. g1 \in Gen /\ g2 \in Gen /\ g3 \in Gen
  BY <1>1, AdvanceType
<1>4. IsAt(g1, 1)
  BY <1>2
<1>5. FirstState(k) = Advance(g3)
  BY DEF FirstState, g
<1> HIDE DEF g1, g2, g3
<1>6. IsAt(g2, 1 + 1)
  BY <1>3, <1>4, AdvanceCounts DEF g2
<1>7. IsAt(g3, 2 + 1)
  BY <1>3, <1>6, AdvanceCounts DEF g3
<1>8. IsAt(Advance(g3), 3 + 1)
  BY <1>3, <1>7, AdvanceCounts
<1>9. QED
  BY <1>5, <1>8

(***************************************************************************)
(* The seeds issued so far are the outputs of the key that follow the      *)
(* first four, and the generator has gone no further.                      *)
(***************************************************************************)
StreamInv(g, past) ==
    /\ IsAt(g, Len(past) + 4)
    /\ \A n \in 1 .. Len(past) : past[n].seed = StreamSeed(g.key, n + 4)

\* The next seed is the next output.
LEMMA IssueSeedContinues ==
    ASSUME NEW g \in Gen, NEW log, NEW len, NEW n, NEW past \in Seq(Entry), NEW o,
           StreamInv(g, past),
           IssueSeed(g, log, len, n, past, o)
    PROVE  StreamInv(gen', issued')
<1> DEFINE next == Advance(g)
           entry == [seed |-> SeedOf(next), thread_id |-> o]
           l == Len(past)
<1>1. l \in Nat /\ IsAt(g, l + 4)
  BY DEF StreamInv
<1>2. IsAt(next, l + 4 + 1) /\ next.key = g.key
  BY <1>1, AdvanceCounts, AdvanceType
<1>3. gen' = next /\ issued' = Append(past, entry)
  BY DEF IssueSeed
<1>4. entry.seed = StreamSeed(g.key, l + 4 + 1)
  BY <1>2, SeedAt
<1> HIDE DEF next, entry
<1>5. /\ Len(issued') = l + 1
      /\ issued'[l + 1] = entry
      /\ \A i \in 1 .. l : issued'[i] = past[i]
  BY <1>3
<1>6. l + 4 + 1 = l + 1 + 4
  BY <1>1
<1>7. IsAt(gen', Len(issued') + 4)
  BY <1>2, <1>3, <1>5, <1>6
<1>8. ASSUME NEW i \in 1 .. l + 1
      PROVE  issued'[i].seed = StreamSeed(g.key, i + 4)
  <2>1. CASE i = l + 1
    BY <1>4, <1>5, <1>6, <2>1
  <2>2. CASE i # l + 1
    <3>1. i \in 1 .. l
      BY <1>1, <2>2
    <3>2. QED
      BY <1>5, <3>1 DEF StreamInv
  <2>3. QED
    BY <2>1, <2>2
<1>9. QED
  BY <1>2, <1>3, <1>5, <1>7, <1>8 DEF StreamInv

(***************************************************************************)
(* The key given back as a seed option yields the same seeds, whatever key *)
(* the generator had before: the seeds issued since the key was set are a  *)
(* function of the key and of how many there were (Entropy_init_from_key,  *)
(* Entropy_seed64).                                                        *)
(***************************************************************************)
ReplayInv ==
    /\ ~Entropy_is_init => issued = <<>>
    /\ Entropy_is_init => StreamInv(gen, issued)

\* Nothing has been issued for a new key.
LEMMA FirstStateStream ==
    ASSUME NEW k \in Keys
    PROVE  StreamInv(FirstState(k), <<>>)
BY FirstStateCounts DEF StreamInv

\* The seeds of a key are replayable from the key.
THEOREM SeedsCanBeReplayed == Spec => []SeedsAreReplayable
<1>1. Init => ReplayInv
  BY DEF Init, ReplayInv, Entropy_is_init
<1>2. IInv /\ ReplayInv /\ [Next]_vars => ReplayInv'
  <2> SUFFICES ASSUME IInv, ReplayInv, [Next]_vars PROVE ReplayInv'
    OBVIOUS
  <2>1. ASSUME NEW k \in Keys, Entropy_init_from_key(k) PROVE ReplayInv'
    <3>1. gen' = FirstState(k) /\ issued' = <<>>
      BY <2>1 DEF Entropy_init_from_key
    <3>2. QED
      BY <3>1, FirstStateStream DEF ReplayInv
  <2>2. ASSUME NEW o \in Ords, Entropy_seed64(o) PROVE ReplayInv'
    <3>1. gen \in Gen /\ issued \in Seq(Entry) /\ StreamInv(gen, issued)
      BY <2>2 DEF IInv, ReplayInv, Entropy_seed64
    <3>2. StreamInv(gen', issued')
      BY <2>2, <3>1, IssueSeedContinues DEF Entropy_seed64
    <3>3. gen'.key = gen.key /\ gen.key # NoKey
      <4>1. gen' = Advance(gen)
        BY <2>2 DEF Entropy_seed64, IssueSeed
      <4>2. QED
        BY <2>2, <3>1, <4>1, AdvanceType DEF Entropy_seed64, Entropy_is_init
    <3>4. QED
      BY <3>2, <3>3 DEF ReplayInv, Entropy_is_init
  <2>3. ASSUME NEW o \in Ords, NEW k \in Keys, Entropy_seed64_lazy(o, k)
        PROVE  ReplayInv'
    <3>1. /\ FirstState(k) \in Gen /\ FirstState(k).key = k
          /\ StreamInv(FirstState(k), <<>>)
      BY FirstStateType, FirstStateStream
    <3>2. <<>> \in Seq(Entry)
      OBVIOUS
    <3>3. StreamInv(gen', issued')
      BY <2>3, <3>1, <3>2, IssueSeedContinues DEF Entropy_seed64_lazy
    <3>4. gen'.key = k
      <4>1. gen' = Advance(FirstState(k))
        BY <2>3 DEF Entropy_seed64_lazy, IssueSeed
      <4>2. QED
        BY <3>1, <4>1, AdvanceType
    <3>5. QED
      BY <3>3, <3>4, SeedLogAssumption DEF ReplayInv, Entropy_is_init
  <2>4. CASE Entropy_free
    BY <2>4 DEF ReplayInv, Entropy_free, Entropy_is_init
  <2>5. CASE Exited \/ UNCHANGED vars
    BY <2>5 DEF ReplayInv, Exited, vars, Entropy_is_init
  <2>6. QED
    BY <2>1, <2>2, <2>3, <2>4, <2>5 DEF Next
<1>3. IInv /\ ReplayInv => SeedsAreReplayable
  BY DEF ReplayInv, StreamInv, SeedsAreReplayable
<1>4. QED
  BY <1>1, <1>2, <1>3, Invariance, PTL DEF Spec

-----------------------------------------------------------------------------
(***************************************************************************)
(* A number from 1 to W * W is known from its two digits in base W: W * W  *)
(* itself has those of 0, which is not among them.                         *)
(***************************************************************************)
LEMMA TwoDigits ==
    ASSUME NEW W \in Nat \ {0},
           NEW b \in 1 .. W * W, NEW c \in 1 .. W * W,
           b % W = c % W, (b \div W) % W = (c \div W) % W
    PROVE  b = c
<1>1. b \in Nat /\ c \in Nat
  OBVIOUS
<1>2. PICK p \in Nat, r \in 0 .. W - 1 : b = p * W + r /\ b \div W = p /\ b % W = r
  BY <1>1, DivModOf
<1>3. PICK q \in Nat, s \in 0 .. W - 1 : c = q * W + s /\ c \div W = q /\ c % W = s
  BY <1>1, DivModOf
<1>4. r = s /\ p % W = q % W
  BY <1>2, <1>3
<1>5. ASSUME NEW a \in Nat, NEW d \in Nat, NEW u \in 0 .. W - 1,
             a = d * W + u, 1 <= a, a <= W * W
      PROVE  d < W \/ (d = W /\ u = 0)
  <2>1. d <= W
    <3>1. d * W <= W * W
      BY <1>5
    <3>2. d * W > W * W \/ d <= W
      <4>1. CASE d <= W
        BY <4>1
      <4>2. CASE d > W
        <5>1. PICK e \in Nat \ {0} : d = W + e
          <6>1. d - W \in Nat \ {0} /\ d = W + (d - W)
            BY <4>2
          <6>2. QED
            BY <6>1
        <5>2. d * W = W * W + e * W /\ e * W > 0
          BY <5>1
        <5>3. QED
          BY <5>2
      <4>3. QED
        BY <4>1, <4>2
    <3>3. QED
      BY <3>1, <3>2
  <2>2. d = W => u = 0
    BY <1>5
  <2>3. QED
    BY <2>1, <2>2
<1>6. /\ p < W \/ (p = W /\ r = 0)
      /\ q < W \/ (q = W /\ s = 0)
  BY <1>1, <1>2, <1>3, <1>5
<1>7. /\ \A a \in 0 .. W - 1 : a % W = a
      /\ W % W = 0
  OBVIOUS
<1>8. p = q
  <2>1. CASE p < W /\ q < W
    BY <1>4, <1>7, <2>1
  <2>2. CASE p = W /\ q < W
    <3>1. r = 0 /\ s = 0 /\ q = 0
      BY <1>4, <1>6, <1>7, <2>2
    <3>2. c = 0
      BY <1>3, <3>1
    <3>3. QED
      BY <3>2
  <2>3. CASE p < W /\ q = W
    <3>1. r = 0 /\ s = 0 /\ p = 0
      BY <1>4, <1>6, <1>7, <2>3
    <3>2. b = 0
      BY <1>2, <3>1
    <3>3. QED
      BY <3>2
  <2>4. CASE p = W /\ q = W
    BY <2>4
  <2>5. QED
    BY <1>6, <2>1, <2>2, <2>3, <2>4
<1>9. QED
  BY <1>2, <1>3, <1>4, <1>8

(***************************************************************************)
(* An output of the generator is known from its place in its block and the *)
(* two words of the counter, up to the last block before they repeat.      *)
(***************************************************************************)
LEMMA OutputsDiffer ==
    ASSUME NEW k, NEW m \in Nat \ {0}, NEW n \in Nat \ {0},
           m <= BlockSeeds * WordRange * WordRange,
           n <= BlockSeeds * WordRange * WordRange,
           StreamSeed(k, m) = StreamSeed(k, n)
    PROVE  m = n
<1>1. /\ BlockSeeds \in Nat \ {0} /\ WordRange \in Nat \ {0}
      /\ m - 1 \in Nat /\ n - 1 \in Nat
  BY SeedLogAssumption
<1>2. PICK p \in Nat, r \in 0 .. BlockSeeds - 1 :
          /\ m - 1 = p * BlockSeeds + r
          /\ (m - 1) \div BlockSeeds = p /\ (m - 1) % BlockSeeds = r
  BY <1>1, DivModOf
<1>3. PICK q \in Nat, s \in 0 .. BlockSeeds - 1 :
          /\ n - 1 = q * BlockSeeds + s
          /\ (n - 1) \div BlockSeeds = q /\ (n - 1) % BlockSeeds = s
  BY <1>1, DivModOf
<1>4. /\ (p + 1) % WordRange = (q + 1) % WordRange
      /\ ((p + 1) \div WordRange) % WordRange = ((q + 1) \div WordRange) % WordRange
      /\ r + 1 = s + 1
  BY <1>2, <1>3 DEF StreamSeed
<1>5. PICK w \in Nat : w = WordRange * WordRange
  BY <1>1
<1>6. BlockSeeds * WordRange * WordRange = w * BlockSeeds
  BY <1>1, <1>5
<1>7. ASSUME NEW d \in Nat, NEW u \in Nat, NEW a \in Nat,
             a = d * BlockSeeds + u, a < w * BlockSeeds
      PROVE  d < w
  <2> SUFFICES ASSUME d >= w PROVE FALSE
    OBVIOUS
  <2>1. PICK e \in Nat : d = w + e
    <3>1. d - w \in Nat /\ d = w + (d - w)
      OBVIOUS
    <3>2. QED
      BY <3>1
  <2>2. d * BlockSeeds = w * BlockSeeds + e * BlockSeeds /\ e * BlockSeeds >= 0
    BY <1>1, <2>1
  <2>3. QED
    BY <1>7, <2>2, <1>1
<1>8. p < w /\ q < w
  <2>1. m - 1 < w * BlockSeeds /\ n - 1 < w * BlockSeeds
    BY <1>1, <1>5, <1>6
  <2>2. QED
    BY <1>1, <1>2, <1>3, <1>7, <2>1
<1>9. p + 1 = q + 1
  <2>1. p + 1 \in 1 .. WordRange * WordRange /\ q + 1 \in 1 .. WordRange * WordRange
    BY <1>5, <1>8
  <2>2. QED
    BY <1>1, <1>4, <2>1, TwoDigits
<1>10. QED
  BY <1>2, <1>3, <1>4, <1>9

(***************************************************************************)
(* No two threads, and no two tests, ever get the same seed before the     *)
(* counter of blocks has run through all its values (Entropy_seed64).      *)
(***************************************************************************)
THEOREM SeedsDiffer == Spec => []SeedsAreDistinct
<1>1. IInv /\ SeedsAreReplayable => SeedsAreDistinct
  <2> SUFFICES ASSUME IInv, SeedsAreReplayable,
                      Len(issued) + 4 <= BlockSeeds * WordRange * WordRange,
                      NEW m \in 1 .. Len(issued), NEW n \in 1 .. Len(issued),
                      issued[m].seed = issued[n].seed
               PROVE  m = n
    BY DEF SeedsAreDistinct
  <2>1. Len(issued) \in Nat
    BY DEF IInv
  <2>2. PICK last \in Nat : last = BlockSeeds * WordRange * WordRange
    BY SeedLogAssumption
  <2>3. /\ m + 4 \in Nat \ {0} /\ n + 4 \in Nat \ {0}
        /\ m + 4 <= last /\ n + 4 <= last
    BY <2>1, <2>2
  <2>4. StreamSeed(gen.key, m + 4) = StreamSeed(gen.key, n + 4)
    BY DEF SeedsAreReplayable
  <2>5. m + 4 = n + 4
    BY <2>2, <2>3, <2>4, OutputsDiffer
  <2>6. QED
    BY <2>1, <2>5
<1>2. QED
  BY <1>1, Invariance, SeedsCanBeReplayed, PTL

=============================================================================
