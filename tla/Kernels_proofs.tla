---------------------------- MODULE Kernels_proofs ----------------------------
(***************************************************************************)
(* Proofs about loops of the library and its tools that keep a state: the  *)
(* search for triples by several threads (src/apps/find_xorshift_params.c) *)
(* for any number of threads and of triples, the Berlekamp-Massey loop     *)
(* (src/src/lineardep.c) for any sequence, the reader of stdin             *)
(* (src/src/fileio.c) for any input and size of its blocks, the envelopes  *)
(* (src/src/core.c) for words of any width, the plugins that make blocks   *)
(* (generators/) for counters of any width, base64 (src/src/base64.c) for  *)
(* any text, and the gap tests (src/src/coretests.c) for any stream.       *)
(***************************************************************************)
EXTENDS KernelTasks, TripleSearch, NumberLemmas, SequenceTheorems, TLAPS

(***************************************************************************)
(* The threads of a search with len triples, from when they are created to *)
(* when all of them have ended.                                            *)
(***************************************************************************)
VARIABLE search

SearchSpec(len, nthreads, unset, good) ==
    /\ search \in SearchOf(len, nthreads, unset)
    /\ [][search' \in SearchSteps(search, good)]_search

Searchers(nthreads) == 0 .. nthreads - 1

Surplus(nthreads) == {ord \in Searchers(nthreads) : ord >= TableSize}

(***************************************************************************)
(* The threads that take triple i for theirs, and those of them that have  *)
(* come past it.                                                           *)
(***************************************************************************)
Owners(i, nthreads) ==
    {ord \in Searchers(nthreads) : OwnOrd(ord) = DealtTo(i - 1, nthreads)}

Visitors(s, i, nthreads) == {ord \in Owners(i, nthreads) : s.at[ord] > i}

(***************************************************************************)
(* The inductive invariant: a triple has been examined as often as threads *)
(* that take it for theirs have passed it, and is good if it was examined  *)
(* and has the full period.                                                *)
(***************************************************************************)
SearchRecords(len, nthreads) ==
    [at : [Searchers(nthreads) -> Nat \ {0}],
     triples : [1 .. len -> [is_good : BOOLEAN, times : Nat]],
     refused : BOOLEAN]

SearchInv(s, len, nthreads, good) ==
    /\ s \in SearchRecords(len, nthreads)
    /\ \A i \in 1 .. len :
        /\ s.triples[i].times = Cardinality(Visitors(s, i, nthreads))
        /\ s.triples[i].is_good <=> i \in good /\ Visitors(s, i, nthreads) # {}

-----------------------------------------------------------------------------
(***************************************************************************)
(* Visitors are finitely many, as the threads are.                         *)
(***************************************************************************)
LEMMA OwnersFinite ==
    ASSUME NEW nthreads \in Nat \ {0}, NEW i
    PROVE  /\ IsFiniteSet(Searchers(nthreads))
           /\ Cardinality(Searchers(nthreads)) = nthreads
           /\ \A S \in SUBSET Owners(i, nthreads) : IsFiniteSet(S)
<1>1. IsFiniteSet(Searchers(nthreads)) /\ Cardinality(Searchers(nthreads)) = nthreads
  BY FS_Interval DEF Searchers
<1>2. ASSUME NEW S \in SUBSET Owners(i, nthreads) PROVE IsFiniteSet(S)
  <2>1. S \in SUBSET Searchers(nthreads)
    BY DEF Owners
  <2>2. QED
    BY <1>1, <2>1, FS_Subset
<1>3. QED
  BY <1>1, <1>2

\* The table of triples is a sequence.
LEMMA TriplesLen ==
    ASSUME NEW len \in Nat, NEW S, NEW t \in [1 .. len -> S]
    PROVE  Len(t) = len
BY LenProperties, SeqDef

(***************************************************************************)
(* Of the numbers from a on that leave the remainder o there is a least    *)
(* one, so the loop of xorshift_thread has a next triple to stop at.       *)
(***************************************************************************)
LEMMA NextOfRemainder ==
    ASSUME NEW n \in Nat \ {0}, NEW a \in Nat, NEW o \in 0 .. n - 1
    PROVE  \E b \in Nat : /\ a <= b /\ b % n = o
                          /\ \A c \in Nat : a <= c /\ c % n = o => b <= c
<1>1. PICK q \in Nat, r \in 0 .. n - 1 : a = q * n + r
  BY DivModOf
<1>2. ASSUME NEW d \in Nat, a <= d * n + o, d * n + o < a + n
      PROVE  \E b \in Nat : /\ a <= b /\ b % n = o
                            /\ \A c \in Nat : a <= c /\ c % n = o => b <= c
  <2>1. PICK b \in Nat : b = d * n + o
    OBVIOUS
  <2>2. b % n = o
    BY <2>1, DivModIs
  <2>3. ASSUME NEW c \in Nat, a <= c, c % n = o PROVE b <= c
    <3>1. PICK p \in Nat : c = p * n + o
      BY <2>3, DivModOf
    <3>2. p >= d \/ p <= d - 1
      OBVIOUS
    <3>3. CASE p >= d
      <4>1. PICK e \in Nat : p = d + e
        BY <3>3, p - d \in Nat, p = d + (p - d)
      <4>2. c = b + e * n /\ e * n >= 0
        BY <2>1, <3>1, <4>1
      <4>3. QED
        BY <4>2
    <3>4. CASE p <= d - 1
      <4>1. PICK e \in Nat : d = p + 1 + e
        BY <3>4, d - p - 1 \in Nat, d = p + 1 + (d - p - 1)
      <4>2. b = c + n + e * n /\ e * n >= 0
        BY <2>1, <3>1, <4>1
      <4>3. QED
        BY <1>2, <2>1, <2>3, <4>2
    <3>5. QED
      BY <3>2, <3>3, <3>4
  <2>4. QED
    BY <1>2, <2>1, <2>2, <2>3
<1>3. CASE r <= o
  BY <1>1, <1>2, <1>3
<1>4. CASE r > o
  <2>1. PICK d \in Nat : d = q + 1
    OBVIOUS
  <2>2. d * n + o = q * n + n + o
    BY <2>1
  <2>3. a <= d * n + o /\ d * n + o < a + n
    <3>1. q * n \in Nat
      OBVIOUS
    <3>2. QED
      BY <1>1, <1>4, <2>2, <3>1
  <2>4. QED
    BY <1>2, <2>3
<1>5. QED
  BY <1>3, <1>4

\* The number a thread finds in the table, or takes, is that of a thread.
LEMMA OwnOrdType ==
    ASSUME NEW nthreads \in Nat \ {0}, NEW ord \in Searchers(nthreads)
    PROVE  OwnOrd(ord) \in Searchers(nthreads)
BY DEF OwnOrd, Searchers

-----------------------------------------------------------------------------
(***************************************************************************)
(* When the threads are created no triple has been examined.               *)
(***************************************************************************)
LEMMA SearchStarts ==
    ASSUME NEW len \in Nat, NEW nthreads \in Nat \ {0}, NEW unset, NEW good,
           NEW s \in SearchOf(len, nthreads, unset)
    PROVE  SearchInv(s, len, nthreads, good)
<1>1. PICK refused \in BOOLEAN :
          s = [at |-> [ord \in Searchers(nthreads) |-> 1],
               triples |-> [i \in 1 .. len |-> [is_good |-> FALSE, times |-> 0]],
               refused |-> refused]
  BY DEF SearchOf, Searchers
<1>2. s \in SearchRecords(len, nthreads)
  BY <1>1 DEF SearchRecords
<1>3. ASSUME NEW i \in 1 .. len PROVE Visitors(s, i, nthreads) = {}
  BY <1>1 DEF Visitors, Owners
<1>4. QED
  BY <1>1, <1>2, <1>3, FS_EmptySet DEF SearchInv

(***************************************************************************)
(* The thread ord has examined triple i.                                   *)
(***************************************************************************)
Stopped(s, ord, i, good) ==
    [s EXCEPT !.at[ord] = i + 1,
              !.triples[i].times = @ + 1,
              !.triples[i].is_good = @ \/ i \in good]

\* Triple i is the first from where it stands that it takes for its own.
StopsAt(s, ord, i, nthreads, good) ==
    /\ DealtTo(i - 1, nthreads) = OwnOrd(ord)
    /\ \A j \in s.at[ord] .. i - 1 : DealtTo(j - 1, nthreads) # OwnOrd(ord)
    /\ Examine(s, ord, good) = Stopped(s, ord, i, good)

(***************************************************************************)
(* xorshift_thread: the thread stops at the first triple it takes for its  *)
(* own, and passes only triples of others.                                 *)
(***************************************************************************)
LEMMA ExaminedIs ==
    ASSUME NEW len \in Nat, NEW nthreads \in Nat \ {0},
           NEW s \in SearchRecords(len, nthreads),
           NEW ord \in Searchers(nthreads), Remaining(s, ord) # {}, NEW good
    PROVE  \E i \in s.at[ord] .. len : StopsAt(s, ord, i, nthreads, good)
<1>1. /\ s.at[ord] \in Nat \ {0} /\ DOMAIN s.at = Searchers(nthreads)
      /\ Len(s.triples) = len
  BY TriplesLen DEF SearchRecords
<1>2. Remaining(s, ord) =
          {i \in s.at[ord] .. len : DealtTo(i - 1, nthreads) = OwnOrd(ord)}
  BY <1>1, OwnersFinite DEF Remaining
<1>3. PICK b \in Nat :
          /\ s.at[ord] - 1 <= b /\ b % nthreads = OwnOrd(ord)
          /\ \A c \in Nat : s.at[ord] - 1 <= c /\ c % nthreads = OwnOrd(ord) => b <= c
  <2>1. s.at[ord] - 1 \in Nat
    BY <1>1
  <2>2. QED
    BY <2>1, OwnOrdType, NextOfRemainder DEF Searchers
<1>4. \A j \in Remaining(s, ord) : b + 1 <= j
  <2> SUFFICES ASSUME NEW j \in Remaining(s, ord) PROVE b + 1 <= j
    OBVIOUS
  <2>1. j \in s.at[ord] .. len /\ (j - 1) % nthreads = OwnOrd(ord)
    BY <1>2 DEF DealtTo
  <2>2. j - 1 \in Nat /\ s.at[ord] - 1 <= j - 1
    BY <1>1, <2>1
  <2>3. QED
    BY <1>3, <2>1, <2>2
<1>5. b + 1 \in Remaining(s, ord)
  <2>1. PICK j \in Remaining(s, ord) : TRUE
    OBVIOUS
  <2>2. b + 1 <= j /\ j \in s.at[ord] .. len
    BY <1>2, <1>4
  <2>3. PICK a \in Nat : a = s.at[ord]
    BY <1>1
  <2>4. b + 1 \in s.at[ord] .. len /\ b + 1 - 1 = b
    BY <1>3, <2>2, <2>3
  <2>5. QED
    BY <1>2, <1>3, <2>4 DEF DealtTo
<1> DEFINE First(i) == \A j \in Remaining(s, ord) : i <= j
<1>6. (CHOOSE i \in Remaining(s, ord) : First(i)) = b + 1
  <2>1. \A i \in Remaining(s, ord) : First(i) => i = b + 1
    <3> SUFFICES ASSUME NEW i \in Remaining(s, ord), First(i) PROVE i = b + 1
      OBVIOUS
    <3>1. i <= b + 1 /\ b + 1 <= i /\ i \in Int
      BY <1>1, <1>2, <1>4, <1>5
    <3>2. QED
      BY <3>1
  <2>2. First(b + 1)
    BY <1>4
  <2>3. QED
    BY <1>5, <2>1, <2>2
<1>7. Examine(s, ord, good) =
          [s EXCEPT !.at[ord] = b + 1 + 1,
                    !.triples[b + 1].times = @ + 1,
                    !.triples[b + 1].is_good = @ \/ b + 1 \in good]
  BY <1>6 DEF Examine
<1>8. \A j \in s.at[ord] .. b : DealtTo(j - 1, nthreads) # OwnOrd(ord)
  <2> SUFFICES ASSUME NEW j \in s.at[ord] .. b, DealtTo(j - 1, nthreads) = OwnOrd(ord)
               PROVE  FALSE
    OBVIOUS
  <2>1. b + 1 <= len
    BY <1>2, <1>5
  <2>2. j \in s.at[ord] .. len
    BY <1>1, <2>1
  <2>3. QED
    BY <1>2, <1>4, <2>2
<1>9. b + 1 \in s.at[ord] .. len /\ DealtTo(b + 1 - 1, nthreads) = OwnOrd(ord)
  BY <1>2, <1>5
<1>10. b + 1 - 1 = b
  OBVIOUS
<1>11. PICK i \in s.at[ord] .. len : i = b + 1
  BY <1>9
<1>12. /\ DealtTo(i - 1, nthreads) = OwnOrd(ord)
       /\ \A j \in s.at[ord] .. i - 1 : DealtTo(j - 1, nthreads) # OwnOrd(ord)
  BY <1>8, <1>9, <1>10, <1>11
<1>13. Examine(s, ord, good) = Stopped(s, ord, i, good)
  BY <1>7, <1>11 DEF Stopped
<1>14. QED
  BY <1>12, <1>13 DEF StopsAt

(***************************************************************************)
(* A step of a thread adds it to the visitors of one triple, and to those  *)
(* of no other.                                                            *)
(***************************************************************************)
LEMMA ExamineKeeps ==
    ASSUME NEW len \in Nat, NEW nthreads \in Nat \ {0}, NEW good,
           NEW s, SearchInv(s, len, nthreads, good),
           NEW ord \in Searchers(nthreads), Remaining(s, ord) # {}
    PROVE  SearchInv(Examine(s, ord, good), len, nthreads, good)
<1>1. s \in SearchRecords(len, nthreads)
  BY DEF SearchInv
<1>2. PICK i \in s.at[ord] .. len :
          /\ DealtTo(i - 1, nthreads) = OwnOrd(ord)
          /\ \A j \in s.at[ord] .. i - 1 : DealtTo(j - 1, nthreads) # OwnOrd(ord)
          /\ Examine(s, ord, good) = Stopped(s, ord, i, good)
  <2>1. \E i \in s.at[ord] .. len : StopsAt(s, ord, i, nthreads, good)
    BY <1>1, ExaminedIs
  <2>2. QED
    BY <2>1 DEF StopsAt
<1>3. /\ s.at \in [Searchers(nthreads) -> Nat \ {0}]
      /\ s.triples \in [1 .. len -> [is_good : BOOLEAN, times : Nat]]
      /\ s.refused \in BOOLEAN
  BY <1>1 DEF SearchRecords
<1>4. i \in 1 .. len /\ i + 1 \in Nat \ {0} /\ s.at[ord] \in Nat \ {0}
  BY <1>3
<1> DEFINE r == Examine(s, ord, good)
<1>5. /\ r.at = [s.at EXCEPT ![ord] = i + 1]
      /\ r.refused = s.refused
      /\ r.triples = [s.triples EXCEPT ![i].times = @ + 1,
                                      ![i].is_good = @ \/ i \in good]
      /\ r = [at |-> r.at, triples |-> r.triples, refused |-> r.refused]
  BY <1>1, <1>2 DEF SearchRecords, Stopped
<1> HIDE DEF r
<1>6. /\ r.triples \in [1 .. len -> [is_good : BOOLEAN, times : Nat]]
      /\ r.triples[i].times = s.triples[i].times + 1
      /\ r.triples[i].is_good <=> s.triples[i].is_good \/ i \in good
      /\ \A j \in 1 .. len : j # i => r.triples[j] = s.triples[j]
  <2> DEFINE once == [s.triples EXCEPT ![i].times = @ + 1]
  <2>1. s.triples[i] \in [is_good : BOOLEAN, times : Nat]
    BY <1>3, <1>4
  <2>2. /\ once \in [1 .. len -> [is_good : BOOLEAN, times : Nat]]
        /\ once[i].times = s.triples[i].times + 1
        /\ once[i].is_good = s.triples[i].is_good
        /\ \A j \in 1 .. len : j # i => once[j] = s.triples[j]
    <3>1. once[i] = [s.triples[i] EXCEPT !.times = @ + 1]
      BY <1>3, <1>4
    <3>2. /\ once[i] \in [is_good : BOOLEAN, times : Nat]
          /\ once[i].times = s.triples[i].times + 1
          /\ once[i].is_good = s.triples[i].is_good
      <4> HIDE DEF once
      <4>1. QED
        BY <2>1, <3>1
    <3>3. \A j \in 1 .. len : j # i => once[j] = s.triples[j]
      BY <1>3, <1>4
    <3>4. once = [j \in 1 .. len |-> once[j]]
      BY <1>3, <1>4
    <3> HIDE DEF once
    <3>5. \A j \in 1 .. len : once[j] \in [is_good : BOOLEAN, times : Nat]
      BY <1>3, <3>2, <3>3
    <3>6. once \in [1 .. len -> [is_good : BOOLEAN, times : Nat]]
      BY <3>4, <3>5
    <3>7. QED
      BY <3>2, <3>3, <3>6
  <2>3. r.triples = [once EXCEPT ![i].is_good = @ \/ i \in good]
    BY <1>5
  <2> HIDE DEF once
  <2>4. once[i] \in [is_good : BOOLEAN, times : Nat]
    BY <1>4, <2>2
  <2>5. PICK b \in BOOLEAN : b = (once[i].is_good \/ i \in good)
    OBVIOUS
  <2>6. r.triples = [once EXCEPT ![i].is_good = b]
    BY <2>3, <2>5
  <2>7. /\ r.triples \in [1 .. len -> [is_good : BOOLEAN, times : Nat]]
        /\ r.triples[i].times = once[i].times
        /\ r.triples[i].is_good = b
        /\ \A j \in 1 .. len : j # i => r.triples[j] = once[j]
    BY <1>4, <2>2, <2>4, <2>6
  <2>8. QED
    BY <2>2, <2>5, <2>7
<1>7. r \in SearchRecords(len, nthreads)
  <2>1. r.at \in [Searchers(nthreads) -> Nat \ {0}]
    BY <1>3, <1>4, <1>5
  <2>2. QED
    BY <1>3, <1>5, <1>6, <2>1 DEF SearchRecords
<1>8. /\ r.at[ord] = i + 1
      /\ \A o \in Searchers(nthreads) : o # ord => r.at[o] = s.at[o]
  BY <1>3, <1>5
<1>9. ord \notin Visitors(s, i, nthreads)
  BY <1>3, <1>4 DEF Visitors
<1>10. Visitors(r, i, nthreads) = Visitors(s, i, nthreads) \cup {ord}
  BY <1>2, <1>4, <1>8 DEF Visitors, Owners
<1>11. ASSUME NEW j \in 1 .. len, j # i
       PROVE  Visitors(r, j, nthreads) = Visitors(s, j, nthreads)
  <2>1. ASSUME NEW o \in Owners(j, nthreads) PROVE r.at[o] > j <=> s.at[o] > j
    <3>1. CASE o # ord
      BY <1>8, <2>1, <3>1 DEF Owners
    <3>2. CASE o = ord
      <4>1. DealtTo(j - 1, nthreads) = OwnOrd(ord)
        BY <2>1, <3>2 DEF Owners
      <4>2. ~(s.at[ord] <= j /\ j <= i - 1)
        BY <1>2, <1>4, <4>1
      <4>3. QED
        BY <1>4, <1>8, <1>11, <3>2, <4>2
    <3>3. QED
      BY <3>1, <3>2
  <2>2. QED
    BY <2>1 DEF Visitors
<1>12. /\ r.triples[i].times = Cardinality(Visitors(r, i, nthreads))
       /\ r.triples[i].is_good <=> i \in good /\ Visitors(r, i, nthreads) # {}
  <2>1. IsFiniteSet(Visitors(s, i, nthreads))
    BY OwnersFinite DEF Visitors
  <2>2. Cardinality(Visitors(r, i, nthreads)) = Cardinality(Visitors(s, i, nthreads)) + 1
    BY <1>9, <1>10, <2>1, FS_AddElement
  <2>3. /\ s.triples[i].times = Cardinality(Visitors(s, i, nthreads))
        /\ s.triples[i].is_good => i \in good
    BY <1>4 DEF SearchInv
  <2>4. QED
    BY <1>6, <1>10, <2>2, <2>3
<1>13. ASSUME NEW j \in 1 .. len
       PROVE  /\ r.triples[j].times = Cardinality(Visitors(r, j, nthreads))
              /\ r.triples[j].is_good <=> j \in good /\ Visitors(r, j, nthreads) # {}
  BY <1>6, <1>11, <1>12 DEF SearchInv
<1>14. QED
  BY <1>7, <1>13 DEF SearchInv, r

(***************************************************************************)
(* The invariant holds in every search.                                    *)
(***************************************************************************)
THEOREM SearchInvariance ==
    ASSUME NEW CONSTANT len \in Nat, NEW CONSTANT nthreads \in Nat \ {0},
           NEW CONSTANT unset, NEW CONSTANT good
    PROVE  SearchSpec(len, nthreads, unset, good)
             => []SearchInv(search, len, nthreads, good)
<1>1. search \in SearchOf(len, nthreads, unset) => SearchInv(search, len, nthreads, good)
  BY SearchStarts
<1>2. /\ SearchInv(search, len, nthreads, good)
      /\ [search' \in SearchSteps(search, good)]_search
      => SearchInv(search, len, nthreads, good)'
  <2> SUFFICES ASSUME SearchInv(search, len, nthreads, good),
                      [search' \in SearchSteps(search, good)]_search
               PROVE  SearchInv(search', len, nthreads, good)
    BY DEF SearchInv, SearchRecords, Visitors
  <2>1. CASE search' \in SearchSteps(search, good)
    <3>1. DOMAIN search.at = Searchers(nthreads)
      BY DEF SearchInv, SearchRecords
    <3>2. PICK ord \in Searchers(nthreads) :
              Remaining(search, ord) # {} /\ search' = Examine(search, ord, good)
      BY <2>1, <3>1 DEF SearchSteps
    <3>3. QED
      BY <3>2, ExamineKeeps
  <2>2. CASE search' = search
    BY <2>2
  <2>3. QED
    BY <2>1, <2>2
<1>3. QED
  BY <1>1, <1>2, PTL DEF SearchSpec

-----------------------------------------------------------------------------
(***************************************************************************)
(* How often a triple is examined in a search that has ended: once, unless *)
(* there are more threads than the table of threads has room for.  Then    *)
(* the surplus threads do the work of thread 0 again, and their own        *)
(* triples are never looked at.                                            *)
(***************************************************************************)
Examinations(i, nthreads) ==
    LET ord == DealtTo(i - 1, nthreads)
    IN  IF ord >= TableSize THEN 0
        ELSE IF ord = 0 THEN 1 + Cardinality(Surplus(nthreads)) ELSE 1

EachIsExamined(s, len, nthreads, good) ==
    SearchEnded(s) /\ ~s.refused =>
        \A i \in 1 .. len :
            /\ s.triples[i].times = Examinations(i, nthreads)
            /\ s.triples[i].is_good <=> i \in good /\ DealtTo(i - 1, nthreads) < TableSize

(***************************************************************************)
(* With room for all threads in the table nobody examines a triple of      *)
(* another, so no two threads ever write is_good of the same triple.       *)
(***************************************************************************)
OneExaminer(s, len) == \A i \in 1 .. len : s.triples[i].times <= 1

\* A triple is dealt to a thread.
LEMMA DealtToType ==
    ASSUME NEW nthreads \in Nat \ {0}, NEW i \in Nat \ {0}
    PROVE  DealtTo(i - 1, nthreads) \in Searchers(nthreads)
<1>1. i - 1 \in Nat
  OBVIOUS
<1>2. PICK q \in Nat, r \in 0 .. nthreads - 1 : (i - 1) % nthreads = r
  BY <1>1, DivModOf
<1>3. QED
  BY <1>2 DEF DealtTo, Searchers

\* Who takes a triple for its own.
LEMMA OwnersAre ==
    ASSUME NEW nthreads \in Nat \ {0}, NEW i \in Nat \ {0}
    PROVE  LET d == DealtTo(i - 1, nthreads)
           IN  Owners(i, nthreads) = IF d >= TableSize THEN {}
                                     ELSE IF d = 0 THEN {0} \cup Surplus(nthreads)
                                     ELSE {d}
<1> DEFINE d == DealtTo(i - 1, nthreads)
<1>1. d \in Searchers(nthreads)
  BY DealtToType
<1>2. TableSize \in Nat \ {0}
  BY TripleSearchAssumption
<1>3. Owners(i, nthreads) = {ord \in Searchers(nthreads) : OwnOrd(ord) = d}
  BY DEF Owners
<1> HIDE DEF d
<1>4. Owners(i, nthreads) = IF d >= TableSize THEN {}
                            ELSE IF d = 0 THEN {0} \cup Surplus(nthreads)
                            ELSE {d}
  BY <1>1, <1>2, <1>3 DEF OwnOrd, Surplus, Searchers
<1>5. QED
  BY <1>4 DEF d

(***************************************************************************)
(* The search is exhaustive, and exactly what the full table of threads    *)
(* takes away from it is known.                                            *)
(***************************************************************************)
THEOREM SearchIsExhaustive ==
    ASSUME NEW CONSTANT len \in Nat, NEW CONSTANT nthreads \in Nat \ {0},
           NEW CONSTANT unset, NEW CONSTANT good
    PROVE  SearchSpec(len, nthreads, unset, good)
             => []EachIsExamined(search, len, nthreads, good)
<1>1. SearchInv(search, len, nthreads, good)
        => EachIsExamined(search, len, nthreads, good)
  <2> SUFFICES ASSUME SearchInv(search, len, nthreads, good),
                      SearchEnded(search), ~search.refused, NEW i \in 1 .. len
               PROVE  /\ search.triples[i].times = Examinations(i, nthreads)
                      /\ search.triples[i].is_good
                            <=> i \in good /\ DealtTo(i - 1, nthreads) < TableSize
    BY DEF EachIsExamined
  <2>1. /\ search.at \in [Searchers(nthreads) -> Nat \ {0}]
        /\ search.triples \in [1 .. len -> [is_good : BOOLEAN, times : Nat]]
    BY DEF SearchInv, SearchRecords
  <2>2. Visitors(search, i, nthreads) = Owners(i, nthreads)
    <3> SUFFICES ASSUME NEW ord \in Owners(i, nthreads) PROVE search.at[ord] > i
      BY DEF Visitors
    <3>1. ord \in Searchers(nthreads) /\ OwnOrd(ord) = DealtTo(i - 1, nthreads)
      BY DEF Owners
    <3>2. Remaining(search, ord) = {}
      BY <2>1, <3>1 DEF SearchEnded
    <3>3. Len(search.triples) = len /\ Cardinality(DOMAIN search.at) = nthreads
      BY <2>1, TriplesLen, OwnersFinite
    <3>4. i \notin search.at[ord] .. len
      BY <3>1, <3>2, <3>3 DEF Remaining
    <3>5. search.at[ord] \in Nat
      BY <2>1, <3>1
    <3>6. QED
      BY <3>4, <3>5
  <2> DEFINE d == DealtTo(i - 1, nthreads)
  <2>3. Owners(i, nthreads) = IF d >= TableSize THEN {}
                              ELSE IF d = 0 THEN {0} \cup Surplus(nthreads)
                              ELSE {d}
    BY OwnersAre
  <2>4. d \in Nat /\ TableSize \in Nat \ {0}
    BY DealtToType, TripleSearchAssumption DEF Searchers
  <2>5. Examinations(i, nthreads) =
            IF d >= TableSize THEN 0
            ELSE IF d = 0 THEN 1 + Cardinality(Surplus(nthreads)) ELSE 1
    BY DEF Examinations
  <2>6. /\ search.triples[i].times = Cardinality(Owners(i, nthreads))
        /\ search.triples[i].is_good <=> i \in good /\ Owners(i, nthreads) # {}
    BY <2>2 DEF SearchInv
  <2> HIDE DEF d
  <2>7. Cardinality(Owners(i, nthreads)) = Examinations(i, nthreads)
    <3>1. CASE d >= TableSize
      BY <2>3, <2>5, <3>1, FS_EmptySet
    <3>2. CASE ~(d >= TableSize) /\ d = 0
      <4>1. IsFiniteSet(Surplus(nthreads))
        BY OwnersFinite, FS_Subset DEF Surplus
      <4>2. 0 \notin Surplus(nthreads)
        BY <2>4 DEF Surplus
      <4>3. Cardinality(Surplus(nthreads) \cup {0}) = Cardinality(Surplus(nthreads)) + 1
        BY <4>1, <4>2, FS_AddElement
      <4>4. Surplus(nthreads) \cup {0} = {0} \cup Surplus(nthreads)
        OBVIOUS
      <4>5. Cardinality(Surplus(nthreads)) \in Nat
        BY <4>1, FS_CardinalityType
      <4>6. QED
        BY <2>3, <2>5, <3>2, <4>3, <4>4, <4>5
    <3>3. CASE ~(d >= TableSize) /\ d # 0
      BY <2>3, <2>5, <3>3, FS_Singleton
    <3>4. QED
      BY <3>1, <3>2, <3>3
  <2>8. Owners(i, nthreads) # {} <=> d < TableSize
    BY <2>3, <2>4
  <2>9. QED
    BY <2>6, <2>7, <2>8 DEF d
<1>2. QED
  BY <1>1, SearchInvariance, PTL

(***************************************************************************)
(* As long as the table has room for all threads, a triple is examined by  *)
(* one thread only, so the unlocked array has one writer per triple.       *)
(***************************************************************************)
THEOREM TriplesAreNotShared ==
    ASSUME NEW CONSTANT len \in Nat, NEW CONSTANT nthreads \in Nat \ {0},
           NEW CONSTANT unset, NEW CONSTANT good,
           nthreads <= TableSize
    PROVE  SearchSpec(len, nthreads, unset, good) => []OneExaminer(search, len)
<1>1. SearchInv(search, len, nthreads, good) => OneExaminer(search, len)
  <2> SUFFICES ASSUME SearchInv(search, len, nthreads, good), NEW i \in 1 .. len
               PROVE  search.triples[i].times <= 1
    BY DEF OneExaminer
  <2>1. TableSize \in Nat \ {0}
    BY TripleSearchAssumption
  <2>2. DealtTo(i - 1, nthreads) \in Searchers(nthreads) /\ Surplus(nthreads) = {}
    BY <2>1, DealtToType DEF Searchers, Surplus
  <2>3. Owners(i, nthreads) = {DealtTo(i - 1, nthreads)}
    BY <2>1, <2>2, OwnersAre DEF Searchers
  <2>4. IsFiniteSet(Owners(i, nthreads)) /\ Cardinality(Owners(i, nthreads)) = 1
    <3>1. \A x : IsFiniteSet({x}) /\ Cardinality({x}) = 1
      BY FS_Singleton
    <3>2. QED
      BY <2>3, <3>1
  <2>5. Cardinality(Visitors(search, i, nthreads)) <= 1
    <3>1. Visitors(search, i, nthreads) \in SUBSET Owners(i, nthreads)
      BY DEF Visitors
    <3>2. QED
      BY <2>4, <3>1, FS_Subset
  <2>6. QED
    BY <2>5 DEF SearchInv
<1>2. QED
  BY <1>1, SearchInvariance, PTL

-----------------------------------------------------------------------------
(***************************************************************************)
(* berlekamp_massey: the loop over the n bits of the sequence s.  N bits   *)
(* have been read, the register is reg.                                    *)
(***************************************************************************)
VARIABLES reg, N

MasseySpec(n, s) ==
    /\ reg = Start /\ N = 0
    /\ [][/\ N < n /\ N' = N + 1
          /\ reg' = Step(n, s, reg, N)]_<<reg, N>>

Registers == [L : Nat, m : Int, C : SUBSET Nat, B : SUBSET Nat, T : SUBSET Nat]

UpTo(S, max) == \A e \in S : e <= max

(***************************************************************************)
(* The inductive invariant: C and T have no terms beyond the length of the *)
(* register, and B none beyond the length it had before the last change,   *)
(* which is m + 1 - L; no array is written past its end; and a register    *)
(* without length has read nothing but zeros.                              *)
(***************************************************************************)
MasseyInv(n, s, b, k) ==
    /\ b \in Registers /\ k \in 0 .. n
    /\ b.L <= k /\ b.m + 1 \in 0 .. k /\ b.m + 1 <= 2 * b.L
    /\ UpTo(b.C, b.L) /\ UpTo(b.T, b.L) /\ UpTo(b.B, b.m + 1 - b.L)
    /\ UpTo(b.C \cup b.B \cup b.T, n - 1)
    /\ b.L = 0 => \A i \in 0 .. k - 1 : s[i] # 1
    /\ b.L = n => s[n - 1] = 1 /\ \A i \in 0 .. n - 2 : s[i] # 1

\* The loop starts with a register that fits.
LEMMA MasseyStarts ==
    ASSUME NEW n \in Nat \ {0}, NEW s
    PROVE  MasseyInv(n, s, Start, 0)
BY DEF MasseyInv, Start, Registers, UpTo

\* A register without length takes the bit itself for its discrepancy.
LEMMA OddOfZero ==
    ASSUME NEW s, NEW k \in Nat, NEW C \in SUBSET Nat
    PROVE  Odd(s, k, {0} \cup {i \in C : i <= 0}) <=> s[k] = 1
<1> DEFINE D == {0} \cup {i \in C : i <= 0}
<1>1. D = {0}
  <2>1. \A i \in C : i <= 0 <=> i = 0
    OBVIOUS
  <2>2. QED
    BY <2>1
<1>2. k - 0 = k
  OBVIOUS
<1> HIDE DEF D
<1>3. CASE s[k] = 1
  <2>1. {i \in D : s[k - i] = 1} = {0}
    BY <1>1, <1>2, <1>3
  <2>2. \A x : Cardinality({x}) = 1
    BY FS_Singleton
  <2>3. Cardinality({i \in D : s[k - i] = 1}) = 1
    BY <2>1, <2>2
  <2>4. Odd(s, k, D)
    BY <2>3 DEF Odd
  <2>5. QED
    BY <1>3, <2>4 DEF D
<1>4. CASE s[k] # 1
  <2>1. {i \in D : s[k - i] = 1} = {}
    BY <1>1, <1>2, <1>4
  <2>2. Cardinality({i \in D : s[k - i] = 1}) = 0
    BY <2>1, FS_EmptySet
  <2>3. ~Odd(s, k, D)
    BY <2>2 DEF Odd
  <2>4. QED
    BY <1>4, <2>3 DEF D
<1>5. QED
  BY <1>3, <1>4

\* The new feedback polynomial has no terms beyond the new length.
LEMMA FeedbackFits ==
    ASSUME NEW n \in Nat \ {0}, NEW s, NEW b, NEW k \in 0 .. n - 1,
           MasseyInv(n, s, b, k),
           NEW C2, \A e \in C2 : \/ e \in b.C
                                \/ \E f \in b.B : f < n - k + b.m /\ e = f + k - b.m
    PROVE  /\ C2 \in SUBSET Nat /\ UpTo(C2, n - 1)
           /\ \A e \in C2 : e <= b.L \/ e <= k + 1 - b.L
<1> SUFFICES ASSUME NEW e \in C2
             PROVE  e \in Nat /\ e <= n - 1 /\ (e <= b.L \/ e <= k + 1 - b.L)
  BY DEF UpTo
<1>1. /\ b.L \in Nat /\ b.m \in Int /\ b.m + 1 \in 0 .. k
      /\ b.C \in SUBSET Nat /\ b.B \in SUBSET Nat
  BY DEF MasseyInv, Registers
<1>2. CASE e \in b.C
  BY <1>1, <1>2 DEF MasseyInv, UpTo
<1>3. CASE e \notin b.C
  <2>1. PICK f \in b.B : f < n - k + b.m /\ e = f + k - b.m
    BY <1>3
  <2>2. f \in Nat /\ f <= b.m + 1 - b.L
    BY <1>1 DEF MasseyInv, UpTo
  <2>3. QED
    BY <1>1, <2>1, <2>2
<1>4. QED
  BY <1>2, <1>3

\* What a copy leaves in an array.
LEMMA CopiedFits ==
    ASSUME NEW to \in SUBSET Nat, NEW from \in SUBSET Nat, NEW len \in Nat
    PROVE  /\ Copied(to, from, len) \in SUBSET Nat
           /\ \A max \in Int : UpTo(to, max) /\ UpTo(from, max)
                                => UpTo(Copied(to, from, len), max)
           /\ \A max \in Int : UpTo(to, len - 1) /\ UpTo(from, max)
                                => UpTo(Copied(to, from, len), max)
<1> DEFINE X == Copied(to, from, len)
<1>1. \A i : i \in X <=> (i \in from /\ i < len) \/ (i \in to /\ i >= len)
  BY DEF Copied
<1>2. \A i \in to \cup from : i \in Nat
  OBVIOUS
<1> HIDE DEF X
<1>3. X \in SUBSET Nat
  BY <1>1, <1>2
<1>4. ASSUME NEW max \in Int, UpTo(to, max), UpTo(from, max)
      PROVE  UpTo(X, max)
  BY <1>1, <1>4 DEF UpTo
<1>5. ASSUME NEW max \in Int, UpTo(to, len - 1), UpTo(from, max)
      PROVE  UpTo(X, max)
  <2>1. \A i \in to : i <= len - 1
    BY <1>5 DEF UpTo
  <2>2. \A i \in to : ~(i >= len)
    BY <1>2, <2>1
  <2>3. QED
    BY <1>1, <1>5, <2>2 DEF UpTo
<1>6. QED
  BY <1>3, <1>4, <1>5 DEF X

(***************************************************************************)
(* One more bit.                                                           *)
(***************************************************************************)
LEMMA StepKeeps ==
    ASSUME NEW n \in Nat \ {0}, NEW s, NEW b, NEW k \in 0 .. n - 1,
           MasseyInv(n, s, b, k)
    PROVE  MasseyInv(n, s, Step(n, s, b, k), k + 1)
<1> DEFINE odd == Odd(s, k, {0} \cup {i \in b.C : i <= b.L})
           T2 == Copied(b.T, b.C, b.L + 1)
           C2 == Plus(b.C, {e + k - b.m : e \in {e \in b.B : e < n - k + b.m}})
           L2 == k + 1 - b.L
           B2 == Copied(b.B, T2, L2 + 1)
<1>1. /\ b.L \in Nat /\ b.m \in Int /\ b.C \in SUBSET Nat
      /\ b.B \in SUBSET Nat /\ b.T \in SUBSET Nat
      /\ b = [L |-> b.L, m |-> b.m, C |-> b.C, B |-> b.B, T |-> b.T]
  BY DEF MasseyInv, Registers
<1>2. /\ k + 1 \in 0 .. n /\ b.L <= k /\ b.m + 1 \in 0 .. k /\ b.m + 1 <= 2 * b.L
      /\ UpTo(b.C, b.L) /\ UpTo(b.T, b.L) /\ UpTo(b.B, b.m + 1 - b.L)
      /\ UpTo(b.C \cup b.B \cup b.T, n - 1)
  BY DEF MasseyInv
<1>3. /\ C2 \in SUBSET Nat /\ UpTo(C2, n - 1)
      /\ \A e \in C2 : e <= b.L \/ e <= k + 1 - b.L
  <2>1. \A e \in C2 : \/ e \in b.C
                     \/ \E f \in b.B : f < n - k + b.m /\ e = f + k - b.m
    BY DEF Plus, SymDiff
  <2> HIDE DEF odd, C2, T2, L2, B2
  <2>2. QED
    BY <2>1, FeedbackFits
<1>4. T2 \in SUBSET Nat /\ UpTo(T2, b.L) /\ UpTo(T2, n - 1)
  <2>1. UpTo(b.T, n - 1) /\ UpTo(b.C, n - 1) /\ b.L + 1 \in Nat
    BY <1>1, <1>2 DEF UpTo
  <2>2. QED
    BY <1>1, <1>2, <2>1, CopiedFits
<1>5. Step(n, s, b, k) =
          IF ~odd THEN b
          ELSE IF 2 * b.L <= k
               THEN [L |-> L2, m |-> k, C |-> C2, B |-> B2, T |-> T2]
               ELSE [b EXCEPT !.C = C2, !.T = T2]
  BY DEF Step, Grows
<1>6. b.L = 0 => (odd <=> s[k] = 1)
  BY <1>1, OddOfZero
<1> HIDE DEF odd, C2, T2
<1>7. CASE ~odd
  <2>1. b.L = 0 => \A i \in 0 .. k : s[i] # 1
    BY <1>6, <1>7 DEF MasseyInv
  <2>2. b.L # n
    BY <1>2
  <2>3. QED
    BY <1>1, <1>2, <1>5, <1>7, <2>1, <2>2 DEF MasseyInv, Registers
<1>8. CASE odd /\ 2 * b.L <= k
  <2>1. L2 \in Nat /\ L2 + 1 \in Nat /\ L2 > b.L /\ L2 <= k + 1
    BY <1>1, <1>2, <1>8
  <2>2. B2 \in SUBSET Nat /\ UpTo(B2, b.L) /\ UpTo(B2, n - 1)
    <3>1. UpTo(b.B, (L2 + 1) - 1) /\ UpTo(b.B, n - 1)
      BY <1>1, <1>2, <2>1 DEF UpTo
    <3>2. b.L \in Int /\ n - 1 \in Int
      BY <1>1
    <3> HIDE DEF L2
    <3>3. /\ B2 \in SUBSET Nat
          /\ \A max \in Int : UpTo(b.B, max) /\ UpTo(T2, max) => UpTo(B2, max)
          /\ \A max \in Int : UpTo(b.B, (L2 + 1) - 1) /\ UpTo(T2, max)
                               => UpTo(B2, max)
      BY <1>1, <1>4, <2>1, CopiedFits
    <3>4. QED
      BY <1>4, <3>1, <3>2, <3>3
  <2>3. UpTo(C2, L2) /\ UpTo(T2, L2)
    BY <1>1, <1>3, <1>4, <2>1 DEF UpTo
  <2>4. UpTo(C2 \cup B2 \cup T2, n - 1)
    BY <1>3, <1>4, <2>2 DEF UpTo
  <2>5. L2 = n => s[n - 1] = 1 /\ \A i \in 0 .. n - 2 : s[i] # 1
    <3> SUFFICES ASSUME L2 = n
                 PROVE  s[n - 1] = 1 /\ \A i \in 0 .. n - 2 : s[i] # 1
      OBVIOUS
    <3>1. b.L = 0 /\ k = n - 1
      BY <1>1
    <3>2. QED
      BY <1>6, <1>8, <3>1 DEF MasseyInv
  <2> DEFINE a == [L |-> L2, m |-> k, C |-> C2, B |-> B2, T |-> T2]
  <2>6. Step(n, s, b, k) = a
    BY <1>5, <1>8
  <2>7. a.L = L2 /\ a.m = k /\ a.C = C2 /\ a.B = B2 /\ a.T = T2
    OBVIOUS
  <2> HIDE DEF B2
  <2>8. a \in Registers
    BY <1>3, <1>4, <2>1, <2>2 DEF Registers
  <2>9. /\ L2 # 0 /\ k + 1 <= 2 * L2 /\ k + 1 - L2 = b.L
    BY <1>1, <1>8, <2>1
  <2> HIDE DEF a, L2
  <2>10. k + 1 \in 0 .. k + 1
    BY <1>2
  <2>11. QED
    BY <1>2, <2>1, <2>2, <2>3, <2>4, <2>5, <2>6, <2>7, <2>8, <2>9, <2>10
       DEF MasseyInv
<1>9. CASE odd /\ ~(2 * b.L <= k)
  <2> DEFINE a == [b EXCEPT !.C = C2, !.T = T2]
  <2>1. Step(n, s, b, k) = a
    BY <1>5, <1>9
  <2>2. /\ a.L = b.L /\ a.m = b.m /\ a.C = C2 /\ a.B = b.B /\ a.T = T2
        /\ a \in Registers
    BY <1>1, <1>3, <1>4 DEF Registers
  <2>3. UpTo(C2, b.L)
    BY <1>1, <1>3, <1>9 DEF UpTo
  <2>4. UpTo(C2 \cup b.B \cup T2, n - 1)
    BY <1>2, <1>3, <1>4 DEF UpTo
  <2>5. b.L # 0 /\ b.L # n
    BY <1>1, <1>2, <1>9
  <2>6. b.m + 1 \in 0 .. k + 1 /\ b.L <= k + 1
    BY <1>1, <1>2
  <2> HIDE DEF a
  <2>7. QED
    BY <1>2, <1>4, <2>1, <2>2, <2>3, <2>4, <2>5, <2>6 DEF MasseyInv
<1>10. QED
  BY <1>7, <1>8, <1>9

\* The invariant holds throughout the loop.
LEMMA MasseyInvariance ==
    ASSUME NEW CONSTANT n \in Nat \ {0}, NEW CONSTANT s
    PROVE  MasseySpec(n, s) => []MasseyInv(n, s, reg, N)
<1> DEFINE Read == N < n /\ N' = N + 1 /\ reg' = Step(n, s, reg, N)
<1>1. reg = Start /\ N = 0 => MasseyInv(n, s, reg, N)
  BY MasseyStarts
<1>2. MasseyInv(n, s, reg, N) /\ [Read]_<<reg, N>> => MasseyInv(n, s, reg, N)'
  <2> SUFFICES ASSUME MasseyInv(n, s, reg, N), [Read]_<<reg, N>>
               PROVE  MasseyInv(n, s, reg', N')
    BY DEF MasseyInv, Registers, UpTo
  <2>1. CASE Read
    <3>1. PICK b, k : b = reg /\ k = N
      OBVIOUS
    <3>2. k \in 0 .. n - 1 /\ MasseyInv(n, s, b, k)
      BY <2>1, <3>1 DEF MasseyInv
    <3>3. MasseyInv(n, s, Step(n, s, b, k), k + 1)
      BY <3>2, StepKeeps
    <3>4. QED
      BY <2>1, <3>1, <3>3
  <2>2. CASE UNCHANGED <<reg, N>>
    BY <2>2
  <2>3. QED
    BY <2>1, <2>2
<1>3. QED
  BY <1>1, <1>2, PTL DEF MasseySpec, Read

(***************************************************************************)
(* What the arrays of n elements have to hold, and what is added and       *)
(* copied at a bit: no term has an index past the end, the register is not *)
(* longer than what has been read, the sum with the saved polynomial ends  *)
(* before a term of it is lost unless the first 1 is the last bit, and     *)
(* only then memcpy is told to copy more than n elements.                  *)
(***************************************************************************)
TermsFit(n, b) == b.C \cup b.B \cup b.T \subseteq 0 .. n - 1

OnlyLastIsOne(n, s) == s[n - 1] = 1 /\ \A i \in 0 .. n - 2 : s[i] # 1

SumsAreWhole(n, b, k) ==
    k < n => \/ \A e \in b.B : e < n - k + b.m
             \/ b.L = 0 /\ k = n - 1

CopiesFit(n, s, b) == b.L + 1 <= n \/ OnlyLastIsOne(n, s)

(***************************************************************************)
(* berlekamp_massey needs no more than the n elements its arrays have,     *)
(* for every length and every sequence, except that a sequence whose only  *)
(* 1 comes last makes it copy n + 1 of them (src/src/lineardep.c:240).     *)
(***************************************************************************)
THEOREM ArraysSuffice ==
    ASSUME NEW CONSTANT n \in Nat \ {0}, NEW CONSTANT s
    PROVE  MasseySpec(n, s) => [](/\ reg.L <= N /\ TermsFit(n, reg)
                                  /\ SumsAreWhole(n, reg, N)
                                  /\ CopiesFit(n, s, reg))
<1>1. ASSUME NEW b, NEW k, MasseyInv(n, s, b, k)
      PROVE  /\ b.L <= k /\ TermsFit(n, b)
             /\ SumsAreWhole(n, b, k) /\ CopiesFit(n, s, b)
  <2>1. /\ b.L \in Nat /\ b.m \in Int /\ k \in 0 .. n /\ b.L <= k
        /\ b.C \in SUBSET Nat /\ b.B \in SUBSET Nat /\ b.T \in SUBSET Nat
    BY <1>1 DEF MasseyInv, Registers
  <2>2. \A e \in b.C \cup b.B \cup b.T : e \in Nat /\ e <= n - 1
    BY <1>1, <2>1 DEF MasseyInv, UpTo
  <2>3. TermsFit(n, b)
    BY <2>2 DEF TermsFit
  <2>4. SumsAreWhole(n, b, k)
    <3> SUFFICES ASSUME k < n, ~(b.L = 0 /\ k = n - 1), NEW e \in b.B
                 PROVE  e < n - k + b.m
      BY DEF SumsAreWhole
    <3>1. e \in Nat /\ e <= b.m + 1 - b.L
      BY <1>1, <2>1 DEF MasseyInv, UpTo
    <3>2. QED
      BY <2>1, <3>1
  <2>5. CopiesFit(n, s, b)
    <3>1. CASE b.L = n
      BY <1>1, <3>1 DEF MasseyInv, CopiesFit, OnlyLastIsOne
    <3>2. CASE b.L # n
      BY <2>1, <3>2 DEF CopiesFit
    <3>3. QED
      BY <3>1, <3>2
  <2>6. QED
    BY <2>1, <2>3, <2>4, <2>5
<1>2. MasseyInv(n, s, reg, N) =>
          /\ reg.L <= N /\ TermsFit(n, reg)
          /\ SumsAreWhole(n, reg, N) /\ CopiesFit(n, s, reg)
  BY <1>1
<1>3. QED
  BY <1>2, MasseyInvariance, PTL

-----------------------------------------------------------------------------
\* Sums over finite sets of exponents.
LEMMA OddIsNotEven ==
    ASSUME NEW s, NEW k, NEW D, IsFiniteSet(D)
    PROVE  /\ IsFiniteSet({i \in D : s[k - i] = 1})
           /\ Odd(s, k, D) <=> ~Even({i \in D : s[k - i] = 1})
<1>1. IsFiniteSet({i \in D : s[k - i] = 1})
  BY FS_Subset
<1>2. Cardinality({i \in D : s[k - i] = 1}) \in Nat
  BY <1>1, FS_CardinalityType
<1>3. QED
  BY <1>1, <1>2, ParityOfSum DEF Odd, Even

\* The discrepancy of a sum of polynomials.
LEMMA OddOfSum ==
    ASSUME NEW s, NEW k, NEW D, NEW E, IsFiniteSet(D), IsFiniteSet(E)
    PROVE  Odd(s, k, Plus(D, E)) <=> ~(Odd(s, k, D) <=> Odd(s, k, E))
<1> DEFINE X == {i \in D : s[k - i] = 1}
           Y == {i \in E : s[k - i] = 1}
<1>1. {i \in Plus(D, E) : s[k - i] = 1} = (X \ Y) \cup (Y \ X)
  BY DEF Plus, SymDiff
<1>2. IsFiniteSet(Plus(D, E))
  BY EvenSymDiff DEF Plus, SymDiff
<1>3. IsFiniteSet(X) /\ IsFiniteSet(Y)
  BY FS_Subset
<1>4. Even((X \ Y) \cup (Y \ X)) <=> (Even(X) <=> Even(Y))
  BY <1>3, EvenSymDiff
<1>5. Odd(s, k, Plus(D, E)) <=> ~Even((X \ Y) \cup (Y \ X))
  BY <1>1, <1>2, OddIsNotEven
<1>6. (Odd(s, k, D) <=> ~Even(X)) /\ (Odd(s, k, E) <=> ~Even(Y))
  BY OddIsNotEven
<1>7. QED
  BY <1>4, <1>5, <1>6

\* A polynomial multiplied by a power of x.
LEMMA OddOfShift ==
    ASSUME NEW s, NEW k \in Int, NEW d \in Int, NEW E \in SUBSET Int, IsFiniteSet(E)
    PROVE  /\ IsFiniteSet({e + d : e \in E})
           /\ Odd(s, k, {e + d : e \in E}) <=> Odd(s, k - d, E)
<1> DEFINE F == {e + d : e \in E}
           X == {i \in F : s[k - i] = 1}
           Y == {i \in E : s[(k - d) - i] = 1}
           g == [i \in E |-> i + d]
           h == [i \in Y |-> i + d]
<1>1. \A e \in E : e \in Int /\ k - (e + d) = (k - d) - e
  OBVIOUS
<1>2. /\ g \in [E -> F]
      /\ \A a, b \in E : g[a] = g[b] => a = b
      /\ \A t \in F : \E e \in E : g[e] = t
  <2>1. g \in [E -> F]
    OBVIOUS
  <2>2. \A a, b \in E : g[a] = g[b] => a = b
    BY <1>1
  <2>3. \A t \in F : \E e \in E : g[e] = t
    OBVIOUS
  <2>4. QED
    BY <2>1, <2>2, <2>3
<1>3. IsFiniteSet(F)
  <2> HIDE DEF g, F
  <2>1. QED
    BY <1>2, SameSize
<1>4. /\ h \in [Y -> X]
      /\ \A a, b \in Y : h[a] = h[b] => a = b
      /\ \A t \in X : \E e \in Y : h[e] = t
  <2>1. \A i \in Y : i + d \in X
    BY <1>1
  <2>2. h \in [Y -> X]
    BY <2>1
  <2>3. \A a, b \in Y : h[a] = h[b] => a = b
    BY <1>1
  <2>4. \A t \in X : \E e \in Y : h[e] = t
    BY <1>1
  <2>5. QED
    BY <2>2, <2>3, <2>4
<1>5. IsFiniteSet(Y)
  BY FS_Subset
<1>6. Cardinality(X) = Cardinality(Y)
  <2> HIDE DEF h, Y, X
  <2>1. QED
    BY <1>4, <1>5, SameSize
<1>7. QED
  BY <1>3, <1>6 DEF Odd

\* A register that predicts the bits from .. to - 1 of s.
Predicts(s, C, from, to) == \A k \in from .. to - 1 : ~Odd(s, k, C)

(***************************************************************************)
(* Massey's lemma: if a register of length L predicts the bits before k    *)
(* but not bit k, then no register of length j <= k - L predicts the bits  *)
(* up to k.  The products of terms of the two at which s is 1, counted by  *)
(* one of the registers, are an odd number, and by the other an even one.  *)
(***************************************************************************)
LEMMA NoShorterRegister ==
    ASSUME NEW s, NEW k \in Nat, NEW L \in Nat, NEW j \in Nat, j + L <= k,
           NEW C \in SUBSET (0 .. L), 0 \in C, NEW E \in SUBSET (0 .. j), 0 \in E,
           Predicts(s, C, L, k), Odd(s, k, C)
    PROVE  ~Predicts(s, E, j, k + 1)
<1> SUFFICES ASSUME Predicts(s, E, j, k + 1) PROVE FALSE
  OBVIOUS
<1> DEFINE P == {p \in E \X C : s[k - p[1] - p[2]] = 1}
           Row(i) == {p \in P : p[1] = i}
           Column(c) == {p \in P : p[2] = c}
<1>1. IsFiniteSet(E) /\ IsFiniteSet(C)
  <2>1. IsFiniteSet(0 .. L) /\ IsFiniteSet(0 .. j)
    BY FS_Interval
  <2>2. QED
    BY <2>1, FS_Subset
<1>2. IsFiniteSet(P)
  <2>1. IsFiniteSet(E \X C)
    BY <1>1, FS_Product
  <2>2. QED
    BY <2>1, FS_Subset
<1>3. ASSUME NEW i \in E PROVE Even(Row(i)) <=> ~Odd(s, k - i, C)
  <2> DEFINE Y == {c \in C : s[(k - i) - c] = 1}
             f == [c \in Y |-> <<i, c>>]
  <2>1. /\ f \in [Y -> Row(i)]
        /\ \A a, b \in Y : f[a] = f[b] => a = b
        /\ \A t \in Row(i) : \E c \in Y : f[c] = t
    <3>1. \A c \in Y : <<i, c>> \in Row(i)
      OBVIOUS
    <3>2. f \in [Y -> Row(i)]
      BY <3>1
    <3>3. \A a, b \in Y : f[a] = f[b] => a = b
      OBVIOUS
    <3>4. \A t \in Row(i) : \E c \in Y : f[c] = t
      <4> SUFFICES ASSUME NEW t \in Row(i) PROVE \E c \in Y : f[c] = t
        OBVIOUS
      <4>1. t = <<i, t[2]>> /\ t[2] \in Y
        OBVIOUS
      <4>2. QED
        BY <4>1
    <3>5. QED
      BY <3>2, <3>3, <3>4
  <2>2. IsFiniteSet(Y)
    BY <1>1, FS_Subset
  <2>3. Cardinality(Row(i)) = Cardinality(Y)
    <3> HIDE DEF f, Y, Row
    <3>1. QED
      BY <2>1, <2>2, SameSize
  <2>4. Even(Row(i)) <=> Even(Y)
    BY <2>3 DEF Even
  <2>5. QED
    BY <2>4, <1>1, OddIsNotEven
<1>4. ASSUME NEW c \in C PROVE Even(Column(c)) <=> ~Odd(s, k - c, E)
  <2> DEFINE Y == {i \in E : s[(k - c) - i] = 1}
             f == [i \in Y |-> <<i, c>>]
  <2>1. \A i \in E : k - i - c = (k - c) - i
    OBVIOUS
  <2>2. /\ f \in [Y -> Column(c)]
        /\ \A a, b \in Y : f[a] = f[b] => a = b
        /\ \A t \in Column(c) : \E i \in Y : f[i] = t
    <3>1. \A i \in Y : <<i, c>> \in Column(c)
      BY <2>1
    <3>2. f \in [Y -> Column(c)]
      BY <3>1
    <3>3. \A a, b \in Y : f[a] = f[b] => a = b
      OBVIOUS
    <3>4. \A t \in Column(c) : \E i \in Y : f[i] = t
      <4> SUFFICES ASSUME NEW t \in Column(c) PROVE \E i \in Y : f[i] = t
        OBVIOUS
      <4>1. t = <<t[1], c>> /\ t[1] \in E /\ s[k - t[1] - c] = 1
        OBVIOUS
      <4>2. t[1] \in Y
        BY <2>1, <4>1
      <4>3. QED
        BY <4>1, <4>2
    <3>5. QED
      BY <3>2, <3>3, <3>4
  <2>3. IsFiniteSet(Y)
    BY <1>1, FS_Subset
  <2>4. Cardinality(Column(c)) = Cardinality(Y)
    <3> HIDE DEF f, Y, Column
    <3>1. QED
      BY <2>2, <2>3, SameSize
  <2>5. Even(Column(c)) <=> Even(Y)
    BY <2>4 DEF Even
  <2>6. QED
    BY <2>5, <1>1, OddIsNotEven
<1>5. Even(P)
  <2> DEFINE key == [p \in P |-> p[2]]
  <2>1. key \in [P -> C]
    OBVIOUS
  <2>2. ASSUME NEW c \in C PROVE Even({p \in P : key[p] = c})
    <3>1. k - c \in j .. (k + 1) - 1
      OBVIOUS
    <3>2. Even(Column(c))
      BY <1>4, <3>1 DEF Predicts
    <3>3. {p \in P : key[p] = c} = Column(c)
      OBVIOUS
    <3>4. QED
      BY <3>2, <3>3
  <2> DEFINE Q == P
             J == C
  <2>3. \A c \in J : Even({p \in Q : key[p] = c})
    BY <2>2
  <2>4. IsFiniteSet(Q) /\ IsFiniteSet(J) /\ key \in [Q -> J]
    BY <1>1, <1>2, <2>1
  <2> HIDE DEF key, Q, J
  <2>5. Even(Q)
    BY <2>3, <2>4, EvenParts
  <2>6. QED
    BY <2>5 DEF Q
<1>6. Even(P \ Row(0))
  <2> DEFINE Q == P \ Row(0)
             J == E \ {0}
             key == [p \in Q |-> p[1]]
  <2>1. key \in [Q -> J]
    OBVIOUS
  <2>2. ASSUME NEW i \in J PROVE Even({p \in Q : key[p] = i})
    <3>1. k - i \in L .. k - 1
      OBVIOUS
    <3>2. Even(Row(i))
      BY <1>3, <3>1 DEF Predicts
    <3>3. {p \in Q : key[p] = i} = Row(i)
      OBVIOUS
    <3>4. QED
      BY <3>2, <3>3
  <2>3. IsFiniteSet(Q) /\ IsFiniteSet(J)
    BY <1>1, <1>2, FS_Subset
  <2> HIDE DEF key, Q, J
  <2>4. Even(Q)
    BY <2>1, <2>2, <2>3, EvenParts
  <2>5. QED
    BY <2>4 DEF Q
<1>7. ~Even(Row(0))
  BY <1>3, k - 0 = k
<1>8. P = (P \ Row(0)) \cup Row(0) /\ (P \ Row(0)) \cap Row(0) = {}
  OBVIOUS
<1>9. IsFiniteSet(P \ Row(0)) /\ IsFiniteSet(Row(0))
  BY <1>2, FS_Subset
<1> HIDE DEF P, Row
<1>10. Even((P \ Row(0)) \cup Row(0)) <=> (Even(P \ Row(0)) <=> Even(Row(0)))
  BY <1>8, <1>9, EvenDisjoint
<1>11. QED
  BY <1>5, <1>6, <1>7, <1>8, <1>10

-----------------------------------------------------------------------------
(***************************************************************************)
(* The inductive invariant of the result: the register predicts what has   *)
(* been read from bit L on; the saved polynomial did so up to bit m, where *)
(* it failed; and no shorter register predicts what has been read.         *)
(***************************************************************************)
IsShortest(s, L, k) ==
    \A j \in 0 .. L - 1 : \A D \in SUBSET (1 .. j) : ~Predicts(s, {0} \cup D, j, k)

MasseyExact(n, s, b, k) ==
    /\ MasseyInv(n, s, b, k)
    /\ 0 \in b.C /\ Predicts(s, b.C, b.L, k)
    /\ b.m = -1 => b.L = 0 /\ b.B = {0}
    /\ b.m # -1 => Predicts(s, b.B, b.m + 1 - b.L, b.m) /\ Odd(s, b.m, b.B)
    /\ IsShortest(s, b.L, k)

\* The register that has read nothing predicts nothing.
LEMMA ExactStarts ==
    ASSUME NEW n \in Nat \ {0}, NEW s
    PROVE  MasseyExact(n, s, Start, 0)
BY MasseyStarts DEF MasseyExact, Start, Predicts, IsShortest

\* What the code copies is the whole polynomial.
LEMMA CopiedIsWhole ==
    ASSUME NEW to \in SUBSET Nat, NEW from \in SUBSET Nat, NEW max \in Nat,
           UpTo(to, max), UpTo(from, max)
    PROVE  Copied(to, from, max + 1) = from
<1>1. \A i \in to \cup from : i < max + 1 /\ ~(i >= max + 1)
  BY DEF UpTo
<1>2. QED
  BY <1>1 DEF Copied

\* The sum that corrects the prediction, and what it predicts.
LEMMA CorrectedPredicts ==
    ASSUME NEW n \in Nat \ {0}, NEW s, NEW b, NEW k \in 0 .. n - 1,
           MasseyExact(n, s, b, k), Odd(s, k, b.C),
           NEW C2, C2 = Plus(b.C, {e + k - b.m : e \in {e \in b.B : e < n - k + b.m}}),
           NEW L2, L2 = IF 2 * b.L <= k THEN k + 1 - b.L ELSE b.L
    PROVE  0 \in C2 /\ Predicts(s, C2, L2, k + 1)
<1> DEFINE S == {e + k - b.m : e \in {e \in b.B : e < n - k + b.m}}
<1>1. /\ b.L \in Nat /\ b.m \in Int /\ b.C \in SUBSET Nat /\ b.B \in SUBSET Nat
      /\ b.L <= k /\ b.m + 1 \in 0 .. k /\ b.m + 1 <= 2 * b.L
      /\ UpTo(b.C, b.L) /\ UpTo(b.B, b.m + 1 - b.L)
  BY DEF MasseyExact, MasseyInv, Registers
<1>2. 0 \in C2
  <2>1. 0 \in b.C
    BY DEF MasseyExact
  <2>2. 0 \notin S
    BY <1>1
  <2>3. QED
    BY <2>1, <2>2 DEF Plus, SymDiff
<1>3. CASE b.m = -1
  <2>1. b.L = 0
    BY <1>3 DEF MasseyExact
  <2>2. L2 = k + 1
    BY <2>1
  <2>3. QED
    BY <1>2, <2>2 DEF Predicts
<1>4. CASE b.m # -1
  <2> DEFINE d == k - b.m
             E == {e + d : e \in b.B}
  <2>1. b.L # 0 /\ d \in Int
    BY <1>1, <1>4
  <2>2. \A e \in b.B : e < n - k + b.m /\ e + k - b.m = e + d
    BY <1>1, <2>1 DEF UpTo
  <2>3. S = E
    BY <2>2
  <2>4. IsFiniteSet(b.C) /\ IsFiniteSet(b.B)
    <3>1. b.C \in SUBSET (0 .. b.L) /\ b.B \in SUBSET (0 .. b.L)
      BY <1>1 DEF UpTo
    <3>2. IsFiniteSet(0 .. b.L)
      BY <1>1, 0 \in Int, b.L \in Int, FS_Interval
    <3>3. QED
      BY <3>1, <3>2, FS_Subset
  <2>5. \A i \in Int : IsFiniteSet(E) /\ (Odd(s, i, E) <=> Odd(s, i - d, b.B))
    <3> SUFFICES ASSUME NEW i \in Int
                 PROVE  IsFiniteSet(E) /\ (Odd(s, i, E) <=> Odd(s, i - d, b.B))
      OBVIOUS
    <3>1. d \in Int /\ b.B \in SUBSET Int /\ IsFiniteSet(b.B)
      BY <1>1, <2>1, <2>4
    <3> HIDE DEF d
    <3>2. QED
      BY <3>1, OddOfShift
  <2>6. \A i \in Int : Odd(s, i, C2) <=> ~(Odd(s, i, b.C) <=> Odd(s, i - d, b.B))
    <3>1. C2 = Plus(b.C, E)
      BY <2>3
    <3> HIDE DEF E
    <3>2. QED
      BY <2>4, <2>5, <3>1, OddOfSum
  <2>7. /\ Predicts(s, b.C, b.L, k) /\ Odd(s, b.m, b.B)
        /\ Predicts(s, b.B, b.m + 1 - b.L, b.m)
    BY <1>4 DEF MasseyExact
  <2>8. ASSUME NEW i \in L2 .. k, i # k
        PROVE  ~Odd(s, i, C2)
    <3>1. i \in b.L .. k - 1 /\ i - d \in b.m + 1 - b.L .. b.m - 1 /\ i \in Int
      BY <1>1, <2>8
    <3>2. ~Odd(s, i, b.C) /\ ~Odd(s, i - d, b.B)
      BY <2>7, <3>1 DEF Predicts
    <3>3. QED
      BY <2>6, <3>1, <3>2
  <2>9. ~Odd(s, k, C2)
    <3>1. k - d = b.m /\ k \in Int
      BY <1>1
    <3>2. QED
      BY <2>6, <2>7, <3>1
  <2>10. L2 \in Int
    BY <1>1
  <2>11. L2 .. (k + 1) - 1 = L2 .. k
    BY <2>10
  <2>12. QED
    BY <1>2, <2>8, <2>9, <2>11 DEF Predicts
<1>5. QED
  BY <1>3, <1>4

\* A register as long as the one that grows at bit k is needed from there on.
LEMMA LongerIsNeeded ==
    ASSUME NEW n \in Nat \ {0}, NEW s, NEW b, NEW k \in 0 .. n - 1,
           MasseyExact(n, s, b, k), Odd(s, k, b.C)
    PROVE  IsShortest(s, IF 2 * b.L <= k THEN k + 1 - b.L ELSE b.L, k + 1)
<1>1. /\ b.L \in Nat /\ b.C \in SUBSET Nat /\ b.L <= k /\ UpTo(b.C, b.L) /\ 0 \in b.C
      /\ Predicts(s, b.C, b.L, k) /\ IsShortest(s, b.L, k)
  BY DEF MasseyExact, MasseyInv, Registers
<1>2. CASE 2 * b.L <= k
  <2> SUFFICES ASSUME NEW j \in 0 .. (k + 1 - b.L) - 1, NEW D \in SUBSET (1 .. j)
               PROVE  ~Predicts(s, {0} \cup D, j, k + 1)
    BY <1>2 DEF IsShortest
  <2>1. /\ j \in Nat /\ j + b.L <= k /\ b.C \in SUBSET (0 .. b.L)
        /\ {0} \cup D \in SUBSET (0 .. j) /\ 0 \in {0} \cup D /\ k \in Nat
    BY <1>1 DEF UpTo
  <2>2. QED
    BY <1>1, <2>1, NoShorterRegister
<1>3. CASE ~(2 * b.L <= k)
  <2> SUFFICES ASSUME NEW j \in 0 .. b.L - 1, NEW D \in SUBSET (1 .. j),
                      Predicts(s, {0} \cup D, j, k + 1)
               PROVE  FALSE
    BY <1>3 DEF IsShortest
  <2>1. Predicts(s, {0} \cup D, j, k)
    BY DEF Predicts
  <2>2. QED
    BY <1>1, <2>1 DEF IsShortest
<1>4. QED
  BY <1>2, <1>3

\* The register that is kept.
LEMMA KeptIsShortest ==
    ASSUME NEW s, NEW L, NEW k \in Nat, IsShortest(s, L, k)
    PROVE  IsShortest(s, L, k + 1)
<1>1. \A C, j : Predicts(s, C, j, k + 1) => Predicts(s, C, j, k)
  BY DEF Predicts
<1>2. QED
  BY <1>1 DEF IsShortest

\* One more bit: the register is kept, corrected or made longer.
LEMMA ExactStep ==
    ASSUME NEW n \in Nat \ {0}, NEW s, NEW b, NEW k \in 0 .. n - 1,
           MasseyExact(n, s, b, k)
    PROVE  MasseyExact(n, s, Step(n, s, b, k), k + 1)
<1> DEFINE odd == Odd(s, k, {0} \cup {i \in b.C : i <= b.L})
           T2 == Copied(b.T, b.C, b.L + 1)
           C2 == Plus(b.C, {e + k - b.m : e \in {e \in b.B : e < n - k + b.m}})
           L2 == k + 1 - b.L
           B2 == Copied(b.B, T2, L2 + 1)
           r == Step(n, s, b, k)
<1>1. /\ b.L \in Nat /\ b.m \in Int /\ b.C \in SUBSET Nat
      /\ b.B \in SUBSET Nat /\ b.T \in SUBSET Nat
      /\ b = [L |-> b.L, m |-> b.m, C |-> b.C, B |-> b.B, T |-> b.T]
      /\ b.L <= k /\ b.m + 1 \in 0 .. k /\ b.m + 1 <= 2 * b.L
      /\ UpTo(b.C, b.L) /\ UpTo(b.T, b.L) /\ UpTo(b.B, b.m + 1 - b.L) /\ 0 \in b.C
  BY DEF MasseyExact, MasseyInv, Registers
<1>2. MasseyInv(n, s, r, k + 1)
  BY StepKeeps DEF MasseyExact
<1>3. {0} \cup {i \in b.C : i <= b.L} = b.C
  BY <1>1 DEF UpTo
<1>4. odd <=> Odd(s, k, b.C)
  BY <1>3
<1>5. T2 = b.C
  BY <1>1, CopiedIsWhole
<1>6. 2 * b.L <= k => B2 = b.C
  <2> SUFFICES ASSUME 2 * b.L <= k PROVE B2 = b.C
    OBVIOUS
  <2>1. L2 \in Nat /\ UpTo(b.B, L2) /\ UpTo(b.C, L2)
    BY <1>1 DEF UpTo
  <2>2. Copied(b.B, b.C, L2 + 1) = b.C
    BY <1>1, <2>1, CopiedIsWhole
  <2>3. QED
    BY <1>5, <2>2
<1>7. r = IF ~odd THEN b
          ELSE IF 2 * b.L <= k
               THEN [L |-> L2, m |-> k, C |-> C2, B |-> B2, T |-> T2]
               ELSE [b EXCEPT !.C = C2, !.T = T2]
  BY DEF Step, Grows
<1>8. Odd(s, k, b.C) =>
        /\ 0 \in C2 /\ Predicts(s, C2, IF 2 * b.L <= k THEN k + 1 - b.L ELSE b.L, k + 1)
        /\ IsShortest(s, IF 2 * b.L <= k THEN k + 1 - b.L ELSE b.L, k + 1)
  BY CorrectedPredicts, LongerIsNeeded
<1> HIDE DEF odd, C2, T2, B2, r
<1>9. CASE ~odd
  <2>1. r = b
    BY <1>7, <1>9
  <2>2. Predicts(s, b.C, b.L, k) /\ IsShortest(s, b.L, k)
    BY DEF MasseyExact
  <2>3. Predicts(s, b.C, b.L, k + 1)
    BY <1>1, <1>4, <1>9, <2>2 DEF Predicts
  <2>4. IsShortest(s, b.L, k + 1)
    BY <2>2, KeptIsShortest
  <2>5. QED
    BY <1>2, <2>1, <2>3, <2>4 DEF MasseyExact, r
<1>10. CASE odd /\ 2 * b.L <= k
  <2>1. r.L = L2 /\ r.m = k /\ r.C = C2 /\ r.B = b.C
    BY <1>6, <1>7, <1>10
  <2>2. 0 \in C2 /\ Predicts(s, C2, L2, k + 1) /\ IsShortest(s, L2, k + 1)
    BY <1>4, <1>8, <1>10
  <2>3. k # -1 /\ k + 1 - L2 = b.L
    BY <1>1
  <2>4. Predicts(s, b.C, b.L, k) /\ Odd(s, k, b.C)
    BY <1>4, <1>10 DEF MasseyExact
  <2> HIDE DEF L2
  <2>5. QED
    BY <1>2, <2>1, <2>2, <2>3, <2>4 DEF MasseyExact, r
<1>11. CASE odd /\ ~(2 * b.L <= k)
  <2>1. r.L = b.L /\ r.m = b.m /\ r.C = C2 /\ r.B = b.B
    BY <1>1, <1>7, <1>11
  <2>2. 0 \in C2 /\ Predicts(s, C2, b.L, k + 1) /\ IsShortest(s, b.L, k + 1)
    BY <1>4, <1>8, <1>11
  <2>3. QED
    BY <1>2, <2>1, <2>2 DEF MasseyExact, r
<1>12. QED
  BY <1>9, <1>10, <1>11 DEF r

-----------------------------------------------------------------------------
\* The array of the states after N bits is well defined.
LEMMA AfterExists ==
    ASSUME NEW n \in Nat, NEW s
    PROVE  \E after : /\ after = [k \in 0 .. n |->
                                  IF k = 0 THEN Start ELSE Step(n, s, after[k - 1], k - 1)]
                     /\ BerlekampMassey(n, s) = after[n]
<1> DEFINE Is(g, m) == g = [k \in 0 .. m |->
                              IF k = 0 THEN Start ELSE Step(n, s, g[k - 1], k - 1)]
           S == {m \in Nat : \E g : Is(g, m)}
<1>1. 0 \in S
  <2> DEFINE g == [k \in 0 .. 0 |-> Start]
  <2>1. g = [k \in 0 .. 0 |-> IF k = 0 THEN Start ELSE Step(n, s, g[k - 1], k - 1)]
    OBVIOUS
  <2> HIDE DEF g
  <2>2. QED
    BY <2>1
<1>2. ASSUME NEW m \in S PROVE m + 1 \in S
  <2>1. PICK g : Is(g, m)
    OBVIOUS
  <2> DEFINE h == [k \in 0 .. m + 1 |-> IF k = m + 1 THEN Step(n, s, g[m], m) ELSE g[k]]
             G == [k \in 0 .. m + 1 |->
                      IF k = 0 THEN Start ELSE Step(n, s, h[k - 1], k - 1)]
  <2>2. \A k \in 0 .. m : g[k] = IF k = 0 THEN Start ELSE Step(n, s, g[k - 1], k - 1)
    BY <2>1
  <2>3. ASSUME NEW k \in 0 .. m + 1 PROVE h[k] = G[k]
    <3>1. CASE k = m + 1
      <4>1. h[k] = Step(n, s, g[m], m) /\ k - 1 = m /\ h[m] = g[m] /\ k # 0
        BY <3>1
      <4>2. QED
        BY <4>1
    <3>2. CASE k = 0
      BY <2>2, <3>2
    <3>3. CASE k # 0 /\ k # m + 1
      <4>1. k \in 0 .. m /\ k - 1 \in 0 .. m + 1 /\ k - 1 # m + 1
        BY <3>3
      <4>2. h[k] = g[k] /\ h[k - 1] = g[k - 1]
        BY <3>3, <4>1
      <4>3. QED
        BY <2>2, <3>3, <4>1, <4>2
    <3>4. QED
      BY <3>1, <3>2, <3>3
  <2>4. h = G
    BY <2>3
  <2>5. Is(h, m + 1)
    BY <2>4
  <2>6. m + 1 \in Nat
    OBVIOUS
  <2> HIDE DEF h, G, Is
  <2>7. QED
    BY <2>5, <2>6
<1> HIDE DEF Is
<1>3. S = Nat
  <2> HIDE DEF S
  <2>1. QED
    BY <1>1, <1>2, NatInduct DEF S
<1>4. \E g : Is(g, n)
  BY <1>3
<1>5. Is((CHOOSE g : Is(g, n)), n)
  BY <1>4
<1>6. QED
  BY <1>5 DEF BerlekampMassey, Is

(***************************************************************************)
(* What makes the length of a register the linear complexity.              *)
(***************************************************************************)
LEMMA ShortestIsComplexity ==
    ASSUME NEW n \in Nat \ {0}, NEW s, NEW b, MasseyExact(n, s, b, n)
    PROVE  /\ b.L = LinearComplexity(n, s)
           /\ 0 \in b.C /\ \A e \in b.C : e <= b.L
           /\ Generates(n, s, b.C, b.L)
<1>1. /\ b.L \in 0 .. n /\ b.C \in SUBSET Nat /\ UpTo(b.C, b.L) /\ 0 \in b.C
      /\ Predicts(s, b.C, b.L, n) /\ IsShortest(s, b.L, n)
  BY DEF MasseyExact, MasseyInv, Registers
<1>2. \A D, L : Generates(n, s, D, L) <=> Predicts(s, {0} \cup D, L, n)
  BY DEF Generates, Predicts
<1>3. {0} \cup b.C = b.C /\ {0} \cup (b.C \ {0}) = b.C
  BY <1>1
<1> DEFINE S == {L \in 0 .. n : \E D \in SUBSET (1 .. L) : Generates(n, s, D, L)}
<1>4. b.L \in S
  <2>1. b.C \ {0} \in SUBSET (1 .. b.L)
    BY <1>1 DEF UpTo
  <2>2. Generates(n, s, b.C \ {0}, b.L)
    BY <1>1, <1>2, <1>3
  <2>3. QED
    BY <1>1, <2>1, <2>2
<1>5. ASSUME NEW L \in S PROVE b.L <= L
  <2>1. PICK D \in SUBSET (1 .. L) : Predicts(s, {0} \cup D, L, n)
    BY <1>2
  <2>2. ~(L \in 0 .. b.L - 1)
    BY <1>1, <2>1 DEF IsShortest
  <2>3. L \in 0 .. n
    OBVIOUS
  <2>4. QED
    BY <1>1, <2>2, <2>3
<1>6. S \subseteq Int
  OBVIOUS
<1> HIDE DEF S
<1>7. b.L = Min(S)
  <2>1. ASSUME NEW x \in S, \A y \in S : x <= y PROVE x = b.L
    <3>1. x <= b.L /\ b.L <= x /\ x \in Int /\ b.L \in Int
      BY <1>4, <1>5, <1>6, <2>1
    <3>2. QED
      BY <3>1
  <2>2. b.L \in S /\ \A y \in S : b.L <= y
    BY <1>4, <1>5
  <2>3. QED
    BY <2>1, <2>2 DEF Min
<1>8. QED
  BY <1>1, <1>2, <1>3, <1>7 DEF LinearComplexity, S, UpTo

(***************************************************************************)
(* berlekamp_massey returns the linear complexity.                         *)
(***************************************************************************)
THEOREM MasseyIsExact ==
    ASSUME NEW n \in Nat \ {0}, NEW s \in Sequences01(n)
    PROVE  LET b == BerlekampMassey(n, s)
           IN  /\ b.L = LinearComplexity(n, s)
               /\ 0 \in b.C /\ \A e \in b.C : e <= b.L
               /\ Generates(n, s, b.C, b.L)
               /\ b.L + 1 > n <=> \A k \in 0 .. n - 1 : s[k] = 1 <=> k = n - 1
<1>1. PICK after : /\ after = [k \in 0 .. n |->
                            IF k = 0 THEN Start ELSE Step(n, s, after[k - 1], k - 1)]
                   /\ BerlekampMassey(n, s) = after[n]
  BY AfterExists
<1> DEFINE S == {k \in Nat : k <= n => MasseyExact(n, s, after[k], k)}
<1>2. 0 \in S
  BY <1>1, ExactStarts
<1>3. ASSUME NEW k \in S PROVE k + 1 \in S
  <2> SUFFICES ASSUME k + 1 <= n PROVE MasseyExact(n, s, after[k + 1], k + 1)
    OBVIOUS
  <2>1. k \in 0 .. n - 1 /\ MasseyExact(n, s, after[k], k)
    OBVIOUS
  <2>2. k + 1 \in 0 .. n /\ k + 1 # 0 /\ (k + 1) - 1 = k
    OBVIOUS
  <2>3. after[k + 1] = Step(n, s, after[k], k)
    BY <1>1, <2>2
  <2>4. QED
    BY <2>1, <2>3, ExactStep
<1> HIDE DEF S
<1>4. S = Nat
  BY <1>2, <1>3, NatInduct DEF S
<1>5. MasseyExact(n, s, after[n], n)
  BY <1>4 DEF S
<1> DEFINE b == BerlekampMassey(n, s)
<1>6. MasseyExact(n, s, b, n)
  BY <1>1, <1>5
<1> HIDE DEF b
<1>7. b.L \in 0 .. n /\ b.C \in SUBSET Nat /\ UpTo(b.C, b.L) /\ 0 \in b.C
  BY <1>6 DEF MasseyExact, MasseyInv, Registers
<1>8. ASSUME \A k \in 0 .. n - 1 : s[k] = 1 <=> k = n - 1, b.L # n
      PROVE  FALSE
  <2>1. ~Odd(s, n - 1, b.C)
    BY <1>6, <1>7, <1>8, n - 1 \in b.L .. n - 1 DEF MasseyExact, Predicts
  <2>2. \A i \in b.C : s[(n - 1) - i] = 1 <=> i = 0
    <3> SUFFICES ASSUME NEW i \in b.C PROVE s[(n - 1) - i] = 1 <=> i = 0
      OBVIOUS
    <3>1. i \in Nat /\ i <= n - 1 /\ (n - 1) - i \in 0 .. n - 1
      BY <1>7, <1>8 DEF UpTo
    <3>2. QED
      BY <1>8, <3>1
  <2>3. {i \in b.C : s[(n - 1) - i] = 1} = {0}
    BY <1>7, <2>2
  <2>4. Cardinality({0}) = 1
    <3>1. \A x : Cardinality({x}) = 1
      BY FS_Singleton
    <3>2. QED
      BY <3>1
  <2>5. Odd(s, n - 1, b.C)
    <3>1. Cardinality({i \in b.C : s[(n - 1) - i] = 1}) = 1
      BY <2>3, <2>4
    <3>2. 1 % 2 = 1
      OBVIOUS
    <3>3. QED
      BY <3>1, <3>2, Zenon DEF Odd
  <2>6. QED
    BY <2>1, <2>5
<1>9. ASSUME b.L = n
      PROVE  \A k \in 0 .. n - 1 : s[k] = 1 <=> k = n - 1
  BY <1>6, <1>9 DEF MasseyExact, MasseyInv
<1>10. b.L + 1 > n <=> b.L = n
  BY <1>7
<1>11. QED
  BY <1>6, <1>8, <1>9, <1>10, ShortestIsComplexity DEF b

-----------------------------------------------------------------------------
(***************************************************************************)
(* A step of a task is one of its own actions, and keeps task and input.   *)
(***************************************************************************)
LEMMA StepOfTask ==
    ASSUME TaskNext
    PROVE  /\ task' = task /\ input' = input
           /\ task = "complexity" => Complexity
           /\ task = "text" => Base64Text
           /\ task = "gaps" => Gaps
           /\ task = "gap16" => GapsOfWords
           /\ task = "filter" => Envelope \/ EnvelopeGet
           /\ task = "plugin" => CreatePlugin \/ PluginGet
           /\ task = "stdin" => OpenStdin \/ StdinGet
BY DEF TaskNext, Complexity, Solve, Sort, Base64Text, Gaps, GapsOfWords, Envelope, EnvelopeGet, CreatePlugin,
       PluginGet, OpenStdin, StdinGet

\* The input of a task is one of those it is given.
LEMMA TaskStarts ==
    ASSUME TaskInit
    PROVE  /\ answer = Unknown
           /\ task = "complexity" =>
                \E n \in Lengths : input \in {[n |-> n, a |-> a] : a \in Sequences01(n)}
           /\ task = "text" => input \in TextWords
           /\ task = "gaps" => input \in [o : GapSettings, s : GapStreams]
           /\ task = "gap16" => input \in [o : WordGaps, s : GapStreams]
           /\ task = "filter" =>
                input \in {p \in Filters \X {Half, 2 * Half} : Suits(p[1], p[2])}
           /\ task = "stdin" => input \in (0 .. StdinWords) \X StdinBlocks
BY DEF TaskInit, Choose

-----------------------------------------------------------------------------
(***************************************************************************)
(* berlekamp_massey, for every sequence of every length.                   *)
(***************************************************************************)
ComplexityInv ==
    task = "complexity" =>
        /\ input.n \in Nat \ {0} /\ input.a \in Sequences01(input.n)
        /\ answer # Unknown => answer.register = BerlekampMassey(input.n, input.a)

\* The register that berlekamp_massey returns is as long as the linear
\* complexity and generates the sequence, for every sequence of every length.
THEOREM ComplexitiesMinimal == TaskSpec => []ComplexitiesAreMinimal
<1>1. TaskInit => ComplexityInv
  <2> SUFFICES ASSUME TaskInit, task = "complexity"
               PROVE  /\ input.n \in Nat \ {0} /\ input.a \in Sequences01(input.n)
                      /\ answer = Unknown
    BY DEF ComplexityInv
  <2>1. PICK n \in Lengths : input \in {[n |-> n, a |-> a] : a \in Sequences01(n)}
    BY TaskStarts
  <2>2. PICK a \in Sequences01(n) : input = [n |-> n, a |-> a]
    BY <2>1
  <2>3. QED
    BY <2>2, TaskStarts, LinearDepAssumption
<1>2. ComplexityInv /\ [TaskNext]_vars => ComplexityInv'
  <2> SUFFICES ASSUME ComplexityInv, [TaskNext]_vars, task' = "complexity"
               PROVE  /\ input'.n \in Nat \ {0} /\ input'.a \in Sequences01(input'.n)
                      /\ answer' # Unknown =>
                            answer'.register = BerlekampMassey(input'.n, input'.a)
    BY DEF ComplexityInv
  <2>1. CASE TaskNext
    <3>1. task = "complexity" /\ input' = input /\ Complexity
      BY <2>1, StepOfTask
    <3>2. answer' = [register |-> BerlekampMassey(input.n, input.a),
                     period   |-> BmPeriodTest(input.n, input.a)]
      BY <3>1 DEF Complexity, Solve
    <3>3. QED
      BY <3>1, <3>2 DEF ComplexityInv
  <2>2. CASE UNCHANGED vars
    BY <2>2 DEF vars, ComplexityInv
  <2>3. QED
    BY <2>1, <2>2
<1>3. ComplexityInv => ComplexitiesAreMinimal
  <2> SUFFICES ASSUME ComplexityInv, Done("complexity") PROVE ComplexitiesAreMinimal
    BY DEF ComplexitiesAreMinimal
  <2>1. /\ input.n \in Nat \ {0} /\ input.a \in Sequences01(input.n)
        /\ answer.register = BerlekampMassey(input.n, input.a)
    BY DEF ComplexityInv, Done
  <2>2. QED
    BY <2>1, MasseyIsExact DEF ComplexitiesAreMinimal
<1>4. QED
  BY <1>1, <1>2, <1>3, PTL DEF TaskSpec

-----------------------------------------------------------------------------
(***************************************************************************)
(* Objects that read stdin, one after another: the last word that any of   *)
(* them has delivered, and whether the present one has delivered none.     *)
(***************************************************************************)
VARIABLES stdin, word, fresh

OpenReader(block) ==
    /\ ~stdin.in.exited
    /\ stdin' = [stdin EXCEPT !.obj = Collector(block)]
    /\ fresh' = TRUE
    /\ UNCHANGED word

GetWord(len, block) ==
    /\ ~stdin.in.exited
    /\ LET got == CollectorGet(stdin.obj, stdin.in, len, block)
       IN  /\ stdin' = [in |-> got.in, obj |-> got.obj]
           /\ IF got.in.exited THEN UNCHANGED <<word, fresh>>
              ELSE word' = got.word /\ fresh' = FALSE

StdinSpec(len, block) ==
    /\ stdin = [in |-> StdinStart, obj |-> Collector(block)]
    /\ word = -1 /\ fresh = TRUE
    /\ [][OpenReader(block) \/ GetWord(len, block)]_<<stdin, word, fresh>>

Readers == [in  : [read : Nat, total : Nat, exited : BOOLEAN],
            obj : [from : Nat, pos : Nat]]

(***************************************************************************)
(* The inductive invariant: whole blocks have been read, and the buffer of *)
(* an object that has delivered something is the last of them, up to the   *)
(* word delivered last.                                                    *)
(***************************************************************************)
StdinInv(c, w, f, len, block) ==
    /\ c \in Readers /\ w \in Int /\ f \in BOOLEAN
    /\ c.in.read <= len /\ c.in.total = c.in.read
    /\ c.in.exited => c.in.read = len
    /\ w < c.in.read
    /\ ~c.in.exited =>
        /\ c.in.read % block = 0
        /\ c.obj.pos \in 1 .. block
        /\ IF f THEN c.obj.pos = block
           ELSE /\ w = c.obj.from + c.obj.pos - 1
                /\ c.obj.from + block = c.in.read

(***************************************************************************)
(* A word is delivered once, in order: it follows the word before it, or   *)
(* is the first of the next block if the object is new.                    *)
(***************************************************************************)
IsNext(w2, w, f, read, len, block) ==
    /\ w2 \in 0 .. len - 1
    /\ IF f THEN w2 = read /\ w2 > w /\ w2 % block = 0
       ELSE w2 = w + 1

\* What a word read does to the invariant, and which word it is.
LEMMA GetKeeps ==
    ASSUME NEW len \in Nat, NEW block \in Nat \ {0}, NEW c, NEW w, NEW f,
           StdinInv(c, w, f, len, block), ~c.in.exited,
           NEW got, got = CollectorGet(c.obj, c.in, len, block)
    PROVE  IF got.in.exited
           THEN StdinInv([in |-> got.in, obj |-> got.obj], w, f, len, block)
           ELSE /\ StdinInv([in |-> got.in, obj |-> got.obj], got.word, FALSE, len, block)
                /\ IsNext(got.word, w, f, c.in.read, len, block)
<1> DEFINE read == c.in.read
           from == c.obj.from
           pos  == c.obj.pos
<1>1. /\ read \in Nat /\ from \in Nat /\ pos \in 1 .. block /\ w \in Int
      /\ read <= len /\ w < read /\ c.in.total = read /\ read % block = 0
      /\ f \in BOOLEAN
      /\ IF f THEN pos = block ELSE w = from + pos - 1 /\ from + block = read
      /\ c.obj = [from |-> from, pos |-> pos]
      /\ c.in \in [read : Nat, total : Nat, exited : BOOLEAN]
  BY DEF StdinInv, Readers
<1> HIDE DEF read, from, pos
<1>2. CASE pos < block
  <2>1. /\ got.in = c.in /\ got.obj.from = from /\ got.obj.pos = pos + 1
        /\ got.obj \in [from : Nat, pos : Nat] /\ got.word = from + pos
    <3>1. ~IsEmpty(c.obj, block)
      BY <1>1, <1>2 DEF IsEmpty, pos
    <3>2. got = [obj |-> [c.obj EXCEPT !.pos = @ + 1], in |-> c.in,
                 word |-> c.obj.from + c.obj.pos]
      BY <3>1 DEF CollectorGet
    <3>3. [c.obj EXCEPT !.pos = @ + 1] = [from |-> from, pos |-> pos + 1]
      BY <1>1
    <3>4. pos + 1 \in Nat
      BY <1>1
    <3>5. got.word = from + pos
      BY <3>2 DEF from, pos
    <3>6. got.in = c.in /\ got.obj = [from |-> from, pos |-> pos + 1]
      BY <3>2, <3>3
    <3>7. [from |-> from, pos |-> pos + 1] \in [from : Nat, pos : Nat]
      BY <1>1, <3>4
    <3>8. got.obj \in [from : Nat, pos : Nat]
      BY <3>6, <3>7
    <3>9. got.obj.from = from /\ got.obj.pos = pos + 1
      BY <3>6
    <3>10. QED
      BY <3>5, <3>6, <3>8, <3>9
  <2>2. ~f /\ from + pos = w + 1 /\ from + pos < read
    <3>1. pos # block
      BY <1>1, <1>2
    <3>2. ~f
      BY <1>1, <3>1, Zenon
    <3>3. w = from + pos - 1 /\ from + block = read
      BY <1>1, <3>2, Zenon
    <3>4. QED
      BY <1>1, <1>2, <3>2, <3>3
  <2>3. IsNext(got.word, w, f, c.in.read, len, block)
    BY <1>1, <2>1, <2>2 DEF IsNext
  <2>4. StdinInv([in |-> got.in, obj |-> got.obj], got.word, FALSE, len, block)
    BY <1>1, <1>2, <2>1, <2>2 DEF StdinInv, Readers, read
  <2>5. QED
    BY <2>1, <2>3, <2>4
<1>3. CASE ~(pos < block)
  <2>1. /\ got.obj = [from |-> read, pos |-> 1] /\ got.word = read
        /\ got.in = FillBuffer(c.in, len, block)
    BY <1>1, <1>3 DEF CollectorGet, IsEmpty, read, pos
  <2>2. CASE read + block <= len
    <3>1. got.in = [read |-> read + block, total |-> read + block, exited |-> FALSE]
      BY <1>1, <2>1, <2>2 DEF FillBuffer, read
    <3>2. (read + block) % block = 0
      <4>1. read + block \in Nat /\ read + block >= block /\ (read + block) - block = read
        BY <1>1
      <4>2. QED
        BY <1>1, <4>1, DivModMinus
    <3>3. IsNext(got.word, w, f, c.in.read, len, block)
      BY <1>1, <1>3, <2>1, <2>2 DEF IsNext, read
    <3>4. StdinInv([in |-> got.in, obj |-> got.obj], got.word, FALSE, len, block)
      <4> DEFINE c2 == [in |-> got.in, obj |-> got.obj]
      <4>1. /\ c2.in.read = read + block /\ c2.in.total = read + block
            /\ c2.in.exited = FALSE /\ c2.obj.from = read /\ c2.obj.pos = 1
        BY <2>1, <3>1
      <4>2. c2 \in Readers
        <5> HIDE DEF c2
        <5>1. got.in \in [read : Nat, total : Nat, exited : BOOLEAN]
          <6>1. read + block \in Nat
            BY <1>1
          <6>2. QED
            BY <3>1, <6>1
        <5>2. got.obj \in [from : Nat, pos : Nat]
          BY <1>1, <2>1
        <5>3. QED
          BY <5>1, <5>2 DEF c2, Readers
      <4>3. /\ read + block <= len /\ read < read + block /\ 1 \in 1 .. block
            /\ read = read + 1 - 1 /\ read \in Int
        BY <1>1, <2>2
      <4> HIDE DEF c2
      <4>4. StdinInv(c2, read, FALSE, len, block)
        BY <3>2, <4>1, <4>2, <4>3 DEF StdinInv
      <4>5. QED
        <5>1. got.word = read
          BY <2>1
        <5>2. QED
          BY <4>4, <5>1 DEF c2
    <3>5. QED
      <4>1. ~got.in.exited
        BY <3>1
      <4>2. QED
        BY <3>3, <3>4, <4>1
  <2>3. CASE ~(read + block <= len)
    <3>1. got.in = [read |-> len, total |-> len, exited |-> TRUE]
      <4>1. read + (len - read) = len /\ len - read # block
        BY <1>1, <2>3
      <4>2. c.in.read = read /\ c.in.total = read
        BY <1>1 DEF read
      <4>3. QED
        BY <2>1, <2>3, <4>1, <4>2 DEF FillBuffer
    <3>2. StdinInv([in |-> got.in, obj |-> got.obj], w, f, len, block)
      <4> DEFINE c2 == [in |-> got.in, obj |-> got.obj]
      <4>1. /\ c2.in.read = len /\ c2.in.total = len /\ c2.in.exited = TRUE
        BY <2>1, <3>1
      <4>2. c2 \in Readers
        <5> HIDE DEF c2
        <5>1. got.in \in [read : Nat, total : Nat, exited : BOOLEAN]
          BY <3>1
        <5>2. got.obj \in [from : Nat, pos : Nat]
          BY <1>1, <2>1
        <5>3. QED
          BY <5>1, <5>2 DEF c2, Readers
      <4>3. len <= len /\ w < len
        BY <1>1
      <4> HIDE DEF c2
      <4>4. StdinInv(c2, w, f, len, block)
        BY <1>1, <4>1, <4>2, <4>3 DEF StdinInv
      <4>5. QED
        BY <4>4 DEF c2
    <3>3. QED
      BY <3>1, <3>2
  <2>4. QED
    BY <2>2, <2>3
<1>4. QED
  BY <1>2, <1>3

\* A new object has an empty buffer.
LEMMA OpenKeeps ==
    ASSUME NEW len \in Nat, NEW block \in Nat \ {0}, NEW c, NEW w, NEW f,
           StdinInv(c, w, f, len, block), ~c.in.exited
    PROVE  StdinInv([c EXCEPT !.obj = Collector(block)], w, TRUE, len, block)
BY DEF StdinInv, Readers, Collector

\* The invariant holds whatever objects come and go.
LEMMA StdinInvariance ==
    ASSUME NEW CONSTANT len \in Nat, NEW CONSTANT block \in Nat \ {0}
    PROVE  StdinSpec(len, block) => []StdinInv(stdin, word, fresh, len, block)
<1> DEFINE Inv == StdinInv(stdin, word, fresh, len, block)
           NextR == OpenReader(block) \/ GetWord(len, block)
           varsR == <<stdin, word, fresh>>
<1>1. stdin = [in |-> StdinStart, obj |-> Collector(block)] /\ word = -1 /\ fresh = TRUE
        => Inv
  BY 0 % block = 0 DEF StdinInv, Readers, StdinStart, Collector
<1>2. Inv /\ [NextR]_varsR => Inv'
  <2> SUFFICES ASSUME Inv, [NextR]_varsR
               PROVE  StdinInv(stdin', word', fresh', len, block)
    BY DEF StdinInv, Readers
  <2>1. CASE OpenReader(block)
    BY <2>1, OpenKeeps DEF OpenReader
  <2>2. CASE GetWord(len, block)
    <3>1. PICK got : got = CollectorGet(stdin.obj, stdin.in, len, block)
      OBVIOUS
    <3>2. /\ stdin' = [in |-> got.in, obj |-> got.obj]
          /\ IF got.in.exited THEN word' = word /\ fresh' = fresh
             ELSE word' = got.word /\ fresh' = FALSE
      BY <2>2, <3>1 DEF GetWord
    <3>3. QED
      BY <2>2, <3>1, <3>2, GetKeeps DEF GetWord
  <2>3. CASE UNCHANGED varsR
    BY <2>3
  <2>4. QED
    BY <2>1, <2>2, <2>3
<1>3. QED
  BY <1>1, <1>2, PTL DEF StdinSpec

(***************************************************************************)
(* The tests get the words of stdin once and in order, whatever the length *)
(* of the input and of the buffer: none is skipped as long as one object   *)
(* reads, and a new object goes on with the next block.                    *)
(***************************************************************************)
THEOREM StdinIsDelivered ==
    ASSUME NEW CONSTANT len \in Nat, NEW CONSTANT block \in Nat \ {0}
    PROVE  StdinSpec(len, block) =>
               [][word' # word =>
                    IsNext(word', word, fresh, stdin.in.read, len, block)]_<<stdin, word, fresh>>
<1> DEFINE Inv == StdinInv(stdin, word, fresh, len, block)
           NextR == OpenReader(block) \/ GetWord(len, block)
           varsR == <<stdin, word, fresh>>
           Deliver == word' # word =>
                          IsNext(word', word, fresh, stdin.in.read, len, block)
<1>1. Inv /\ [NextR]_varsR => [Deliver]_varsR
  <2> SUFFICES ASSUME Inv, NextR, word' # word
               PROVE  IsNext(word', word, fresh, stdin.in.read, len, block)
    OBVIOUS
  <2>1. GetWord(len, block)
    BY DEF OpenReader
  <2>2. PICK got : got = CollectorGet(stdin.obj, stdin.in, len, block)
    OBVIOUS
  <2>3. ~stdin.in.exited /\ ~got.in.exited /\ word' = got.word
    BY <2>1, <2>2 DEF GetWord
  <2>4. QED
    BY <2>2, <2>3, GetKeeps
<1>2. QED
  BY <1>1, StdinInvariance, PTL DEF StdinSpec

-----------------------------------------------------------------------------
(***************************************************************************)
(* Words, as sequences of bits.                                            *)
(***************************************************************************)
Bits == Int \X Int

IsWord(u, width) == u \in Seq(Bits) /\ Len(u) = width

\* An output of the parent has its own bits, from the lowest to the highest.
LEMMA OutputIs ==
    ASSUME NEW k \in Nat, NEW n \in Nat
    PROVE  IsWord(Output(k, n), n) /\ \A i \in 1 .. n : Output(k, n)[i] = <<k, i - 1>>
<1>1. Output(k, n) \in [1 .. n -> Bits]
  BY DEF Output, Bits
<1>2. Output(k, n) \in Seq(Bits) /\ DOMAIN Output(k, n) = 1 .. n
  BY <1>1
<1>3. Len(Output(k, n)) = n
  BY <1>2, LenProperties
<1>4. QED
  BY <1>2, <1>3 DEF Output, IsWord

\* The halves of a word.
LEMMA HalvesAre ==
    ASSUME NEW u, IsWord(u, 2 * Half)
    PROVE  /\ IsWord(LowHalf(u), Half) /\ \A i \in 1 .. Half : LowHalf(u)[i] = u[i]
           /\ IsWord(HighHalf(u), Half) /\ \A i \in 1 .. Half : HighHalf(u)[i] = u[Half + i]
<1>1. Half \in Nat \ {0}
  BY EnvelopesAssumption
<1>2. u \in Seq(Bits) /\ Len(u) = 2 * Half
  BY DEF IsWord
<1>3. /\ LowHalf(u) \in Seq(Bits) /\ Len(LowHalf(u)) = Half
      /\ \A i \in 1 .. Half : LowHalf(u)[i] = u[i]
  <2>1. /\ SubSeq(u, 1, Half) \in Seq(Bits)
        /\ Len(SubSeq(u, 1, Half)) = IF 1 <= Half THEN Half - 1 + 1 ELSE 0
        /\ \A i \in 1 .. Half - 1 + 1 : SubSeq(u, 1, Half)[i] = u[1 + i - 1]
    BY <1>1, <1>2, SubSeqProperties
  <2>2. QED
    BY <1>1, <2>1 DEF LowHalf
<1>4. /\ HighHalf(u) \in Seq(Bits) /\ Len(HighHalf(u)) = Half
      /\ \A i \in 1 .. Half : HighHalf(u)[i] = u[Half + i]
  <2>1. /\ SubSeq(u, Half + 1, 2 * Half) \in Seq(Bits)
        /\ Len(SubSeq(u, Half + 1, 2 * Half)) =
               IF Half + 1 <= 2 * Half THEN 2 * Half - (Half + 1) + 1 ELSE 0
        /\ \A i \in 1 .. 2 * Half - (Half + 1) + 1 :
               SubSeq(u, Half + 1, 2 * Half)[i] = u[Half + 1 + i - 1]
    BY <1>1, <1>2, SubSeqProperties
  <2>2. QED
    BY <1>1, <2>1 DEF HighHalf
<1>5. QED
  BY <1>3, <1>4 DEF IsWord

\* The low half of a word that may be wider.
LEMMA LowerIs ==
    ASSUME NEW n \in Nat, Half <= n, NEW u, IsWord(u, n)
    PROVE  IsWord(LowHalf(u), Half) /\ \A i \in 1 .. Half : LowHalf(u)[i] = u[i]
<1>1. Half \in Nat \ {0} /\ u \in Seq(Bits) /\ Len(u) = n
  BY EnvelopesAssumption DEF IsWord
<1>2. /\ SubSeq(u, 1, Half) \in Seq(Bits)
      /\ Len(SubSeq(u, 1, Half)) = IF 1 <= Half THEN Half - 1 + 1 ELSE 0
      /\ \A i \in 1 .. Half - 1 + 1 : SubSeq(u, 1, Half)[i] = u[1 + i - 1]
  <2>1. \A i \in 1 .. Half : u[i] \in Bits
    BY <1>1
  <2>2. QED
    BY <1>1, <2>1, SubSeqProperties
<1>3. QED
  BY <1>1, <1>2 DEF LowHalf, IsWord

\* A word whose lowest bit is replaced.
IsReplaced(w, u, b, n) ==
    IsWord(w, n) /\ \A i \in 1 .. n : w[i] = IF i = 1 THEN b ELSE u[i]

\* uint31_low and others put a bit of the filler in the lowest place.
LEMMA LowestReplaced ==
    ASSUME NEW n \in Nat \ {0}, NEW u, IsWord(u, n), NEW b \in Bits
    PROVE  IsReplaced(<<b>> \o Tail(u), u, b, n)
<1>1. /\ Tail(u) \in Seq(Bits) /\ Len(Tail(u)) = n - 1
      /\ \A i \in 1 .. n - 1 : Tail(u)[i] = u[i + 1]
  <2>1. u # <<>>
    BY EmptySeq DEF IsWord
  <2>2. QED
    BY <2>1, HeadTailProperties DEF IsWord
<1>2. <<b>> \in Seq(Bits) /\ Len(<<b>>) = 1 /\ <<b>>[1] = b
  OBVIOUS
<1> DEFINE t == Tail(u)
           h == <<b>>
<1> HIDE DEF t, h
<1>3. /\ h \o t \in Seq(Bits) /\ Len(h \o t) = Len(h) + Len(t)
      /\ \A i \in 1 .. Len(h) + Len(t) :
            (h \o t)[i] = IF i <= Len(h) THEN h[i] ELSE t[i - Len(h)]
  BY <1>1, <1>2, ConcatProperties DEF t, h
<1>4. \A i \in 1 .. n : (h \o t)[i] = IF i = 1 THEN b ELSE u[i]
  <2> SUFFICES ASSUME NEW i \in 1 .. n PROVE (h \o t)[i] = IF i = 1 THEN b ELSE u[i]
    OBVIOUS
  <2>1. i \in 1 .. Len(h) + Len(t) /\ Len(h) = 1
    BY <1>1, <1>2 DEF t, h
  <2>2. CASE i = 1
    BY <1>2, <1>3, <2>1, <2>2 DEF h
  <2>3. CASE i # 1
    <3>1. i - 1 \in 1 .. n - 1 /\ ~(i <= 1) /\ i - 1 + 1 = i
      BY <2>3
    <3>2. (h \o t)[i] = t[i - 1]
      BY <1>3, <2>1, <3>1
    <3>3. QED
      BY <1>1, <2>3, <3>1, <3>2 DEF t
  <2>4. QED
    BY <2>2, <2>3
<1>5. QED
  <2>1. Len(h \o t) = n
    BY <1>1, <1>2, <1>3 DEF t, h
  <2>2. IsReplaced(h \o t, u, b, n)
    BY <1>3, <1>4, <2>1 DEF IsReplaced, IsWord
  <2>3. QED
    BY <2>2 DEF t, h

\* A word moved down by one bit, with a new highest bit.
IsMovedDown(w, u, b, n) ==
    IsWord(w, n) /\ \A i \in 1 .. n : w[i] = IF i = n THEN b ELSE u[i + 1]

\* uint31 and uint63 put the bit of the filler in the highest place.
LEMMA MovedDown ==
    ASSUME NEW n \in Nat \ {0}, NEW u, IsWord(u, n), NEW b \in Bits
    PROVE  IsMovedDown(Append(Tail(u), b), u, b, n)
<1>1. /\ Tail(u) \in Seq(Bits) /\ Len(Tail(u)) = n - 1
      /\ \A i \in 1 .. n - 1 : Tail(u)[i] = u[i + 1]
  <2>1. u # <<>>
    BY EmptySeq DEF IsWord
  <2>2. QED
    BY <2>1, HeadTailProperties DEF IsWord
<1> DEFINE t == Tail(u)
<1> HIDE DEF t
<1>2. /\ Append(t, b) \in Seq(Bits) /\ Len(Append(t, b)) = Len(t) + 1
      /\ \A i \in 1 .. Len(t) : Append(t, b)[i] = t[i]
      /\ Append(t, b)[Len(t) + 1] = b
  BY <1>1, AppendProperties DEF t
<1>3. QED
  BY <1>1, <1>2 DEF IsMovedDown, IsWord, t

-----------------------------------------------------------------------------
(***************************************************************************)
(* Bit i of word number k from an envelope, and the envelope after k       *)
(* words, in a closed form.                                                *)
(***************************************************************************)
Fills(filter) == filter \in {"uint31", "uint31_low", "uint63"}

BitAt(filter, n, k, i) ==
    CASE filter = "reverse-bits"  -> <<k - 1, n - i>>
      [] filter = "interleaved32" -> <<(k - 1) \div 2, IF k % 2 = 1 THEN i - 1 ELSE Half + i - 1>>
      [] filter = "high32"        -> <<k - 1, Half + i - 1>>
      [] filter = "low32"         -> <<k - 1, i - 1>>
      [] filter = "uint31_low"    -> IF i = Half THEN FillerBit(k - 1) ELSE <<k + 1, i>>
      [] OTHER                    -> IF i = 1 THEN FillerBit(k - 1) ELSE <<k + 1, i - 1>>

EnvelopeAfter(filter, n, k) ==
    [drawn   |-> IF filter = "interleaved32" THEN (k + 1) \div 2
                 ELSE IF Fills(filter) THEN k + 2 ELSE k,
     val     |-> IF filter = "interleaved32" /\ k > 0 THEN Output((k - 1) \div 2, n) ELSE <<>>,
     pos     |-> IF filter = "interleaved32" /\ k % 2 = 1 THEN 1 ELSE Invalid,
     fillers |-> IF Fills(filter) THEN k ELSE 0]

\* create_enveloped.
LEMMA EnvelopeStarts ==
    ASSUME NEW filter \in Filters, NEW n
    PROVE  CreateEnveloped(filter) = EnvelopeAfter(filter, n, 0)
<1>1. 0 % 2 = 0 /\ (0 + 1) \div 2 = 0
  OBVIOUS
<1>2. QED
  BY <1>1 DEF CreateEnveloped, EnvelopeAfter, Fills

\* The width of a parent that suits a filter, and that of the filter.
Parent(filter, n) == filter \in Filters /\ n \in {Half, 2 * Half} /\ Suits(filter, n)

\* The filters and the widths of their words.
LEMMA WidthsAre ==
    ASSUME NEW filter, NEW n, Parent(filter, n)
    PROVE  /\ Half \in Nat \ {0} /\ n \in Nat \ {0} /\ Half <= n
           /\ filter \in {"interleaved32", "high32", "low32"} => n = 2 * Half /\ NBits(filter, n) = Half
           /\ filter \in {"uint31", "uint63", "reverse-bits"} => NBits(filter, n) = n
           /\ filter = "uint31_low" => NBits(filter, n) = Half
BY EnvelopesAssumption DEF Parent, Suits, NBits, Filters

\* What word number k is.
IsBits(w, filter, n, k) ==
    /\ IsWord(w, NBits(filter, n))
    /\ \A i \in 1 .. NBits(filter, n) : w[i] = BitAt(filter, n, k, i)

\* An envelope with a filler.
Filled(obj) == [[obj EXCEPT !.drawn = @ + 1] EXCEPT !.fillers = @ + 1]

\* The counters of an envelope that fills go on by one.
LEMMA FillsIs ==
    ASSUME NEW filter, Fills(filter), NEW n, NEW k \in Nat,
           NEW obj, obj = EnvelopeAfter(filter, n, k)
    PROVE  /\ obj.drawn = k + 2 /\ obj.fillers = k
           /\ Filled(obj) = EnvelopeAfter(filter, n, k + 1)
<1>1. \A j : EnvelopeAfter(filter, n, j) =
                [drawn |-> j + 2, val |-> <<>>, pos |-> Invalid, fillers |-> j]
  BY DEF EnvelopeAfter, Fills
<1>2. obj = [drawn |-> k + 2, val |-> <<>>, pos |-> Invalid, fillers |-> k]
  BY <1>1
<1>3. EnvelopeAfter(filter, n, k + 1) =
          [drawn |-> (k + 2) + 1, val |-> <<>>, pos |-> Invalid, fillers |-> k + 1]
  BY <1>1, (k + 1) + 2 = (k + 2) + 1
<1> DEFINE next == [obj EXCEPT !.drawn = @ + 1]
<1>4. next = [drawn |-> (k + 2) + 1, val |-> <<>>, pos |-> Invalid, fillers |-> k]
  BY <1>2
<1> HIDE DEF next
<1>5. [next EXCEPT !.fillers = @ + 1] = EnvelopeAfter(filter, n, k + 1)
  BY <1>3, <1>4
<1>6. QED
  BY <1>2, <1>5 DEF next, Filled

\* A new output in the buffer of interleaved32, of which one half is given.
Refilled(obj, v) ==
    [[obj EXCEPT !.val = v, !.pos = 0, !.drawn = @ + 1] EXCEPT !.pos = @ + 1]

\* The object of interleaved32 after a refill, field by field.
LEMMA RefilledIs ==
    ASSUME NEW d, NEW x, NEW p, NEW f, NEW obj,
           obj = [drawn |-> d, val |-> x, pos |-> p, fillers |-> f], NEW v
    PROVE  Refilled(obj, v) = [drawn |-> d + 1, val |-> v, pos |-> 1, fillers |-> f]
<1>1. [obj EXCEPT !.val = v] = [drawn |-> d, val |-> v, pos |-> p, fillers |-> f]
  OBVIOUS
<1>2. [[drawn |-> d, val |-> v, pos |-> p, fillers |-> f] EXCEPT !.pos = 0] =
          [drawn |-> d, val |-> v, pos |-> 0, fillers |-> f]
  OBVIOUS
<1>3. [[drawn |-> d, val |-> v, pos |-> 0, fillers |-> f] EXCEPT !.drawn = @ + 1] =
          [drawn |-> d + 1, val |-> v, pos |-> 0, fillers |-> f]
  OBVIOUS
<1>4. [[drawn |-> d + 1, val |-> v, pos |-> 0, fillers |-> f] EXCEPT !.pos = @ + 1] =
          [drawn |-> d + 1, val |-> v, pos |-> 1, fillers |-> f]
  OBVIOUS
<1>5. [[[obj EXCEPT !.val = v] EXCEPT !.pos = 0] EXCEPT !.drawn = d + 1] =
          [drawn |-> d + 1, val |-> v, pos |-> 0, fillers |-> f]
  BY <1>1, <1>2, <1>3
<1>6. QED
  BY <1>4, <1>5 DEF Refilled

(***************************************************************************)
(* get_bits of an envelope, as a step of the closed form.                  *)
(***************************************************************************)
LEMMA GetBitsIs ==
    ASSUME NEW filter, NEW n, Parent(filter, n), NEW k \in Nat,
           NEW got, got = GetBits(filter, EnvelopeAfter(filter, n, k), n)
    PROVE  got.obj = EnvelopeAfter(filter, n, k + 1) /\ IsBits(got.out, filter, n, k + 1)
<1> DEFINE obj  == EnvelopeAfter(filter, n, k)
           u    == Output(obj.drawn, n)
           next == [obj EXCEPT !.drawn = @ + 1]
           fill == [next EXCEPT !.fillers = @ + 1]
<1>1. /\ Half \in Nat \ {0} /\ n \in Nat \ {0} /\ Half <= n /\ filter \in Filters
      /\ filter \in {"interleaved32", "high32", "low32"} => n = 2 * Half /\ NBits(filter, n) = Half
      /\ filter \in {"uint31", "uint63", "reverse-bits"} => NBits(filter, n) = n
      /\ filter = "uint31_low" => NBits(filter, n) = Half
  BY WidthsAre DEF Parent
<1>2. CASE filter = "reverse-bits"
  <2>1. obj.drawn = k /\ next = EnvelopeAfter(filter, n, k + 1)
    BY <1>2 DEF EnvelopeAfter, Fills
  <2>2. IsWord(u, n) /\ \A i \in 1 .. n : u[i] = <<k, i - 1>>
    BY <1>1, <2>1, OutputIs
  <2>3. got = [obj |-> next, out |-> Reverse(u)]
    BY <1>2 DEF GetBits
  <2> HIDE DEF obj, u, next
  <2>4. IsWord(Reverse(u), n) /\ \A i \in 1 .. n : Reverse(u)[i] = <<k, n - i>>
    <3>1. u \in Seq(Bits) /\ Len(u) = n
      BY <2>2 DEF IsWord
    <3>2. /\ Reverse(u) = [i \in 1 .. n |-> u[(n - i) + 1]]
          /\ \A i \in 1 .. n : (n - i) + 1 \in 1 .. n /\ (n - i) + 1 - 1 = n - i
      BY <1>1, <3>1 DEF Reverse
    <3>3. \A i \in 1 .. n : Reverse(u)[i] = <<k, n - i>>
      <4> SUFFICES ASSUME NEW i \in 1 .. n PROVE Reverse(u)[i] = <<k, n - i>>
        OBVIOUS
      <4>1. PICK j \in 1 .. n : j = (n - i) + 1 /\ j - 1 = n - i
        BY <1>1
      <4>2. u[j] = <<k, n - i>>
        BY <2>2, <4>1
      <4>3. QED
        BY <3>2, <4>1, <4>2
    <3>4. \A i \in 1 .. n : <<k, n - i>> \in Bits
      BY <1>1 DEF Bits
    <3>5. Reverse(u) \in [1 .. n -> Bits]
      BY <3>2, <3>3, <3>4
    <3>6. Reverse(u) \in Seq(Bits) /\ DOMAIN Reverse(u) = 1 .. n
      BY <1>1, <3>5
    <3>7. Len(Reverse(u)) = n
      BY <1>1, <3>6, LenProperties
    <3>8. QED
      BY <3>3, <3>6, <3>7 DEF IsWord
  <2>5. \A i \in 1 .. n : BitAt(filter, n, k + 1, i) = <<k, n - i>>
    BY <1>2, (k + 1) - 1 = k DEF BitAt
  <2>6. QED
    BY <1>1, <1>2, <2>1, <2>3, <2>4, <2>5 DEF IsBits
<1>3. CASE filter \in {"high32", "low32"}
  <2>1. obj.drawn = k /\ next = EnvelopeAfter(filter, n, k + 1)
    BY <1>3 DEF EnvelopeAfter, Fills
  <2>2. IsWord(u, 2 * Half) /\ \A i \in 1 .. 2 * Half : u[i] = <<k, i - 1>>
    BY <1>1, <1>3, <2>1, OutputIs
  <2>3. got = [obj |-> next, out |-> IF filter = "high32" THEN HighHalf(u) ELSE LowHalf(u)]
    BY <1>3 DEF GetBits
  <2> HIDE DEF obj, u, next
  <2>4. /\ IsWord(LowHalf(u), Half) /\ \A i \in 1 .. Half : LowHalf(u)[i] = <<k, i - 1>>
        /\ IsWord(HighHalf(u), Half) /\ \A i \in 1 .. Half : HighHalf(u)[i] = <<k, Half + i - 1>>
    BY <1>1, <2>2, HalvesAre
  <2>5. \A i \in 1 .. Half :
            BitAt(filter, n, k + 1, i) =
                IF filter = "high32" THEN <<k, Half + i - 1>> ELSE <<k, i - 1>>
    BY <1>3, (k + 1) - 1 = k DEF BitAt
  <2>6. NBits(filter, n) = Half
    BY <1>1, <1>3
  <2>7. /\ got.obj = EnvelopeAfter(filter, n, k + 1)
        /\ got.out = IF filter = "high32" THEN HighHalf(u) ELSE LowHalf(u)
    BY <2>1, <2>3
  <2>8. IsWord(got.out, Half) /\ \A i \in 1 .. Half : got.out[i] = BitAt(filter, n, k + 1, i)
    BY <2>4, <2>5, <2>7
  <2>9. QED
    BY <2>6, <2>7, <2>8 DEF IsBits
<1>4. CASE filter \in {"uint31", "uint63"}
  <2>1. obj.drawn = k + 2 /\ obj.fillers = k /\ fill = EnvelopeAfter(filter, n, k + 1)
    <3>1. Fills(filter)
      BY <1>4 DEF Fills
    <3> HIDE DEF obj
    <3>2. obj = EnvelopeAfter(filter, n, k)
      BY DEF obj
    <3>3. obj.drawn = k + 2 /\ obj.fillers = k /\ Filled(obj) = EnvelopeAfter(filter, n, k + 1)
      BY <3>1, <3>2, FillsIs
    <3>4. QED
      BY <3>3 DEF Filled
  <2>2. IsWord(u, n) /\ \A i \in 1 .. n : u[i] = <<k + 2, i - 1>>
    BY <1>1, <2>1, k + 2 \in Nat, OutputIs
  <2>3. got = [obj |-> fill, out |-> <<FillerBit(k)>> \o Tail(u)]
    BY <1>4, <2>1 DEF GetBits
  <2>4. FillerBit(k) \in Bits
    BY DEF FillerBit, FillerOf, Bits
  <2> DEFINE b   == FillerBit(k)
             out == <<b>> \o Tail(u)
  <2> HIDE DEF obj, u, next, fill, b
  <2>5. IsWord(out, n) /\ \A i \in 1 .. n : out[i] = IF i = 1 THEN b ELSE u[i]
    <3>1. IsWord(u, n) /\ b \in Bits /\ n \in Nat \ {0}
      BY <1>1, <2>2, <2>4 DEF b
    <3>2. IsReplaced(out, u, b, n)
      BY <3>1, LowestReplaced
    <3> HIDE DEF out
    <3>3. QED
      BY <3>2 DEF IsReplaced
  <2>6. \A i \in 1 .. n : BitAt(filter, n, k + 1, i) = IF i = 1 THEN b ELSE <<k + 2, i - 1>>
    BY <1>4, (k + 1) - 1 = k, (k + 1) + 1 = k + 2 DEF BitAt, b
  <2>7. got.obj = EnvelopeAfter(filter, n, k + 1) /\ got.out = out
    BY <2>1, <2>3 DEF b
  <2> HIDE DEF out
  <2>8. \A i \in 1 .. n : out[i] = BitAt(filter, n, k + 1, i)
    BY <2>2, <2>5, <2>6
  <2>9. NBits(filter, n) = n
    BY <1>1, <1>4
  <2>10. QED
    BY <2>5, <2>7, <2>8, <2>9 DEF IsBits
<1>5. CASE filter = "uint31_low"
  <2>1. obj.drawn = k + 2 /\ obj.fillers = k /\ fill = EnvelopeAfter(filter, n, k + 1)
    <3>1. Fills(filter)
      BY <1>5 DEF Fills
    <3> HIDE DEF obj
    <3>2. obj = EnvelopeAfter(filter, n, k)
      BY DEF obj
    <3>3. obj.drawn = k + 2 /\ obj.fillers = k /\ Filled(obj) = EnvelopeAfter(filter, n, k + 1)
      BY <3>1, <3>2, FillsIs
    <3>4. QED
      BY <3>3 DEF Filled
  <2>2. IsWord(u, n) /\ \A i \in 1 .. n : u[i] = <<k + 2, i - 1>>
    BY <1>1, <2>1, k + 2 \in Nat, OutputIs
  <2>3. got = [obj |-> fill, out |-> Append(Tail(LowHalf(u)), FillerBit(k))]
    BY <1>5, <2>1 DEF GetBits
  <2>4. FillerBit(k) \in Bits
    BY DEF FillerBit, FillerOf, Bits
  <2> HIDE DEF obj, u, next, fill
  <2>5. IsWord(LowHalf(u), Half) /\ \A i \in 1 .. Half : LowHalf(u)[i] = <<k + 2, i - 1>>
    BY <1>1, <2>2, LowerIs
  <2> DEFINE low == LowHalf(u)
             b   == FillerBit(k)
             out == Append(Tail(low), b)
  <2>6. /\ IsWord(out, Half)
        /\ \A i \in 1 .. Half : out[i] = IF i = Half THEN b ELSE low[i + 1]
    <3>1. IsWord(low, Half) /\ b \in Bits /\ Half \in Nat \ {0}
      BY <1>1, <2>4, <2>5
    <3> HIDE DEF low, b
    <3>2. IsMovedDown(out, low, b, Half)
      BY <3>1, MovedDown
    <3> HIDE DEF out
    <3>3. QED
      BY <3>2 DEF IsMovedDown
  <2>7. \A i \in 1 .. Half : out[i] = IF i = Half THEN b ELSE <<k + 2, i>>
    <3> SUFFICES ASSUME NEW i \in 1 .. Half, i # Half PROVE low[i + 1] = <<k + 2, i>>
      BY <2>6
    <3>1. i + 1 \in 1 .. Half /\ (i + 1) - 1 = i
      BY <1>1
    <3>2. QED
      BY <2>5, <3>1
  <2>8. \A i \in 1 .. Half : BitAt(filter, n, k + 1, i) =
                                IF i = Half THEN b ELSE <<k + 2, i>>
    BY <1>5, (k + 1) - 1 = k, (k + 1) + 1 = k + 2 DEF BitAt
  <2>9. got.obj = EnvelopeAfter(filter, n, k + 1) /\ got.out = out
    BY <2>1, <2>3
  <2>10. NBits(filter, n) = Half
    BY <1>1, <1>5
  <2> HIDE DEF out, low, b
  <2>11. \A i \in 1 .. Half : out[i] = BitAt(filter, n, k + 1, i)
    BY <2>7, <2>8
  <2>12. QED
    BY <2>6, <2>9, <2>10, <2>11 DEF IsBits
<1>6. CASE filter = "interleaved32"
  <2>1. n = 2 * Half /\ NBits(filter, n) = Half /\ got = Interleave32(obj, n)
    BY <1>1, <1>6 DEF GetBits
  <2>2. CASE k % 2 = 1
    <3>1. /\ obj.pos = 1 /\ obj.val = Output((k - 1) \div 2, n) /\ k > 0
          /\ [obj EXCEPT !.pos = @ + 1] = EnvelopeAfter(filter, n, k + 1)
          /\ obj.pos # Invalid
      <4>1. k > 0 /\ (k + 1) % 2 # 1 /\ (k + 1) + 1 > 0 /\ 1 + 1 = 2
            /\ (k + 1) \div 2 = ((k + 1) + 1) \div 2
            /\ (k - 1) \div 2 = ((k + 1) - 1) \div 2
        BY <2>2
      <4>2. obj = [drawn |-> (k + 1) \div 2, val |-> Output((k - 1) \div 2, n), pos |-> 1,
                   fillers |-> 0]
        BY <1>6, <2>2, <4>1 DEF EnvelopeAfter, Fills
      <4>3. EnvelopeAfter(filter, n, k + 1) =
                [drawn |-> (k + 1) \div 2, val |-> Output((k - 1) \div 2, n), pos |-> 2,
                 fillers |-> 0]
        BY <1>6, <4>1 DEF EnvelopeAfter, Fills, Invalid
      <4> HIDE DEF obj
      <4>4. QED
        BY <4>1, <4>2, <4>3 DEF Invalid
    <3>2. got = [obj |-> [obj EXCEPT !.pos = @ + 1], out |-> HighHalf(obj.val)]
      BY <2>1, <3>1 DEF Interleave32, Invalid
    <3>3. (k - 1) \div 2 \in Nat /\ (k - 1) \div 2 = ((k + 1) - 1) \div 2 /\ (k + 1) % 2 # 1
      BY <2>2
    <3> DEFINE v == Output((k - 1) \div 2, n)
    <3>4. IsWord(v, 2 * Half) /\ \A i \in 1 .. 2 * Half : v[i] = <<(k - 1) \div 2, i - 1>>
      BY <1>1, <2>1, <3>3, OutputIs
    <3> HIDE DEF v
    <3>5. IsWord(HighHalf(v), Half)
          /\ \A i \in 1 .. Half : HighHalf(v)[i] = <<(k - 1) \div 2, Half + i - 1>>
      BY <1>1, <3>4, HalvesAre
    <3>6. \A i \in 1 .. Half : BitAt(filter, n, k + 1, i) = <<(k - 1) \div 2, Half + i - 1>>
      BY <1>6, <3>3 DEF BitAt
    <3> HIDE DEF obj
    <3>7. QED
      BY <1>1, <2>1, <3>1, <3>2, <3>5, <3>6 DEF IsBits, v
  <2>3. CASE k % 2 # 1
    <3> DEFINE v == Output(k \div 2, n)
               o == [drawn |-> obj.drawn + 1, val |-> v, pos |-> 1, fillers |-> obj.fillers]
    <3>1. /\ obj.pos = Invalid /\ obj.drawn = k \div 2
          /\ o = EnvelopeAfter(filter, n, k + 1)
      <4>1. /\ (k + 1) \div 2 = k \div 2 /\ ((k + 1) + 1) \div 2 = k \div 2 + 1
            /\ ((k + 1) - 1) \div 2 = k \div 2 /\ (k + 1) % 2 = 1 /\ k + 1 > 0
        BY <2>3
      <4>2. obj.pos = Invalid /\ obj.drawn = k \div 2 /\ obj.fillers = 0
        BY <1>6, <2>3, <4>1 DEF EnvelopeAfter, Fills
      <4>3. EnvelopeAfter(filter, n, k + 1) =
                [drawn |-> k \div 2 + 1, val |-> v, pos |-> 1, fillers |-> 0]
        BY <1>6, <4>1 DEF EnvelopeAfter, Fills
      <4>4. QED
        BY <4>2, <4>3
    <3>2. got = [obj |-> o, out |-> LowHalf(v)]
      <4>1. got = [obj |-> [[obj EXCEPT !.val = Output(obj.drawn, n), !.pos = 0,
                                        !.drawn = @ + 1] EXCEPT !.pos = @ + 1],
                   out |-> LowHalf(v)]
        <5> HIDE DEF obj
        <5>1. QED
          BY <2>1, <3>1 DEF Interleave32
      <4>2. [[obj EXCEPT !.val = Output(obj.drawn, n), !.pos = 0, !.drawn = @ + 1]
                EXCEPT !.pos = @ + 1] = o
        <5>1. obj = [drawn |-> k \div 2, val |-> obj.val, pos |-> obj.pos, fillers |-> obj.fillers]
          BY <3>1 DEF EnvelopeAfter
        <5> HIDE DEF obj
        <5>2. Refilled(obj, v) = o /\ Output(obj.drawn, n) = v
          BY <3>1, <5>1, RefilledIs
        <5> HIDE DEF v, o
        <5>3. QED
          BY <5>2 DEF Refilled
      <4>3. QED
        BY <4>1, <4>2
    <3>3. k \div 2 \in Nat /\ ((k + 1) - 1) \div 2 = k \div 2 /\ (k + 1) % 2 = 1
      BY <2>3
    <3>4. IsWord(v, 2 * Half) /\ \A i \in 1 .. 2 * Half : v[i] = <<k \div 2, i - 1>>
      BY <1>1, <2>1, <3>3, OutputIs
    <3> HIDE DEF v
    <3>5. IsWord(LowHalf(v), Half)
          /\ \A i \in 1 .. Half : LowHalf(v)[i] = <<k \div 2, i - 1>>
      BY <1>1, <3>4, HalvesAre
    <3>6. \A i \in 1 .. Half : BitAt(filter, n, k + 1, i) = <<k \div 2, i - 1>>
      BY <1>6, <3>3 DEF BitAt
    <3> HIDE DEF obj, o
    <3>7. QED
      BY <1>1, <2>1, <3>1, <3>2, <3>5, <3>6 DEF IsBits
  <2>4. QED
    BY <2>2, <2>3
<1>7. QED
  BY <1>1, <1>2, <1>3, <1>4, <1>5, <1>6 DEF Filters

(***************************************************************************)
(* What the closed form says: no bit is given twice, later words come from *)
(* later outputs, and two filters give all bits of what they have drawn.   *)
(***************************************************************************)
LEMMA BitsDiffer ==
    ASSUME NEW filter, NEW n, Parent(filter, n), NEW k \in Nat \ {0}, NEW l \in Nat \ {0},
           NEW i \in 1 .. NBits(filter, n), NEW j \in 1 .. NBits(filter, n),
           BitAt(filter, n, k, i) = BitAt(filter, n, l, j)
    PROVE  k = l /\ i = j
<1>1. /\ Half \in Nat \ {0} /\ n \in Nat \ {0} /\ Half <= n /\ filter \in Filters
      /\ filter \in {"interleaved32", "high32", "low32"} => NBits(filter, n) = Half
      /\ filter \in {"uint31", "uint63", "reverse-bits"} => NBits(filter, n) = n
      /\ filter = "uint31_low" => NBits(filter, n) = Half
  BY WidthsAre DEF Parent
<1>2. CASE filter = "reverse-bits"
  <2>1. <<k - 1, n - i>> = <<l - 1, n - j>>
    BY <1>2 DEF BitAt
  <2>2. i \in Int /\ j \in Int
    BY <1>1, <1>2
  <2>3. QED
    BY <1>1, <2>1, <2>2
<1>3. CASE filter = "interleaved32"
  <2>1. i \in 1 .. Half /\ j \in 1 .. Half
    BY <1>1, <1>3
  <2>2. /\ (k - 1) \div 2 = (l - 1) \div 2
        /\ (IF k % 2 = 1 THEN i - 1 ELSE Half + i - 1)
             = (IF l % 2 = 1 THEN j - 1 ELSE Half + j - 1)
    BY <1>3 DEF BitAt
  <2>3. (k % 2 = 1 <=> l % 2 = 1) /\ i = j
    BY <1>1, <2>1, <2>2
  <2>4. k = l
    BY <2>2, <2>3
  <2>5. QED
    BY <2>3, <2>4
<1>4. CASE filter = "high32"
  <2>1. <<k - 1, Half + i - 1>> = <<l - 1, Half + j - 1>> /\ i \in Int /\ j \in Int
    BY <1>1, <1>4 DEF BitAt
  <2>2. QED
    BY <1>1, <2>1
<1>5. CASE filter = "low32"
  <2>1. <<k - 1, i - 1>> = <<l - 1, j - 1>> /\ i \in Int /\ j \in Int
    BY <1>1, <1>5 DEF BitAt
  <2>2. QED
    BY <1>1, <2>1
<1>6. CASE filter = "uint31_low"
  <2>1. /\ i \in 1 .. Half /\ j \in 1 .. Half
        /\ (IF i = Half THEN <<-1, k - 1>> ELSE <<k + 1, i>>)
             = (IF j = Half THEN <<-1, l - 1>> ELSE <<l + 1, j>>)
    BY <1>1, <1>6 DEF BitAt, FillerBit, FillerOf
  <2>2. k + 1 # -1 /\ l + 1 # -1
    OBVIOUS
  <2>3. CASE i = Half /\ j = Half
    BY <2>1, <2>3
  <2>4. CASE i # Half /\ j # Half
    BY <2>1, <2>4
  <2>5. CASE ~(i = Half <=> j = Half)
    BY <2>1, <2>2, <2>5
  <2>6. QED
    BY <2>3, <2>4, <2>5
<1>7. CASE filter \in {"uint31", "uint63"}
  <2>1. /\ i \in Int /\ j \in Int
        /\ (IF i = 1 THEN <<-1, k - 1>> ELSE <<k + 1, i - 1>>)
             = (IF j = 1 THEN <<-1, l - 1>> ELSE <<l + 1, j - 1>>)
    BY <1>1, <1>7 DEF BitAt, FillerBit, FillerOf
  <2>2. k + 1 # -1 /\ l + 1 # -1
    OBVIOUS
  <2>3. CASE i = 1 /\ j = 1
    BY <2>1, <2>3
  <2>4. CASE i # 1 /\ j # 1
    BY <2>1, <2>4
  <2>5. CASE ~(i = 1 <=> j = 1)
    BY <2>1, <2>2, <2>5
  <2>6. QED
    BY <2>3, <2>4, <2>5
<1>8. QED
  BY <1>1, <1>2, <1>3, <1>4, <1>5, <1>6, <1>7 DEF Filters

\* Later words have their bits from later outputs of the parent.
LEMMA SourcesInOrder ==
    ASSUME NEW filter \in Filters, NEW n, NEW k \in Nat \ {0}, NEW l \in Nat \ {0}, k <= l,
           NEW i, NEW j, BitAt(filter, n, k, i)[1] # FillerOf, BitAt(filter, n, l, j)[1] # FillerOf
    PROVE  BitAt(filter, n, k, i)[1] <= BitAt(filter, n, l, j)[1]
<1>1. CASE filter \in {"reverse-bits", "high32", "low32"}
  <2>1. BitAt(filter, n, k, i)[1] = k - 1 /\ BitAt(filter, n, l, j)[1] = l - 1
    BY <1>1 DEF BitAt
  <2>2. QED
    BY <2>1
<1>2. CASE filter = "interleaved32"
  <2>1. /\ BitAt(filter, n, k, i)[1] = (k - 1) \div 2
        /\ BitAt(filter, n, l, j)[1] = (l - 1) \div 2
    BY <1>2 DEF BitAt
  <2>2. QED
    BY <2>1
<1>3. CASE Fills(filter)
  <2>1. BitAt(filter, n, k, i)[1] = k + 1 /\ BitAt(filter, n, l, j)[1] = l + 1
    BY <1>3 DEF BitAt, Fills, FillerBit, FillerOf
  <2>2. QED
    BY <2>1
<1>4. QED
  BY <1>1, <1>2, <1>3 DEF Filters, Fills

Given(obj, n) ==
    {b \in (0 .. obj.drawn - 1) \X (0 .. n - 1) :
        obj.pos = 1 /\ b[1] = obj.drawn - 1 => b[2] < Half}

GivesAll(filter, n, m, obj) ==
    /\ \A k \in 1 .. m, i \in 1 .. NBits(filter, n) : BitAt(filter, n, k, i) \in Given(obj, n)
    /\ \A b \in Given(obj, n) :
         \E k \in 1 .. m, i \in 1 .. NBits(filter, n) : b = BitAt(filter, n, k, i)

\* The filters that rearrange hand out all bits of what they have drawn.
LEMMA NothingIsLost ==
    ASSUME NEW filter \in {"reverse-bits", "interleaved32"}, NEW n, Parent(filter, n),
           NEW m \in Nat, NEW obj, obj = EnvelopeAfter(filter, n, m)
    PROVE  GivesAll(filter, n, m, obj)
<1>1. Half \in Nat \ {0} /\ n \in Nat \ {0} /\ Half <= n
  BY WidthsAre
<1>2. CASE filter = "reverse-bits"
  <2>1. obj.drawn = m /\ obj.pos # 1 /\ NBits(filter, n) = n
    BY <1>2, WidthsAre DEF EnvelopeAfter, Fills, Invalid
  <2>2. Given(obj, n) = (0 .. m - 1) \X (0 .. n - 1)
    BY <2>1 DEF Given
  <2>3. ASSUME NEW k \in 1 .. m, NEW i \in 1 .. n PROVE BitAt(filter, n, k, i) \in Given(obj, n)
    <3>1. BitAt(filter, n, k, i) = <<k - 1, n - i>>
      BY <1>2 DEF BitAt
    <3>2. k - 1 \in 0 .. m - 1 /\ n - i \in 0 .. n - 1
      BY <1>1
    <3>3. QED
      BY <2>2, <3>1, <3>2
  <2>4. ASSUME NEW b \in Given(obj, n)
        PROVE  \E k \in 1 .. m, i \in 1 .. n : b = BitAt(filter, n, k, i)
    <3>1. PICK a \in 0 .. m - 1, c \in 0 .. n - 1 : b = <<a, c>>
      BY <2>2
    <3>2. a + 1 \in 1 .. m /\ n - c \in 1 .. n /\ (a + 1) - 1 = a /\ n - (n - c) = c
      BY <1>1
    <3>3. BitAt(filter, n, a + 1, n - c) = b
      BY <1>2, <3>1, <3>2 DEF BitAt
    <3>4. QED
      BY <3>2, <3>3
  <2>5. QED
    BY <2>1, <2>3, <2>4 DEF GivesAll
<1>3. CASE filter = "interleaved32"
  <2>1. /\ obj.drawn = (m + 1) \div 2 /\ (obj.pos = 1 <=> m % 2 = 1)
        /\ NBits(filter, n) = Half /\ n = 2 * Half
    BY <1>3, WidthsAre DEF EnvelopeAfter, Invalid
  <2>2. ASSUME NEW k \in 1 .. m, NEW i \in 1 .. Half PROVE BitAt(filter, n, k, i) \in Given(obj, n)
    <3> DEFINE a == (k - 1) \div 2
               c == IF k % 2 = 1 THEN i - 1 ELSE Half + i - 1
    <3>1. BitAt(filter, n, k, i) = <<a, c>>
      BY <1>3 DEF BitAt
    <3>2. a \in 0 .. (m + 1) \div 2 - 1 /\ c \in 0 .. n - 1
      BY <1>1, <2>1
    <3>3. m % 2 = 1 /\ a = (m + 1) \div 2 - 1 => c < Half
      <4> SUFFICES ASSUME m % 2 = 1, (k - 1) \div 2 = (m + 1) \div 2 - 1 PROVE k % 2 = 1
        BY <1>1
      <4>1. QED
        OBVIOUS
    <3> HIDE DEF a, c
    <3>4. QED
      BY <2>1, <3>1, <3>2, <3>3 DEF Given
  <2>3. ASSUME NEW b \in Given(obj, n)
        PROVE  \E k \in 1 .. m, i \in 1 .. Half : b = BitAt(filter, n, k, i)
    <3>1. PICK a \in 0 .. (m + 1) \div 2 - 1, c \in 0 .. n - 1 :
              b = <<a, c>> /\ (m % 2 = 1 /\ a = (m + 1) \div 2 - 1 => c < Half)
      BY <2>1 DEF Given
    <3>2. CASE c < Half
      <4>1. /\ 2 * a + 1 \in 1 .. m /\ c + 1 \in 1 .. Half /\ (c + 1) - 1 = c
            /\ (2 * a + 1) % 2 = 1 /\ ((2 * a + 1) - 1) \div 2 = a
        BY <1>1, <3>2
      <4>2. BitAt(filter, n, 2 * a + 1, c + 1) = b
        BY <1>3, <3>1, <4>1 DEF BitAt
      <4>3. QED
        BY <4>1, <4>2
    <3>3. CASE ~(c < Half)
      <4>1. /\ 2 * a + 2 \in 1 .. m /\ c - Half + 1 \in 1 .. Half
            /\ Half + (c - Half + 1) - 1 = c
            /\ (2 * a + 2) % 2 # 1 /\ ((2 * a + 2) - 1) \div 2 = a
        BY <1>1, <2>1, <3>1, <3>3
      <4>2. BitAt(filter, n, 2 * a + 2, c - Half + 1) = b
        BY <1>3, <3>1, <4>1 DEF BitAt
      <4>3. QED
        BY <4>1, <4>2
    <3>4. QED
      BY <3>2, <3>3
  <2>4. QED
    BY <2>1, <2>2, <2>3 DEF GivesAll
<1>4. QED
  BY <1>2, <1>3

(***************************************************************************)
(* The inductive invariant of an envelope: the closed form.                *)
(***************************************************************************)
FilterInv ==
    task = "filter" =>
        /\ Parent(input[1], input[2])
        /\ answer # Unknown =>
            /\ answer \in Seq(Seq(Bits))
            /\ work = EnvelopeAfter(input[1], input[2], Len(answer))
            /\ \A k \in 1 .. Len(answer) : IsBits(answer[k], input[1], input[2], k)

\* The invariant holds for every filter and every number of words.
LEMMA EnvelopesInvariance == TaskSpec => []FilterInv
<1>1. TaskInit => FilterInv
  <2> SUFFICES ASSUME TaskInit, task = "filter"
               PROVE  Parent(input[1], input[2]) /\ answer = Unknown
    BY DEF FilterInv
  <2>1. input \in {p \in Filters \X {Half, 2 * Half} : Suits(p[1], p[2])} /\ answer = Unknown
    BY TaskStarts
  <2>2. QED
    BY <2>1 DEF Parent
<1>2. FilterInv /\ [TaskNext]_vars => FilterInv'
  <2> SUFFICES ASSUME FilterInv, [TaskNext]_vars, task' = "filter"
               PROVE  /\ Parent(input'[1], input'[2])
                      /\ answer' # Unknown =>
                          /\ answer' \in Seq(Seq(Bits))
                          /\ work' = EnvelopeAfter(input'[1], input'[2], Len(answer'))
                          /\ \A k \in 1 .. Len(answer') :
                                IsBits(answer'[k], input'[1], input'[2], k)
    BY DEF FilterInv, Parent, EnvelopeAfter, IsBits, Suits, Fills, BitAt, IsWord
  <2>1. CASE TaskNext
    <3>1. task = "filter" /\ input' = input /\ (Envelope \/ EnvelopeGet)
      BY <2>1, StepOfTask
    <3> DEFINE filter == input[1]
               n == input[2]
    <3>2. Parent(filter, n)
      BY <3>1 DEF FilterInv
    <3>3. CASE Envelope
      <4>1. answer' = <<>> /\ work' = CreateEnveloped(filter)
        BY <3>3 DEF Envelope
      <4>2. Len(<<>>) = 0 /\ <<>> \in Seq(Seq(Bits))
        BY EmptySeq
      <4>3. work' = EnvelopeAfter(filter, n, 0)
        BY <3>2, <4>1, EnvelopeStarts DEF Parent
      <4>4. QED
        BY <3>1, <3>2, <4>1, <4>2, <4>3
    <3>4. CASE EnvelopeGet
      <4> DEFINE k == Len(answer)
                 got == GetBits(filter, work, n)
      <4>1. /\ answer # Unknown /\ answer' = Append(answer, got.out) /\ work' = got.obj
        BY <3>4 DEF EnvelopeGet
      <4>2. /\ answer \in Seq(Seq(Bits)) /\ work = EnvelopeAfter(filter, n, k)
            /\ \A j \in 1 .. k : IsBits(answer[j], filter, n, j)
        BY <3>1, <4>1 DEF FilterInv
      <4>3. k \in Nat
        BY <4>2, LenProperties
      <4> DEFINE out == got.out
      <4>4. got.obj = EnvelopeAfter(filter, n, k + 1) /\ IsBits(out, filter, n, k + 1)
        <5>1. got = GetBits(filter, EnvelopeAfter(filter, n, k), n)
          BY <4>2
        <5> HIDE DEF got, k, filter, n
        <5>2. QED
          BY <3>2, <4>3, <5>1, GetBitsIs
      <4>5. out \in Seq(Bits)
        BY <4>4 DEF IsBits, IsWord
      <4> HIDE DEF got, filter, n, out
      <4>6. /\ Append(answer, out) \in Seq(Seq(Bits)) /\ Len(Append(answer, out)) = k + 1
            /\ \A j \in 1 .. k : Append(answer, out)[j] = answer[j]
            /\ Append(answer, out)[k + 1] = out
        BY <4>2, <4>5, AppendProperties
      <4> HIDE DEF k
      <4>7. ASSUME NEW j \in 1 .. k + 1 PROVE IsBits(Append(answer, out)[j], filter, n, j)
        <5>1. CASE j = k + 1
          BY <4>4, <4>6, <5>1
        <5>2. CASE j # k + 1
          <6>1. j \in 1 .. k
            BY <4>3, <5>2
          <6>2. QED
            BY <4>2, <4>6, <6>1
        <5>3. QED
          BY <5>1, <5>2
      <4>8. answer' = Append(answer, out)
        BY <4>1 DEF out
      <4>9. QED
        BY <3>1, <3>2, <4>1, <4>4, <4>6, <4>7, <4>8 DEF filter, n
    <3>5. QED
      BY <3>1, <3>3, <3>4
  <2>2. CASE UNCHANGED vars
    BY <2>2 DEF vars, FilterInv
  <2>3. QED
    BY <2>1, <2>2
<1>3. QED
  BY <1>1, <1>2, PTL DEF TaskSpec

\* The invariant says what the filters promise.
LEMMA EnvelopesKeep == FilterInv => EnvelopesKeepBits
<1> SUFFICES ASSUME FilterInv, Done("filter") PROVE EnvelopesKeepBits
  BY DEF EnvelopesKeepBits
<1> DEFINE filter == input[1]
           n      == input[2]
           m      == Len(answer)
           width  == NBits(filter, n)
           Places == (DOMAIN answer) \X (1 .. width)
           Bit(p) == answer[p[1]][p[2]]
           Parents == {p \in Places : Bit(p)[1] # FillerOf}
<1>1. /\ Parent(filter, n) /\ answer \in Seq(Seq(Bits)) /\ work = EnvelopeAfter(filter, n, m)
      /\ \A k \in 1 .. m : IsBits(answer[k], filter, n, k)
  BY DEF FilterInv, Done
<1>2. m \in Nat /\ DOMAIN answer = 1 .. m
  BY <1>1, LenProperties
<1>3. filter \in Filters
  BY <1>1 DEF Parent
<1> HIDE DEF m, width, filter, n
<1>4. \A k \in 1 .. m : Len(answer[k]) = width
  BY <1>1 DEF IsBits, IsWord, width
<1>5. \A k \in 1 .. m, i \in 1 .. width : answer[k][i] = BitAt(filter, n, k, i)
  BY <1>1 DEF IsBits, width
<1>6. ASSUME NEW p \in Places
      PROVE  /\ p[1] \in 1 .. m /\ p[1] \in Nat \ {0} /\ p[2] \in 1 .. width
             /\ p = <<p[1], p[2]>> /\ Bit(p) = BitAt(filter, n, p[1], p[2])
  BY <1>2, <1>5
<1>7. ASSUME NEW p \in Places, NEW q \in Places, Bit(p) = Bit(q) PROVE p = q
  <2>1. p[1] = q[1] /\ p[2] = q[2]
    <3> HIDE DEF Places, Bit
    <3>1. BitAt(filter, n, p[1], p[2]) = BitAt(filter, n, q[1], q[2])
      BY <1>6, <1>7
    <3>2. QED
      BY <1>1, <1>6, <3>1, BitsDiffer DEF width
  <2>2. p = <<p[1], p[2]>> /\ q = <<q[1], q[2]>>
    OBVIOUS
  <2> HIDE DEF Places
  <2>3. QED
    BY <2>1, <2>2
<1>8. ASSUME NEW p \in Parents, NEW q \in Parents, p[1] <= q[1] PROVE Bit(p)[1] <= Bit(q)[1]
  <2>1. p \in Places /\ q \in Places /\ Bit(p)[1] # FillerOf /\ Bit(q)[1] # FillerOf
    OBVIOUS
  <2> HIDE DEF Places, Parents, Bit
  <2>2. QED
    BY <1>3, <1>6, <1>8, <2>1, SourcesInOrder
<1>9. ASSUME filter \in {"reverse-bits", "interleaved32"}
      PROVE  {Bit(p) : p \in Places} = Given(work, n)
  <2>1. /\ \A k \in 1 .. m, i \in 1 .. width : BitAt(filter, n, k, i) \in Given(work, n)
        /\ \A b \in Given(work, n) :
              \E k \in 1 .. m, i \in 1 .. width : b = BitAt(filter, n, k, i)
    <3>1. GivesAll(filter, n, m, work)
      BY <1>1, <1>2, <1>9, NothingIsLost
    <3>2. QED
      BY <3>1 DEF GivesAll, width
  <2>2. ASSUME NEW p \in Places PROVE Bit(p) \in Given(work, n)
    <3> HIDE DEF Places, Bit
    <3>1. QED
      BY <1>6, <2>1
  <2>3. ASSUME NEW b \in Given(work, n) PROVE \E p \in Places : b = Bit(p)
    <3>1. PICK k \in 1 .. m, i \in 1 .. width : b = BitAt(filter, n, k, i)
      BY <2>1
    <3>2. <<k, i>> \in Places /\ Bit(<<k, i>>) = b
      BY <1>2, <1>5, <3>1
    <3> HIDE DEF Places, Bit
    <3>3. QED
      BY <3>2
  <2> HIDE DEF Places, Bit
  <2>4. QED
    BY <2>2, <2>3
<1>10. /\ \A k \in DOMAIN answer : Len(answer[k]) = width
       /\ \A p, q \in Places : Bit(p) = Bit(q) => p = q
       /\ \A p, q \in Parents : p[1] <= q[1] => Bit(p)[1] <= Bit(q)[1]
       /\ filter \in {"reverse-bits", "interleaved32"} => {Bit(p) : p \in Places} = Given(work, n)
  <2> HIDE DEF Places, Bit, Parents
  <2>1. QED
    BY <1>2, <1>4, <1>7, <1>8, <1>9
<1>11. QED
  BY <1>10 DEF EnvelopesKeepBits, Given, width, filter, n

-----------------------------------------------------------------------------
(***************************************************************************)
(* What all objects together have delivered.  The words of one object come *)
(* one after the other from the beginning of a block, up to word w at      *)
(* most, and those of a later object from later blocks.                    *)
(***************************************************************************)
Delivers(a, w, block) ==
    a # <<>> =>
        /\ a[1] % block = 0
        /\ \A i \in 1 .. Len(a) : a[i] = a[1] + i - 1
        /\ a[Len(a)] <= w

Precedes(a, b, block) ==
    a # <<>> /\ b # <<>> => a[Len(a)] \div block < b[1] \div block

\* The inductive invariant, with the last word w of all.
ReadersInv(ans, c, w, f, len, block) ==
    /\ ans \in Seq(Seq(Nat)) /\ ans # <<>>
    /\ StdinInv(c, w, f, len, block)
    /\ f <=> ans[Len(ans)] = <<>>
    /\ ~f => w = ans[Len(ans)][Len(ans[Len(ans)])]
    /\ \A k \in 1 .. Len(ans) : Delivers(ans[k], w, block)
    /\ \A j, k \in 1 .. Len(ans) : j < k => Precedes(ans[j], ans[k], block)

\* A number before a multiple is in an earlier block.
LEMMA EarlierBlock ==
    ASSUME NEW b \in Nat \ {0}, NEW x \in Nat, NEW y \in Nat, x < y, y % b = 0
    PROVE  x \div b < y \div b
<1>1. PICK q \in Nat, r \in 0 .. b - 1 : x = q * b + r /\ x \div b = q
  BY DivModOf
<1>2. PICK p \in Nat : y = p * b /\ y \div b = p
  <2>1. PICK p \in Nat, t \in 0 .. b - 1 : y = p * b + t /\ y \div b = p /\ y % b = t
    BY DivModOf
  <2>2. QED
    BY <2>1
<1>3. q < p
  <2> SUFFICES ASSUME p <= q PROVE FALSE
    BY <1>1, <1>2
  <2>1. p * b <= q * b
    <3>1. PICK d \in Nat : q = p + d
      BY <1>1, <1>2
    <3>2. q * b = p * b + d * b /\ d * b \in Nat
      BY <3>1
    <3>3. QED
      BY <3>2
  <2>2. QED
    BY <1>1, <1>2, <2>1
<1>4. QED
  BY <1>1, <1>2, <1>3

\* A new object.
LEMMA OpenDelivers ==
    ASSUME NEW len \in Nat, NEW block \in Nat \ {0}, NEW c, NEW w, NEW f, NEW ans,
           ReadersInv(ans, c, w, f, len, block), ~c.in.exited
    PROVE  ReadersInv(Append(ans, <<>>), [c EXCEPT !.obj = Collector(block)], w, TRUE, len, block)
<1> DEFINE m == Len(ans)
           new == Append(ans, <<>>)
<1>1. ans \in Seq(Seq(Nat)) /\ m \in Nat
  BY LenProperties DEF ReadersInv
<1>2. <<>> \in Seq(Nat)
  BY EmptySeq
<1>3. /\ new \in Seq(Seq(Nat)) /\ Len(new) = m + 1 /\ new # <<>>
      /\ \A k \in 1 .. m : new[k] = ans[k]
      /\ new[m + 1] = <<>>
  <2>1. /\ new \in Seq(Seq(Nat)) /\ Len(new) = m + 1
        /\ \A k \in 1 .. m : new[k] = ans[k]
        /\ new[m + 1] = <<>>
    BY <1>1, <1>2, AppendProperties
  <2> HIDE DEF m, new
  <2>2. new # <<>>
    BY <1>1, <2>1, EmptySeq
  <2>3. QED
    BY <2>1, <2>2
<1> HIDE DEF m, new
<1>4. \A k \in 1 .. m + 1 : k \in 1 .. m \/ k = m + 1
  BY <1>1
<1>5. \A k \in 1 .. m + 1 : Delivers(new[k], w, block)
  <2> SUFFICES ASSUME NEW k \in 1 .. m + 1, new[k] # <<>> PROVE Delivers(ans[k], w, block) /\ new[k] = ans[k]
    BY DEF Delivers
  <2>1. k \in 1 .. m
    BY <1>3, <1>4
  <2>2. QED
    BY <1>3, <2>1 DEF ReadersInv, m
<1>6. ASSUME NEW j \in 1 .. m + 1, NEW k \in 1 .. m + 1, j < k, new[j] # <<>>, new[k] # <<>>
      PROVE  Precedes(new[j], new[k], block)
  <2>1. j \in 1 .. m /\ k \in 1 .. m
    BY <1>3, <1>4, <1>6
  <2>2. Precedes(ans[j], ans[k], block)
    BY <1>6, <2>1 DEF ReadersInv, m
  <2>3. QED
    BY <1>3, <2>1, <2>2
<1>7. StdinInv([c EXCEPT !.obj = Collector(block)], w, TRUE, len, block)
  BY OpenKeeps DEF ReadersInv
<1>8. \A j, k \in 1 .. m + 1 : j < k => Precedes(new[j], new[k], block)
  BY <1>6 DEF Precedes
<1>9. QED
  BY <1>3, <1>5, <1>7, <1>8 DEF ReadersInv, new

\* A word, which the last object adds to its own.
LEMMA GetDelivers ==
    ASSUME NEW len \in Nat, NEW block \in Nat \ {0}, NEW c, NEW w, NEW f, NEW ans,
           ReadersInv(ans, c, w, f, len, block), ~c.in.exited,
           NEW got, got = CollectorGet(c.obj, c.in, len, block)
    PROVE  LET c2 == [in |-> got.in, obj |-> got.obj]
           IN  IF got.in.exited THEN ReadersInv(ans, c2, w, f, len, block)
               ELSE ReadersInv([ans EXCEPT ![Len(ans)] = Append(@, got.word)], c2,
                               got.word, FALSE, len, block)
<1> DEFINE c2 == [in |-> got.in, obj |-> got.obj]
           m == Len(ans)
           x == got.word
           a == ans[m]
           b == Append(a, x)
           new == [ans EXCEPT ![m] = b]
<1>1. /\ ans \in Seq(Seq(Nat)) /\ ans # <<>> /\ StdinInv(c, w, f, len, block)
      /\ f <=> a = <<>>
      /\ ~f => w = a[Len(a)]
      /\ \A k \in 1 .. m : Delivers(ans[k], w, block)
      /\ \A j, k \in 1 .. m : j < k => Precedes(ans[j], ans[k], block)
  BY DEF ReadersInv
<1>2. CASE got.in.exited
  <2>1. StdinInv(c2, w, f, len, block)
    BY <1>1, <1>2, GetKeeps
  <2> HIDE DEF c2
  <2>2. ReadersInv(ans, c2, w, f, len, block)
    BY <1>1, <2>1 DEF ReadersInv
  <2>3. QED
    BY <1>2, <2>2 DEF c2
<1>3. CASE ~got.in.exited
  <2>1. StdinInv(c2, x, FALSE, len, block) /\ IsNext(x, w, f, c.in.read, len, block)
    BY <1>1, <1>3, GetKeeps
  <2>2. w \in Int /\ x \in Nat /\ w < x
    <3>1. w \in Int /\ x \in 0 .. len - 1
      BY <1>1, <2>1 DEF StdinInv, IsNext
    <3>2. QED
      BY <2>1, <3>1 DEF IsNext
  <2>3. m \in Nat /\ m \in 1 .. m /\ a \in Seq(Nat)
    BY <1>1, LenProperties, EmptySeq, ElementOfSeq
  <2>4. Len(a) \in Nat /\ (a # <<>> => Len(a) \in Nat \ {0})
    BY <2>3, LenProperties, EmptySeq
  <2>5. /\ b \in Seq(Nat) /\ Len(b) = Len(a) + 1 /\ b # <<>>
        /\ \A i \in 1 .. Len(a) : b[i] = a[i]
        /\ b[Len(a) + 1] = x
    BY <2>2, <2>3, AppendProperties
  <2>6. /\ new \in Seq(Seq(Nat)) /\ Len(new) = m
        /\ \A k \in 1 .. m : new[k] = IF k = m THEN b ELSE ans[k]
    BY <1>1, <2>3, <2>5, ExceptSeq
  <2> HIDE DEF c2, x, b, new
  <2>7. new # <<>> /\ new[m] = b
    BY <2>3, <2>6, EmptySeq
  <2>8. Delivers(b, x, block) /\ (a # <<>> => b[1] = a[1])
    <3>1. CASE a = <<>>
      <4>1. f /\ Len(a) = 0
        BY <1>1, <3>1, EmptySeq
      <4>2. x % block = 0
        BY <2>1, <4>1 DEF IsNext
      <4>3. Len(b) = 1 /\ b[1] = x /\ \A i \in 1 .. 1 : i = 1
        BY <2>5, <4>1
      <4>4. x = x + 1 - 1 /\ x <= x
        BY <2>2
      <4>5. QED
        BY <3>1, <4>2, <4>3, <4>4 DEF Delivers
    <3>2. CASE a # <<>>
      <4>1. ~f /\ w = a[Len(a)] /\ x = w + 1
        BY <1>1, <2>1, <3>2 DEF IsNext
      <4>2. a[1] % block = 0 /\ \A i \in 1 .. Len(a) : a[i] = a[1] + i - 1
        BY <1>1, <2>3, <3>2 DEF Delivers
      <4>3. Len(a) \in Nat \ {0} /\ 1 \in 1 .. Len(a) /\ Len(a) \in 1 .. Len(a)
        BY <2>4, <3>2
      <4>4. b[1] = a[1] /\ a[1] \in Nat
        BY <2>3, <2>5, <4>3, ElementOfSeq
      <4>5. x = a[1] + (Len(a) + 1) - 1
        <5>1. a[Len(a)] = a[1] + Len(a) - 1
          BY <4>2, <4>3
        <5>2. w = a[1] + Len(a) - 1
          BY <4>1, <5>1
        <5> HIDE DEF a
        <5>3. QED
          BY <4>1, <4>3, <4>4, <5>2
      <4>6. \A i \in 1 .. Len(a) + 1 : b[i] = b[1] + i - 1
        <5> SUFFICES ASSUME NEW i \in 1 .. Len(a) + 1 PROVE b[i] = a[1] + i - 1
          BY <4>4
        <5>1. CASE i = Len(a) + 1
          BY <2>5, <4>5, <5>1
        <5>2. CASE i # Len(a) + 1
          <6>1. i \in 1 .. Len(a)
            BY <4>3, <5>2
          <6>2. QED
            BY <2>5, <4>2, <6>1
        <5>3. QED
          BY <5>1, <5>2
      <4>7. QED
        BY <2>2, <2>5, <4>2, <4>4, <4>6 DEF Delivers
    <3>3. QED
      BY <3>1, <3>2
  <2>9. \A k \in 1 .. m : Delivers(new[k], x, block)
    <3> SUFFICES ASSUME NEW k \in 1 .. m, k # m, ans[k] # <<>> PROVE Delivers(ans[k], x, block)
      <4>1. ASSUME NEW k \in 1 .. m PROVE Delivers(new[k], x, block)
        <5>1. CASE k = m
          BY <2>6, <2>8, <5>1
        <5>2. CASE k # m /\ ans[k] # <<>>
          <6>1. Delivers(ans[k], x, block)
            BY <5>2
          <6>2. QED
            BY <2>6, <5>2, <6>1
        <5>3. CASE k # m /\ ans[k] = <<>>
          BY <2>6, <5>3 DEF Delivers
        <5>4. QED
          BY <5>1, <5>2, <5>3
      <4>2. QED
        BY <4>1
    <3>1. Delivers(ans[k], w, block)
      BY <1>1
    <3>2. ans[k] \in Seq(Nat)
      BY <1>1, ElementOfSeq
    <3>3. Len(ans[k]) \in 1 .. Len(ans[k])
      BY <3>2, EmptySeq
    <3>4. ans[k][Len(ans[k])] \in Nat
      BY <3>2, <3>3, ElementOfSeq
    <3>5. ans[k][Len(ans[k])] <= w => ans[k][Len(ans[k])] <= x
      BY <2>2, <3>4
    <3>6. QED
      BY <3>1, <3>5 DEF Delivers
  <2>10. ASSUME NEW j \in 1 .. m, NEW k \in 1 .. m, j < k, new[j] # <<>>, new[k] # <<>>
         PROVE  Precedes(new[j], new[k], block)
    <3>1. j # m /\ new[j] = ans[j]
      <4> HIDE DEF m
      <4>1. j # m
        BY <2>3, <2>10
      <4>2. QED
        BY <2>6, <4>1
    <3>2. CASE k # m
      <4>1. new[k] = ans[k]
        BY <2>6, <3>2
      <4>2. QED
        BY <1>1, <2>10, <3>1, <4>1
    <3>3. CASE k = m
      <4>1. new[k] = b
        BY <2>6, <3>3
      <4> DEFINE y == ans[j][Len(ans[j])]
      <4>2. CASE a # <<>>
        <5>1. Precedes(ans[j], a, block)
          BY <1>1, <2>3, <2>10, <3>3
        <5>2. b[1] = a[1]
          BY <2>8, <4>2
        <5>3. y \div block < b[1] \div block
          BY <2>10, <3>1, <4>2, <5>1, <5>2 DEF Precedes
        <5>4. QED
          BY <3>1, <4>1, <5>3 DEF Precedes
      <4>3. CASE a = <<>>
        <5>1. f /\ Len(a) = 0
          BY <1>1, <4>3, EmptySeq
        <5>2. x % block = 0 /\ b[1] = x
          BY <2>1, <2>5, <5>1 DEF IsNext
        <5>3. ans[j] \in Seq(Nat) /\ ans[j] # <<>> /\ Delivers(ans[j], w, block)
          BY <1>1, <2>10, <3>1, ElementOfSeq
        <5>4. y \in Nat /\ y <= w
          <6>1. Len(ans[j]) \in 1 .. Len(ans[j])
            BY <5>3, EmptySeq
          <6>2. QED
            BY <5>3, <6>1, ElementOfSeq DEF Delivers
        <5>5. y < x
          BY <2>2, <5>4
        <5> HIDE DEF y
        <5>6. y \div block < x \div block
          BY <2>2, <5>2, <5>4, <5>5, EarlierBlock
        <5>7. QED
          BY <3>1, <4>1, <5>2, <5>6 DEF Precedes, y
      <4>4. QED
        BY <4>2, <4>3
    <3>4. QED
      BY <3>2, <3>3
  <2>11. \A j, k \in 1 .. m : j < k => Precedes(new[j], new[k], block)
    BY <2>10 DEF Precedes
  <2>12. x = b[Len(b)]
    BY <2>5
  <2>13. ReadersInv(new, c2, x, FALSE, len, block)
    BY <2>1, <2>5, <2>6, <2>7, <2>9, <2>11, <2>12 DEF ReadersInv
  <2>14. QED
    BY <1>3, <2>13 DEF new, b, a, x, c2
<1>4. QED
  BY <1>2, <1>3

-----------------------------------------------------------------------------
(***************************************************************************)
(* The task of reading stdin, for any input, any size of the blocks and    *)
(* any number of objects.                                                  *)
(***************************************************************************)
ReadersAre(ans, c) ==
    \E w \in Int, f \in BOOLEAN : ReadersInv(ans, c, w, f, input[1], input[2])

StdinTaskInv ==
    task = "stdin" =>
        /\ input[1] \in Nat /\ input[2] \in Nat \ {0}
        /\ answer # Unknown => ReadersAre(answer, work)

\* The first object.
LEMMA FirstDelivers ==
    ASSUME NEW len \in Nat, NEW block \in Nat \ {0}
    PROVE  ReadersInv(<<<<>>>>, [in |-> StdinStart, obj |-> Collector(block)], -1, TRUE, len, block)
<1> DEFINE c == [in |-> StdinStart, obj |-> Collector(block)]
           ans == << <<>> >>
<1>1. StdinInv(c, -1, TRUE, len, block)
  BY 0 % block = 0 DEF StdinInv, Readers, StdinStart, Collector
<1>2. <<>> \in Seq(Nat)
  BY EmptySeq
<1>3. ans \in Seq(Seq(Nat)) /\ Len(ans) = 1 /\ ans[1] = <<>>
  BY <1>2
<1> HIDE DEF c, ans
<1>4. ans # <<>>
  <2>1. Len(<<>>) = 0
    OBVIOUS
  <2>2. Len(ans) = 1
    BY <1>3
  <2> QED
    BY <2>1, <2>2
<1>5. ans[Len(ans)] = <<>> /\ \A k \in 1 .. Len(ans) : ans[k] = <<>>
  BY <1>3
<1>6. ReadersInv(ans, c, -1, TRUE, len, block)
  BY <1>1, <1>3, <1>4, <1>5 DEF ReadersInv, Delivers, Precedes
<1>7. QED
  BY <1>6 DEF ans, c

\* A new object or a word keeps the invariant.
LEMMA StdinTaskStep ==
    ASSUME StdinTaskInv, OpenStdin \/ StdinGet
    PROVE  ReadersAre(answer', work')
<1> DEFINE len == input[1]
           block == input[2]
<1>1. /\ len \in Nat /\ block \in Nat \ {0}
      /\ answer # Unknown => ReadersAre(answer, work)
  BY DEF StdinTaskInv, OpenStdin, StdinGet
<1>2. CASE OpenStdin /\ answer = Unknown
  <2>1. work' = [in |-> StdinStart, obj |-> Collector(block)] /\ answer' = <<<<>>>>
    BY <1>2 DEF OpenStdin
  <2> HIDE DEF len, block
  <2>2. ReadersInv(answer', work', -1, TRUE, len, block)
    BY <1>1, <2>1, FirstDelivers
  <2>3. -1 \in Int /\ TRUE \in BOOLEAN
    OBVIOUS
  <2>4. QED
    BY <2>2, <2>3 DEF ReadersAre, len, block
<1>3. CASE OpenStdin /\ answer # Unknown
  <2>1. /\ work' = [work EXCEPT !.obj = Collector(block)] /\ ~work.in.exited
        /\ answer' = Append(answer, <<>>)
    BY <1>3 DEF OpenStdin
  <2>2. PICK w \in Int, f \in BOOLEAN : ReadersInv(answer, work, w, f, len, block)
    BY <1>1, <1>3 DEF ReadersAre
  <2> HIDE DEF len, block
  <2>3. ReadersInv(answer', work', w, TRUE, len, block)
    BY <1>1, <2>1, <2>2, OpenDelivers
  <2>4. TRUE \in BOOLEAN
    OBVIOUS
  <2>5. QED
    BY <2>3, <2>4 DEF ReadersAre, len, block
<1>4. CASE StdinGet
  <2>1. PICK got : got = CollectorGet(work.obj, work.in, len, block)
    OBVIOUS
  <2>2. /\ ~work.in.exited /\ answer # Unknown
        /\ work' = [in |-> got.in, obj |-> got.obj]
        /\ answer' = IF got.in.exited THEN answer
                     ELSE [answer EXCEPT ![Len(answer)] = Append(@, got.word)]
    BY <1>4, <2>1 DEF StdinGet
  <2>3. PICK w \in Int, f \in BOOLEAN : ReadersInv(answer, work, w, f, len, block)
    BY <1>1, <2>2 DEF ReadersAre
  <2> HIDE DEF len, block
  <2>4. CASE got.in.exited
    <3>1. ReadersInv(answer', work', w, f, len, block)
      BY <1>1, <2>1, <2>2, <2>3, <2>4, GetDelivers
    <3>2. QED
      BY <3>1 DEF ReadersAre, len, block
  <2>5. CASE ~got.in.exited
    <3>1. ReadersInv(answer', work', got.word, FALSE, len, block)
      BY <1>1, <2>1, <2>2, <2>3, <2>5, GetDelivers
    <3>2. got.word \in Int /\ FALSE \in BOOLEAN
      BY <3>1 DEF ReadersInv, StdinInv
    <3>3. QED
      BY <3>1, <3>2 DEF ReadersAre, len, block
  <2>6. QED
    BY <2>4, <2>5
<1>5. QED
  BY <1>2, <1>3, <1>4

\* The invariant holds whatever is read and by how many objects.
LEMMA StdinTaskInvariance == TaskSpec => []StdinTaskInv
<1>1. TaskInit => StdinTaskInv
  <2> SUFFICES ASSUME TaskInit, task = "stdin"
               PROVE  input[1] \in Nat /\ input[2] \in Nat \ {0} /\ answer = Unknown
    BY DEF StdinTaskInv
  <2>1. answer = Unknown /\ input \in (0 .. StdinWords) \X StdinBlocks
    BY TaskStarts
  <2>2. StdinWords \in Nat /\ StdinBlocks \subseteq Nat \ {0}
    BY KernelTasksAssumption
  <2>3. input[1] \in 0 .. StdinWords /\ input[2] \in StdinBlocks
    BY <2>1
  <2>4. input[2] \in Nat \ {0}
    BY <2>2, <2>3
  <2>5. input[1] \in Nat
    <3>1. \A k \in 0 .. StdinWords : k \in Nat
      BY <2>2
    <3>2. QED
      BY <2>3, <3>1
  <2>6. QED
    BY <2>1, <2>4, <2>5
<1>2. StdinTaskInv /\ [TaskNext]_vars => StdinTaskInv'
  <2> SUFFICES ASSUME StdinTaskInv, [TaskNext]_vars PROVE StdinTaskInv'
    OBVIOUS
  <2>1. CASE TaskNext
    <3>1. task' = task /\ input' = input /\ (task = "stdin" => OpenStdin \/ StdinGet)
      BY <2>1, StepOfTask
    <3>2. task = "stdin" => ReadersAre(answer', work')
      BY <3>1, StdinTaskStep
    <3>3. QED
      BY <3>1, <3>2 DEF StdinTaskInv, ReadersAre
  <2>2. CASE UNCHANGED vars
    BY <2>2 DEF vars, StdinTaskInv, ReadersAre
  <2>3. QED
    BY <2>1, <2>2
<1>3. QED
  BY <1>1, <1>2, PTL DEF TaskSpec

\* The invariant is stronger than what is promised.
LEMMA StdinTaskDelivers == StdinTaskInv => StdinInOrder
<1> SUFFICES ASSUME StdinTaskInv, Done("stdin") PROVE StdinInOrder
  BY DEF StdinInOrder
<1> DEFINE len == input[1]
           block == input[2]
<1>1. len \in Nat /\ block \in Nat \ {0} /\ ReadersAre(answer, work)
  BY DEF StdinTaskInv, Done
<1>2. PICK w \in Int, f \in BOOLEAN : ReadersInv(answer, work, w, f, len, block)
  BY <1>1 DEF ReadersAre
<1>3. answer \in Seq(Seq(Nat)) /\ DOMAIN answer = 1 .. Len(answer)
  BY <1>2, LenProperties DEF ReadersInv
<1>4. /\ work.in.total = work.in.read /\ work.in.total <= len
      /\ work.in.exited => work.in.total = len
      /\ work.in.read \in Nat /\ w < work.in.read
  BY <1>2 DEF ReadersInv, StdinInv, Readers
<1>5. w < len
  BY <1>1, <1>4
<1>6. ASSUME NEW k \in DOMAIN answer, answer[k] # <<>>
      PROVE  /\ answer[k][1] % block = 0
             /\ \A i \in DOMAIN answer[k] : answer[k][i] = answer[k][1] + i - 1
             /\ answer[k][Len(answer[k])] < len
  <2> DEFINE a == answer[k]
  <2>1. a \in Seq(Nat) /\ a # <<>>
    BY <1>3, <1>6, ElementOfSeq
  <2>2. /\ a[1] % block = 0
        /\ \A i \in 1 .. Len(a) : a[i] = a[1] + i - 1
        /\ a[Len(a)] <= w
    BY <1>2, <1>3, <1>6 DEF ReadersInv, Delivers
  <2>3. DOMAIN a = 1 .. Len(a) /\ Len(a) \in 1 .. Len(a)
    BY <2>1, LenProperties, EmptySeq
  <2>4. a[Len(a)] \in Nat
    BY <2>1, <2>3, ElementOfSeq
  <2> HIDE DEF a
  <2>5. a[Len(a)] < len
    BY <1>1, <1>5, <2>2, <2>4
  <2>6. QED
    BY <2>2, <2>3, <2>5 DEF a
<1>7. ASSUME NEW j \in DOMAIN answer, NEW k \in DOMAIN answer, j < k,
             answer[j] # <<>>, answer[k] # <<>>
      PROVE  answer[j][Len(answer[j])] \div block < answer[k][1] \div block
  BY <1>2, <1>3, <1>7 DEF ReadersInv, Precedes
<1>8. QED
  BY <1>4, <1>6, <1>7 DEF StdinInOrder

(***************************************************************************)
(* Envelopes and the reader of stdin pass the words on whole, once and in  *)
(* order, for words of any width, inputs and blocks of any length, any     *)
(* number of words drawn and of objects that read.                         *)
(***************************************************************************)
THEOREM WordsDelivered == TaskSpec => []WordsAreDelivered
<1>1. FilterInv /\ StdinTaskInv => WordsAreDelivered
  BY EnvelopesKeep, StdinTaskDelivers DEF WordsAreDelivered
<1>2. QED
  BY <1>1, EnvelopesInvariance, StdinTaskInvariance, PTL

-----------------------------------------------------------------------------
(***************************************************************************)
(* The kinds of plugins that the proofs are about: what create and         *)
(* get_bits of the plugins in the list have in common.                     *)
(***************************************************************************)
Sound(p) ==
    /\ p.words \in Nat \ {0} /\ p.copies \in Nat \ {0} /\ p.warm \in Nat
    /\ CtrRange % p.copies = 0
    /\ p.carry \in {"own", "first", "none"} /\ p.order \in {"blocks", "words", "down"}
    /\ {p.made, p.incFirst, p.eager, p.apart} \subseteq BOOLEAN
    /\ p.apart => p.carry = "none"
    /\ p.eager => p.made /\ p.incFirst
    /\ p.order = "down" => p.copies = 1
    /\ p.warm % Size(p) = 0
    /\ p.warm > 0 => ~p.made /\ ~p.incFirst
    /\ p.places = {}

-----------------------------------------------------------------------------
(***************************************************************************)
(* Counters.                                                               *)
(***************************************************************************)
Counters(p, c) == [j \in Lanes(p) |-> CounterAt(p, c, j)]

\* The number of a block in the rounds of a counter of R values, if n copies
\* share a round: the next batch is in the same round, or begins the next.
RoundAt(R, n, c, e, g) ==
    /\ g * n + n <= R
    /\ \A j \in 0 .. n - 1 :
        /\ (c * n + j) % R = g * n + j /\ (c * n + j) \div R = e
        /\ IF g * n + n = R
           THEN ((c + 1) * n + j) % R = j /\ ((c + 1) * n + j) \div R = e + 1
           ELSE /\ ((c + 1) * n + j) % R = g * n + n + j
                /\ ((c + 1) * n + j) \div R = e

\* Every batch has such a round.
LEMMA RoundOf ==
    ASSUME NEW R \in Nat \ {0}, NEW n \in Nat \ {0}, R % n = 0, NEW c \in Nat
    PROVE  \E e \in Nat, g \in Nat : RoundAt(R, n, c, e, g)
<1>1. PICK d \in Nat \ {0} : R = d * n
  <2>1. PICK d \in Nat, r \in 0 .. n - 1 : R = d * n + r /\ R % n = r
    BY DivModOf
  <2>2. R = d * n /\ d # 0
    BY <2>1
  <2>3. QED
    BY <2>2
<1>2. PICK e \in Nat, g \in 0 .. d - 1 : c = e * d + g
  <2>1. Splits(c, d)
    BY DivModSplits
  <2>2. QED
    BY <2>1 DEF Splits
<1>3. g \in Nat /\ c * n = e * R + g * n
  <2>1. (e * d + g) * n = (e * d) * n + g * n
    BY <1>2
  <2>2. (e * d) * n = e * (d * n)
    BY <1>2
  <2>3. QED
    BY <1>1, <1>2, <2>1, <2>2
<1>4. g * n + n <= R /\ (g * n + n = R <=> g = d - 1)
  <2>1. PICK k \in Nat : d = g + 1 + k
    BY <1>2
  <2>2. d * n = g * n + n + k * n /\ k * n \in Nat /\ g * n \in Nat
    BY <1>2, <2>1
  <2>3. k = 0 <=> k * n = 0
    BY <2>1
  <2>4. k = 0 <=> g = d - 1
    BY <1>2, <2>1
  <2>5. QED
    BY <1>1, <2>2, <2>3, <2>4
<1>5. g * n \in Nat /\ e * R \in Nat /\ (c + 1) * n = e * R + g * n + n
  BY <1>2, <1>3
<1>6. ASSUME NEW j \in 0 .. n - 1
      PROVE  /\ (c * n + j) % R = g * n + j /\ (c * n + j) \div R = e
             /\ IF g * n + n = R
                THEN ((c + 1) * n + j) % R = j /\ ((c + 1) * n + j) \div R = e + 1
                ELSE /\ ((c + 1) * n + j) % R = g * n + n + j
                     /\ ((c + 1) * n + j) \div R = e
  <2> DEFINE a == g * n
             b == e * R
  <2>1. a \in Nat /\ b \in Nat /\ c * n = b + a /\ (c + 1) * n = b + a + n /\ a + n <= R
    BY <1>3, <1>4, <1>5
  <2>2. c * n + j = b + (a + j) /\ a + j \in 0 .. R - 1
    <3> HIDE DEF a, b
    <3>1. QED
      BY <2>1
  <2>3. (c * n + j) % R = a + j /\ (c * n + j) \div R = e
    <3>1. e \in Nat /\ R \in Nat \ {0} /\ c * n + j = e * R + (a + j)
      BY <1>2, <2>2
    <3> HIDE DEF a, b
    <3>2. Leaves(c * n + j, R, e, a + j)
      BY <2>1, <2>2, <3>1, DivModSum
    <3>3. QED
      BY <3>2 DEF Leaves
  <2>4. CASE a + n = R
    <3>1. (e + 1) * R = b + R
      OBVIOUS
    <3>2. (c + 1) * n + j = (e + 1) * R + j /\ j \in 0 .. R - 1
      <4> HIDE DEF a, b
      <4>1. QED
        BY <2>1, <2>4, <3>1
    <3>3. ((c + 1) * n + j) % R = j /\ ((c + 1) * n + j) \div R = e + 1
      BY <3>2, DivModIs
    <3>4. QED
      BY <2>3, <2>4, <3>3
  <2>5. CASE a + n # R
    <3>1. a + n + n <= R
      <4>1. PICK k \in Nat : d = g + 2 + k
        BY <1>2, <1>4, <2>5
      <4>2. d * n = g * n + n + n + k * n /\ k * n \in Nat
        BY <1>2, <4>1
      <4>3. QED
        BY <1>1, <2>1, <4>2
    <3>2. (c + 1) * n + j = b + (a + n + j) /\ a + n + j \in 0 .. R - 1
      <4> HIDE DEF a, b
      <4>1. QED
        BY <2>1, <3>1
    <3>3. ((c + 1) * n + j) % R = a + n + j /\ ((c + 1) * n + j) \div R = e
      <4>1. e \in Nat /\ R \in Nat \ {0} /\ (c + 1) * n + j = e * R + (a + n + j)
        BY <1>2, <3>2
      <4> HIDE DEF a, b
      <4>2. Leaves((c + 1) * n + j, R, e, a + n + j)
        BY <2>1, <3>2, <4>1, DivModSum
      <4>3. QED
        BY <4>2 DEF Leaves
    <3>4. QED
      BY <2>3, <2>5, <3>3
  <2>6. QED
    BY <2>4, <2>5
<1>7. RoundAt(R, n, c, e, g)
  BY <1>4, <1>6 DEF RoundAt
<1>8. QED
  BY <1>3, <1>7

\* Counters are stepped to those of the next batch, whoever carries.
LEMMA CountersNext ==
    ASSUME NEW p, Sound(p), NEW c \in Nat, NEW obj, obj.ctr = Counters(p, c)
    PROVE  IncCounter(p, obj) = [obj EXCEPT !.ctr = Counters(p, c + 1)]
<1> DEFINE R == CtrRange
           n == p.copies
           low(j) == (obj.ctr[j][1] + Stride(p)) % CtrRange
           Carries(j) == CASE p.carry = "own"   -> low(j) < Stride(p)
                           [] p.carry = "first" -> low(0) = 0
                           [] p.carry = "none"  -> FALSE
           next(j) == <<low(j), IF Carries(j) THEN (obj.ctr[j][2] + 1) % CtrRange
                                ELSE obj.ctr[j][2]>>
<1>1. R \in Nat \ {0} /\ n \in Nat \ {0} /\ R % n = 0 /\ 0 \in Lanes(p)
  BY BlockPluginsAssumption DEF Sound, Lanes
<1>2. \A j \in Lanes(p) : obj.ctr[j] = CounterAt(p, c, j) /\ j \in 0 .. n - 1
  BY DEF Counters, Lanes
<1>3. CASE p.apart
  <2>1. p.carry = "none" /\ Stride(p) = 1
    BY <1>3 DEF Sound, Stride
  <2>2. ASSUME NEW j \in Lanes(p) PROVE next(j) = CounterAt(p, c + 1, j)
    <3>1. obj.ctr[j] = <<c % R, j>>
      BY <1>2, <1>3 DEF CounterAt
    <3>2. ((c % R) + 1) % R = (c + 1) % R
      <4> HIDE DEF R
      <4>1. QED
        BY <1>1, NextOfMod
    <3>3. low(j) = (c + 1) % R /\ ~Carries(j)
      BY <2>1, <3>1, <3>2
    <3>4. QED
      BY <1>3, <3>1, <3>3 DEF CounterAt
  <2>3. [j \in Lanes(p) |-> next(j)] = Counters(p, c + 1)
    BY <2>2 DEF Counters
  <2>4. QED
    BY <2>3 DEF IncCounter
<1>4. CASE ~p.apart
  <2>1. PICK e \in Nat, g \in Nat : RoundAt(R, n, c, e, g)
    BY <1>1, RoundOf
  <2> DEFINE hi(x) == IF p.carry = "none" THEN 0 ELSE x % R
             a == g * n
             last == a + n = R
  <2>2. /\ Stride(p) = n /\ a \in Nat /\ a + n <= R
        /\ \A j \in 0 .. n - 1 :
            /\ (c * n + j) % R = a + j /\ (c * n + j) \div R = e
            /\ IF last
               THEN ((c + 1) * n + j) % R = j /\ ((c + 1) * n + j) \div R = e + 1
               ELSE ((c + 1) * n + j) % R = a + n + j /\ ((c + 1) * n + j) \div R = e
    BY <1>1, <1>4, <2>1 DEF RoundAt, Stride
  <2>3. \A j \in Lanes(p) : obj.ctr[j] = <<a + j, hi(e)>>
    BY <1>2, <1>4, <2>2 DEF CounterAt
  <2>4. \A j \in Lanes(p) : CounterAt(p, c + 1, j) =
            IF last THEN <<j, hi(e + 1)>> ELSE <<a + n + j, hi(e)>>
    BY <1>2, <1>4, <2>2 DEF CounterAt
  <2>5. ASSUME NEW j \in Lanes(p)
        PROVE  low(j) = IF last THEN j ELSE a + n + j
    <3>1. obj.ctr[j][1] = a + j /\ Stride(p) = n /\ j \in 0 .. n - 1
      BY <1>2, <2>2, <2>3
    <3>2. low(j) = (a + j + n) % R
      BY <3>1
    <3>3. (a + j + n) % R = IF last THEN j ELSE a + n + j
      <4> HIDE DEF a, R, n
      <4>1. CASE a + n = R
        <5>1. a + j + n = 1 * R + j /\ j \in 0 .. R - 1
          BY <1>1, <2>2, <3>1, <4>1
        <5>2. 1 \in Nat
          OBVIOUS
        <5>3. Leaves(a + j + n, R, 1, j)
          BY <1>1, <5>1, <5>2, DivModSum
        <5>4. QED
          BY <4>1, <5>3 DEF Leaves
      <4>2. CASE a + n # R
        <5>1. ((c + 1) * n + j) % R = a + n + j /\ (c + 1) * n + j \in Nat
          BY <1>1, <2>2, <3>1, <4>2
        <5>2. a + n + j \in 0 .. R - 1
          BY <1>1, <5>1
        <5>3. a + j + n = a + n + j
          BY <1>1, <2>2, <3>1
        <5>4. QED
          BY <1>1, <4>2, <5>2, <5>3, DivModSmall
      <4>3. QED
        BY <4>1, <4>2
    <3>4. QED
      BY <3>2, <3>3
  <2>6. hi(e) \in Nat /\ (p.carry # "none" => (hi(e) + 1) % R = hi(e + 1))
    <3> HIDE DEF R
    <3>1. e % R \in Nat /\ ((e % R) + 1) % R = (e + 1) % R
      BY <1>1, NextOfMod
    <3>2. QED
      BY <3>1
  <2>7. ASSUME NEW j \in Lanes(p) PROVE Carries(j) <=> last /\ p.carry # "none"
    <3>1. j \in 0 .. n - 1
      BY <1>2
    <3>2. low(j) < n <=> last
      <4> HIDE DEF a, n, R, low
      <4>1. QED
        BY <1>1, <2>2, <2>5, <3>1
    <3>3. low(0) = 0 <=> last
      <4> HIDE DEF a, n, R, low
      <4>1. QED
        BY <1>1, <2>2, <2>5
    <3>4. Stride(p) = n /\ p.carry \in {"own", "first", "none"}
      BY <2>2 DEF Sound
    <3>5. QED
      BY <3>2, <3>3, <3>4
  <2>8. ASSUME NEW j \in Lanes(p) PROVE next(j) = CounterAt(p, c + 1, j)
    <3> HIDE DEF a, low, Carries
    <3>1. obj.ctr[j][2] = hi(e)
      BY <2>3
    <3>2. CASE last /\ p.carry # "none"
      BY <2>4, <2>5, <2>6, <2>7, <3>1, <3>2
    <3>3. CASE ~last
      BY <2>4, <2>5, <2>7, <3>1, <3>3
    <3>4. CASE last /\ p.carry = "none"
      BY <2>4, <2>5, <2>7, <3>1, <3>4
    <3>5. QED
      BY <3>2, <3>3, <3>4
  <2>9. [j \in Lanes(p) |-> next(j)] = Counters(p, c + 1)
    BY <2>8 DEF Counters
  <2>10. QED
    BY <2>9 DEF IncCounter
<1>5. QED
  BY <1>3, <1>4

\* The counters of a new object.
LEMMA CountersStart ==
    ASSUME NEW p, Sound(p)
    PROVE  [j \in Lanes(p) |-> IF p.apart THEN <<0, j>> ELSE <<j % CtrRange, j \div CtrRange>>]
             = Counters(p, 0)
<1> DEFINE R == CtrRange
           n == p.copies
<1>1. R \in Nat \ {0} /\ n \in Nat \ {0} /\ R % n = 0
  BY BlockPluginsAssumption DEF Sound
<1>2. ASSUME NEW j \in Lanes(p)
      PROVE  CounterAt(p, 0, j) = IF p.apart THEN <<0, j>> ELSE <<j % R, j \div R>>
  <2>1. j \in 0 .. n - 1 /\ 0 * n + j = j
    BY <1>1 DEF Lanes
  <2>2. 0 % R = 0 /\ 0 \div R = 0 /\ j \div R = 0
    <3> HIDE DEF n, R
    <3>1. n <= R
      <4>1. PICK q \in Nat : R = q * n
        <5>1. PICK q \in Nat, r \in 0 .. n - 1 : R = q * n + r /\ R % n = r
          BY <1>1, DivModOf
        <5>2. QED
          BY <1>1, <5>1
      <4>2. q # 0
        BY <1>1, <4>1
      <4>3. PICK k \in Nat : q = k + 1
        BY <4>2
      <4>4. q * n = k * n + n /\ k * n \in Nat
        BY <1>1, <4>3
      <4>5. QED
        BY <1>1, <4>1, <4>4
    <3>2. j \in 0 .. R - 1 /\ 0 \in 0 .. R - 1
      BY <1>1, <2>1, <3>1
    <3>3. QED
      BY <1>1, <3>2, DivModSmall
  <2>3. QED
    BY <2>1, <2>2 DEF CounterAt
<1>3. QED
  BY <1>2 DEF Counters

-----------------------------------------------------------------------------
(***************************************************************************)
(* The object after t outputs: r batches have been made since the first,   *)
(* or the first too if create does not make it; the position follows from  *)
(* t, and the buffer has the last batch.                                   *)
(***************************************************************************)
IsObject(obj) ==
    obj = [ctr |-> obj.ctr, out |-> obj.out, pos |-> obj.pos, clean |-> obj.clean]

InBuffer(p, r) == IF p.incFirst \/ r = 0 THEN r ELSE r - 1

Made(p, obj, t, r) ==
    /\ IsObject(obj) /\ r \in Nat
    /\ obj.ctr = Counters(p, r)
    /\ t + (IF p.made THEN 0 ELSE Size(p)) = r * Size(p) + obj.pos

\* There is a word at the position.
Ready(p, obj, t, r) ==
    /\ Made(p, obj, t, r)
    /\ obj.pos \in 0 .. Size(p) - 1
    /\ obj.out = Counters(p, InBuffer(p, r))

\* The inductive invariant.
After(p, obj, t) ==
    \E r \in Nat : \/ Ready(p, obj, t, r)
                   \/ Made(p, obj, t, r) /\ obj.pos = Size(p) /\ ~p.eager

\* The output with the index t.
BatchOf(p, t) ==
    LET k == t \div Size(p)
    IN  IF p.incFirst /\ ~p.made THEN k + 1
        ELSE IF p.made /\ ~p.incFirst /\ k > 0 THEN k - 1 ELSE k

OutAt(p, t) ==
    LET q == t % Size(p)
    IN  <<CounterAt(p, BatchOf(p, t), CopyAt(p, q)), WordIn(p, q)>>

\* Every place of the buffer belongs to one of the copies.
LEMMA SizeIs ==
    ASSUME NEW p, Sound(p)
    PROVE  Size(p) \in Nat \ {0} /\ \A q \in 0 .. Size(p) - 1 : CopyAt(p, q) \in Lanes(p)
<1> DEFINE w == p.words
           n == p.copies
<1>1. w \in Nat \ {0} /\ n \in Nat \ {0} /\ Size(p) = w * n
  BY DEF Sound, Size
<1> HIDE DEF w, n
<1>2. w * n \in Nat \ {0}
  BY <1>1
<1>3. ASSUME NEW q \in 0 .. w * n - 1 PROVE q % n \in 0 .. n - 1 /\ q \div w \in 0 .. n - 1
  <2>1. q \in Nat
    BY <1>2
  <2>2. q % n \in 0 .. n - 1
    BY <1>1, <2>1
  <2>3. PICK k \in Nat, r \in 0 .. w - 1 : q = k * w + r /\ q \div w = k
    <3>1. Splits(q, w)
      BY <1>1, <2>1, DivModSplits
    <3>2. QED
      BY <3>1 DEF Splits, Leaves
  <2>4. k <= n - 1
    <3> SUFFICES ASSUME k > n - 1 PROVE FALSE
      BY <1>1, <2>3
    <3>1. PICK d \in Nat : k = n + d
      BY <1>1, <2>3
    <3>2. k * w = w * n + d * w /\ d * w \in Nat
      BY <1>1, <3>1
    <3>3. QED
      BY <1>2, <2>3, <3>2
  <2>5. QED
    BY <1>1, <2>2, <2>3, <2>4
<1>4. QED
  BY <1>1, <1>2, <1>3 DEF CopyAt, Lanes, w, n

\* Batch and place of an output from its index.
Located(t, S, made, r, pos) ==
    /\ t % S = pos
    /\ IF made THEN t \div S = r ELSE r > 0 /\ t \div S = r - 1

\* The position in the buffer follows from the index.
LEMMA IndexIs ==
    ASSUME NEW S \in Nat \ {0}, NEW t \in Nat, NEW r \in Nat, NEW pos \in 0 .. S - 1,
           NEW made \in BOOLEAN, t + (IF made THEN 0 ELSE S) = r * S + pos
    PROVE  Located(t, S, made, r, pos)
<1>1. CASE made
  <2>1. t = r * S + pos
    BY <1>1
  <2>2. Leaves(t, S, r, pos)
    BY <2>1, DivModSum
  <2>3. QED
    BY <1>1, <2>2 DEF Leaves, Located
<1>2. CASE ~made
  <2>1. t + S = r * S + pos
    BY <1>2
  <2>2. r # 0
    <3> SUFFICES ASSUME r = 0 PROVE FALSE
      OBVIOUS
    <3>1. r * S = 0
      OBVIOUS
    <3>2. QED
      BY <2>1, <3>1
  <2>3. PICK k \in Nat : r = k + 1
    BY <2>2
  <2>4. r * S = k * S + S /\ k * S \in Nat
    BY <2>3
  <2>5. t = k * S + pos
    BY <2>1, <2>4
  <2>6. Leaves(t, S, k, pos)
    BY <2>5, DivModSum
  <2>7. QED
    BY <1>2, <2>3, <2>6 DEF Leaves, Located
<1>3. QED
  BY <1>1, <1>2

\* A word that is taken.
LEMMA TakeGives ==
    ASSUME NEW p, Sound(p), NEW t \in Nat, NEW obj, NEW r, Ready(p, obj, t, r)
    PROVE  /\ Take(p, obj).out = OutAt(p, t)
           /\ Made(p, Take(p, obj).obj, t + 1, r)
           /\ Take(p, obj).obj.pos = obj.pos + 1
           /\ Take(p, obj).obj.out = Counters(p, InBuffer(p, r))
<1> DEFINE S == Size(p)
           pos == obj.pos
           read == pos < S /\ CopyAt(p, pos) \in DOMAIN obj.out
           took == [ctr |-> obj.ctr, out |-> obj.out, pos |-> pos + 1,
                    clean |-> obj.clean /\ read]
<1>1. /\ S \in Nat \ {0} /\ pos \in 0 .. S - 1 /\ r \in Nat /\ p.made \in BOOLEAN
      /\ t + (IF p.made THEN 0 ELSE S) = r * S + pos
      /\ obj.out = Counters(p, InBuffer(p, r)) /\ obj.ctr = Counters(p, r)
  BY SizeIs DEF Ready, Made, Sound
<1>2. CopyAt(p, pos) \in Lanes(p)
  BY <1>1, SizeIs
<1>3. read /\ obj.out[CopyAt(p, pos)] = CounterAt(p, InBuffer(p, r), CopyAt(p, pos))
  BY <1>1, <1>2 DEF Counters
<1>4. Take(p, obj).out = <<CounterAt(p, InBuffer(p, r), CopyAt(p, pos)), WordIn(p, pos)>>
  BY <1>3 DEF Take
<1>5. Take(p, obj).obj = took
  <2>1. obj = [ctr |-> obj.ctr, out |-> obj.out, pos |-> pos, clean |-> obj.clean]
    BY DEF Ready, Made, IsObject
  <2>2. [obj EXCEPT !.pos = @ + 1] =
            [ctr |-> obj.ctr, out |-> obj.out, pos |-> pos + 1, clean |-> obj.clean]
    BY <2>1
  <2>3. PICK moved : moved = [obj EXCEPT !.pos = @ + 1]
    OBVIOUS
  <2>4. Take(p, obj).obj = [moved EXCEPT !.clean = @ /\ read]
    BY <2>3 DEF Take
  <2>5. moved = [ctr |-> obj.ctr, out |-> obj.out, pos |-> pos + 1, clean |-> obj.clean]
    BY <2>2, <2>3
  <2>6. [moved EXCEPT !.clean = @ /\ read] = took
    BY <2>5
  <2>7. QED
    BY <2>4, <2>6
<1>6. t % S = pos /\ IF p.made THEN t \div S = r ELSE r > 0 /\ t \div S = r - 1
  <2> HIDE DEF S, pos
  <2>1. Located(t, S, p.made, r, pos)
    BY <1>1, IndexIs
  <2>2. QED
    BY <2>1 DEF Located
<1>7. BatchOf(p, t) = InBuffer(p, r)
  <2>1. p.incFirst \in BOOLEAN /\ p.made \in BOOLEAN
    BY DEF Sound
  <2> HIDE DEF S
  <2>2. QED
    BY <1>1, <1>6, <2>1 DEF BatchOf, InBuffer, S
<1>8. Take(p, obj).out = OutAt(p, t)
  BY <1>4, <1>6, <1>7 DEF OutAt
<1>9. t + 1 + (IF p.made THEN 0 ELSE S) = r * S + (pos + 1)
  <2> HIDE DEF S, pos
  <2>1. PICK h \in Nat, m \in Nat : h = (IF p.made THEN 0 ELSE S) /\ m = r * S
    BY <1>1
  <2>2. t + h = m + pos
    BY <1>1, <2>1
  <2>3. t + 1 + h = m + (pos + 1)
    BY <1>1, <2>2
  <2>4. QED
    BY <2>1, <2>3
<1>10. Made(p, took, t + 1, r)
  BY <1>1, <1>9 DEF Made, IsObject
<1>11. QED
  BY <1>1, <1>5, <1>8, <1>10

\* New blocks.
LEMMA MakeBlocksIs ==
    ASSUME NEW p, NEW o, NEW c, NEW u, NEW k, NEW x,
           o = [ctr |-> c, out |-> u, pos |-> k, clean |-> x]
    PROVE  MakeBlocks(p, o) = [ctr |-> c, out |-> c, pos |-> 0, clean |-> x /\ p.known]
<1>1. PICK copied : copied = [o EXCEPT !.out = o.ctr]
  OBVIOUS
<1>2. copied = [ctr |-> c, out |-> c, pos |-> k, clean |-> x]
  BY <1>1
<1>3. PICK moved : moved = [copied EXCEPT !.pos = 0]
  OBVIOUS
<1>4. moved = [ctr |-> c, out |-> c, pos |-> 0, clean |-> x]
  BY <1>2, <1>3
<1>5. MakeBlocks(p, o) = [moved EXCEPT !.clean = @ /\ p.known]
  BY <1>1, <1>3 DEF MakeBlocks
<1>6. QED
  BY <1>4, <1>5

\* The counters go to the next batch at the same time.
LEMMA RefillReady ==
    ASSUME NEW p, Sound(p), NEW t \in Nat, NEW obj, NEW r, Made(p, obj, t, r),
           obj.pos = Size(p)
    PROVE  Ready(p, RefillBuffer(p, obj), t, r + 1)
<1> DEFINE S == Size(p)
           b == IF p.incFirst THEN r + 1 ELSE r
           new == [ctr |-> Counters(p, r + 1), out |-> Counters(p, b), pos |-> 0,
                   clean |-> obj.clean /\ p.known]
<1>1. /\ S \in Nat \ {0} /\ r \in Nat /\ obj.ctr = Counters(p, r)
      /\ t + (IF p.made THEN 0 ELSE S) = r * S + S
      /\ obj = [ctr |-> obj.ctr, out |-> obj.out, pos |-> obj.pos, clean |-> obj.clean]
      /\ p.incFirst \in BOOLEAN
  BY SizeIs DEF Made, IsObject, Sound
<1>2. \A o, c, u, k, x : o = [ctr |-> c, out |-> u, pos |-> k, clean |-> x] =>
          MakeBlocks(p, o) = [ctr |-> c, out |-> c, pos |-> 0, clean |-> x /\ p.known]
  BY MakeBlocksIs
<1>3. ASSUME p.incFirst PROVE RefillBuffer(p, obj) = new
  <2>1. IncCounter(p, obj) = [obj EXCEPT !.ctr = Counters(p, r + 1)]
    BY <1>1, CountersNext
  <2>2. IncCounter(p, obj) = [ctr |-> Counters(p, r + 1), out |-> obj.out,
                              pos |-> obj.pos, clean |-> obj.clean]
    BY <1>1, <2>1
  <2>3. MakeBlocks(p, IncCounter(p, obj)) = new
    BY <1>2, <1>3, <2>2
  <2>4. QED
    BY <1>3, <2>3 DEF RefillBuffer
<1>4. ASSUME ~p.incFirst PROVE RefillBuffer(p, obj) = new
  <2> DEFINE o == [ctr |-> Counters(p, r), out |-> Counters(p, r), pos |-> 0,
                   clean |-> obj.clean /\ p.known]
  <2>1. MakeBlocks(p, obj) = o
    BY <1>1, <1>2
  <2>2. o.ctr = Counters(p, r)
    OBVIOUS
  <2>3. [o EXCEPT !.ctr = Counters(p, r + 1)] = new
    BY <1>4
  <2> HIDE DEF o
  <2>4. IncCounter(p, o) = [o EXCEPT !.ctr = Counters(p, r + 1)]
    BY <1>1, <2>2, CountersNext
  <2>5. QED
    BY <1>4, <2>1, <2>3, <2>4 DEF RefillBuffer
<1>5. RefillBuffer(p, obj) = new
  BY <1>3, <1>4
<1>6. b = InBuffer(p, r + 1) /\ r + 1 \in Nat
  BY <1>1 DEF InBuffer
<1>7. t + (IF p.made THEN 0 ELSE S) = (r + 1) * S + 0
  <2> HIDE DEF S
  <2>1. (r + 1) * S = r * S + S /\ r * S \in Nat
    BY <1>1
  <2>2. QED
    BY <1>1, <2>1
<1>8. new.pos \in 0 .. S - 1
  BY <1>1
<1>9. Ready(p, new, t, r + 1)
  BY <1>6, <1>7, <1>8 DEF Ready, Made, IsObject
<1>10. QED
  BY <1>5, <1>9

\* get_bits: the output has the place in the order that its index says.
LEMMA NextGives ==
    ASSUME NEW p, Sound(p), NEW t \in Nat, NEW obj, After(p, obj, t)
    PROVE  /\ NextWord(p, obj).out = OutAt(p, t)
           /\ After(p, NextWord(p, obj).obj, t + 1)
<1> DEFINE S == Size(p)
<1>1. S \in Nat \ {0} /\ p.eager \in BOOLEAN
  BY SizeIs DEF Sound
<1>2. PICK r \in Nat : \/ Ready(p, obj, t, r)
                       \/ Made(p, obj, t, r) /\ obj.pos = Size(p) /\ ~p.eager
  BY DEF After
<1>3. CASE Made(p, obj, t, r) /\ obj.pos = Size(p) /\ ~p.eager
  <2> DEFINE o == RefillBuffer(p, obj)
  <2>1. Ready(p, o, t, r + 1)
    BY <1>3, RefillReady
  <2>2. NextWord(p, obj) = Take(p, o)
    BY <1>3 DEF NextWord
  <2> HIDE DEF o
  <2>3. o.pos \in 0 .. S - 1 /\ r + 1 \in Nat
    BY <2>1 DEF Ready
  <2>4. /\ Take(p, o).out = OutAt(p, t)
        /\ Made(p, Take(p, o).obj, t + 1, r + 1)
        /\ Take(p, o).obj.pos = o.pos + 1
        /\ Take(p, o).obj.out = Counters(p, InBuffer(p, r + 1))
    BY <2>1, TakeGives
  <2>5. o.pos + 1 \in 0 .. S - 1 \/ o.pos + 1 = S
    BY <1>1, <2>3
  <2>6. After(p, Take(p, o).obj, t + 1)
    BY <1>3, <2>3, <2>4, <2>5 DEF After, Ready
  <2>7. QED
    BY <2>2, <2>4, <2>6
<1>4. CASE Ready(p, obj, t, r)
  <2> DEFINE o == Take(p, obj).obj
  <2>1. obj.pos \in 0 .. S - 1 /\ obj.pos # S
    BY <1>1, <1>4 DEF Ready
  <2>2. /\ Take(p, obj).out = OutAt(p, t)
        /\ Made(p, o, t + 1, r)
        /\ o.pos = obj.pos + 1
        /\ o.out = Counters(p, InBuffer(p, r))
    BY <1>4, TakeGives
  <2>3. CASE p.eager /\ o.pos = S
    <3>1. NextWord(p, obj) = [Take(p, obj) EXCEPT !.obj = RefillBuffer(p, @)]
      BY <2>1, <2>3 DEF NextWord
    <3>2. Take(p, obj) = [obj |-> o, out |-> Take(p, obj).out]
      BY DEF Take
    <3>3. /\ NextWord(p, obj).out = Take(p, obj).out
          /\ NextWord(p, obj).obj = RefillBuffer(p, o)
      <4> HIDE DEF o
      <4>1. QED
        BY <3>1, <3>2
    <3> HIDE DEF o
    <3>4. t + 1 \in Nat
      OBVIOUS
    <3>5. Ready(p, RefillBuffer(p, o), t + 1, r + 1)
      BY <2>2, <2>3, <3>4, RefillReady
    <3>6. After(p, RefillBuffer(p, o), t + 1)
      BY <3>5 DEF After
    <3>7. QED
      BY <2>2, <3>3, <3>6
  <2>4. CASE ~(p.eager /\ o.pos = S)
    <3>1. NextWord(p, obj) = Take(p, obj)
      BY <2>1, <2>4 DEF NextWord
    <3> HIDE DEF o
    <3>2. o.pos \in 0 .. S - 1 \/ o.pos = S
      BY <1>1, <2>1, <2>2
    <3>3. After(p, o, t + 1)
      BY <2>2, <2>4, <3>2 DEF After, Ready
    <3>4. QED
      BY <2>2, <3>1, <3>3 DEF o
  <2>5. QED
    BY <2>3, <2>4
<1>5. QED
  BY <1>2, <1>3, <1>4

-----------------------------------------------------------------------------
(***************************************************************************)
(* The plugins in the list are of such kinds, except three that make their *)
(* first block twice, whose kind differs in that only.                     *)
(***************************************************************************)
\* One copy of the cipher, whose counter is stepped after a block.
OneAtATime ==
    {Aes128Ni, Aes128C99, AesDec2, Des, Fwfarx128Scalar, Kuzn, LeaScalar,
     Lepton32x1V1, Lepton32x1V2, MagmaScalar, Mularx128, Mularx128u32,
     Speck128sc, Threefry, Xtea, Xxtea128, Xxtea256}

\* One copy of the cipher, whose counter is stepped before a block.
CountedFirst ==
    {ChaChaC99, ChaChaC99Ctr32, ChaChaAvx, ChaChaAvxCtr32, Fwfarx256Scalar,
     Jctr32Scalar, Jctr64Scalar, Philox, Philox2x32, Philox32, Rge256ExCtr,
     Rge512Scalar, Speck128Scalar, Threefish1024, Xtea2x64}

\* Several copies of the cipher.
SideBySide ==
    {BlaBlaScalar, BlaBlaVector, ChaChaVector, Fwfarx128Vector,
     Fwfarx256Vector, Jctr32Vector, Jctr64Vector, LeaVector, MagmaVector,
     Rge512Vector, Speck128Vector, Threefish1024Vector, ThreefryVector,
     Threefry2x64Vector, XteaVector, Xxtea128Vector}

\* No counter.
FromTheLast ==
    {Hc256, Isaac, Isaac64, MaD0, Ranluxpp, Rge256Ex, Rge512Ex, V3b,
     Xoroshiro128ppBuffer}

\* No block is given twice.
Once(p) == Sound(p) /\ (p.made => p.incFirst)

\* Every kind in the four lists.
LEMMA KindsGiveOnce ==
    ASSUME NEW p \in OneAtATime \cup CountedFirst \cup SideBySide \cup FromTheLast
    PROVE  Once(p)
<1>1. \A k \in OneAtATime : Once(k)
  <2>1. Once(Aes128Ni) /\ Once(Aes128C99) /\ Once(AesDec2) /\ Once(Des) /\
         Once(Fwfarx128Scalar) /\ Once(Kuzn)
    BY BlockPluginsAssumption DEF Once, Sound, Size, Aes128Ni, OnDemand, Aes128C99,
           AesDec2, NoCarry, Des, Fwfarx128Scalar, Kuzn, KuznWords
  <2>2. Once(LeaScalar) /\ Once(Lepton32x1V1) /\ Once(Lepton32x1V2) /\
         Once(MagmaScalar) /\ Once(Mularx128) /\ Once(Mularx128u32)
    BY BlockPluginsAssumption DEF Once, Sound, Size, LeaScalar, BufGen32, OnDemand,
           Lepton32x1V1, Lepton32x1V2, MagmaScalar, NoCarry, Mularx128,
           Mularx128u32
  <2>3. Once(Speck128sc) /\ Once(Threefry) /\ Once(Xtea) /\ Once(Xxtea128) /\
         Once(Xxtea256)
    BY BlockPluginsAssumption DEF Once, Sound, Size, Speck128sc, OnDemand, Threefry,
           BufGen64, Xtea, NoCarry, Xxtea128, BufGen32, Xxtea256
  <2>4. QED
    BY <2>1, <2>2, <2>3 DEF OneAtATime
<1>2. \A k \in CountedFirst : Once(k)
  <2>1. Once(ChaChaC99) /\ Once(ChaChaC99Ctr32) /\ Once(ChaChaAvx) /\
         Once(ChaChaAvxCtr32) /\ Once(Fwfarx256Scalar) /\
         Once(Jctr32Scalar)
    BY BlockPluginsAssumption DEF Once, Sound, Size, ChaChaC99, Ahead, CountFirst,
           OnDemand, ChaChaC99Ctr32, NoCarry, ChaChaAvx, ChaChaAvxCtr32,
           Fwfarx256Scalar, Jctr32Scalar, Eager
  <2>2. Once(Jctr64Scalar) /\ Once(Philox) /\ Once(Philox2x32) /\ Once(Philox32)
         /\ Once(Rge256ExCtr) /\ Once(Rge512Scalar)
    BY BlockPluginsAssumption DEF Once, Sound, Size, Jctr64Scalar, Eager, Ahead,
           CountFirst, OnDemand, NoCarry, Philox, PhiloxGet, Philox2x32,
           Philox2x32Get, Philox32, Philox32Get, Rge256ExCtr, Rge512Scalar
  <2>3. Once(Speck128Scalar) /\ Once(Threefish1024) /\ Once(Xtea2x64)
    BY BlockPluginsAssumption DEF Once, Sound, Size, Speck128Scalar, Ahead,
           CountFirst, OnDemand, Threefish1024, NoCarry, Xtea2x64
  <2>4. QED
    BY <2>1, <2>2, <2>3 DEF CountedFirst
<1>3. \A k \in SideBySide : Once(k)
  <2>1. Once(BlaBlaScalar) /\ Once(BlaBlaVector) /\ Once(ChaChaVector) /\
         Once(Fwfarx128Vector) /\ Once(Fwfarx256Vector) /\
         Once(Jctr32Vector)
    BY BlockPluginsAssumption DEF Once, Sound, Size, BlaBlaScalar, Eager, Ahead,
           CountFirst, OnDemand, Copies, NoCarry, BlaBlaVector, ChaChaVector,
           ChaChaCopies, Fwfarx128Vector, Fwfarx256Vector, Jctr32Vector
  <2>2. Once(Jctr64Vector) /\ Once(LeaVector) /\ Once(MagmaVector) /\
         Once(Rge512Vector) /\ Once(Speck128Vector) /\
         Once(Threefish1024Vector)
    BY BlockPluginsAssumption DEF Once, Sound, Size, Jctr64Vector, Eager, Ahead,
           CountFirst, OnDemand, Copies, NoCarry, LeaVector, BufGen32,
           ByWords, FirstCarries, MagmaVector, MagmaCopies, Rge512Vector,
           Speck128Vector, Threefish1024Vector
  <2>3. Once(ThreefryVector) /\ Once(Threefry2x64Vector) /\ Once(XteaVector) /\
         Once(Xxtea128Vector)
    BY BlockPluginsAssumption DEF Once, Sound, Size, ThreefryVector, BufGen64,
           OnDemand, Copies, ByWords, NoCarry, Threefry2x64Vector,
           Threefry2x64Get, CountFirst, Apart, XteaVector, FirstCarries,
           Xxtea128Vector, BufGen32
  <2>4. QED
    BY <2>1, <2>2, <2>3 DEF SideBySide
<1>4. \A k \in FromTheLast : Once(k)
  <2>1. Once(Hc256) /\ Once(Isaac) /\ Once(Isaac64) /\ Once(MaD0) /\
         Once(Ranluxpp) /\ Once(Rge256Ex)
    BY BlockPluginsAssumption DEF Once, Sound, Size, Hc256, Hc256Get, OnDemand,
           Chained, Isaac, Ahead, CountFirst, Downwards, Isaac64, MaD0, Eager,
           Ranluxpp, Rge256Ex
  <2>2. Once(Rge512Ex) /\ Once(V3b) /\ Once(Xoroshiro128ppBuffer)
    BY BlockPluginsAssumption DEF Once, Sound, Size, Rge512Ex, Ahead, CountFirst,
           OnDemand, Chained, V3b, Downwards, WarmUp, Xoroshiro128ppBuffer,
           Copies, Apart, ByWords
  <2>3. QED
    BY <2>1, <2>2 DEF FromTheLast
<1>5. QED
  BY <1>1, <1>2, <1>3, <1>4

\* Whether a plugin gives its first block twice is seen at its kind.
LEMMA PluginsAreSound ==
    ASSUME NEW name \in DOMAIN BlockPlugins
    PROVE  /\ Sound(BlockPlugins[name])
           /\ name \in GivesFirstTwice <=>
                    BlockPlugins[name].made /\ ~BlockPlugins[name].incFirst
<1>1. CASE name \in GivesFirstTwice
  <2>1. Sound(Lepton32x2) /\ Sound(Lepton32x4) /\ Sound(Xtea2)
    BY BlockPluginsAssumption DEF Sound, Size, Lepton32x2, Lepton32x4, Xtea2, Doubled, OnDemand
  <2>2. \A p \in {Lepton32x2, Lepton32x4, Xtea2} : p.made /\ ~p.incFirst
    BY DEF Lepton32x2, Lepton32x4, Xtea2, Doubled, OnDemand
  <2>3. BlockPlugins[name] \in {Lepton32x2, Lepton32x4, Xtea2}
    BY <1>1 DEF GivesFirstTwice, BlockPlugins
  <2>4. QED
    BY <1>1, <2>1, <2>2, <2>3
<1>2. CASE name \notin GivesFirstTwice
  <2>1. BlockPlugins[name] \in OneAtATime \cup CountedFirst \cup SideBySide \cup FromTheLast
    BY <1>2 DEF BlockPlugins, GivesFirstTwice, OneAtATime, CountedFirst, SideBySide, FromTheLast
  <2>2. QED
    BY <1>2, <2>1, KindsGiveOnce DEF Once
<1>3. QED
  BY <1>1, <1>2

-----------------------------------------------------------------------------
(***************************************************************************)
(* create, with the outputs that are thrown away.                          *)
(***************************************************************************)
LEMMA DiscardedIs ==
    ASSUME NEW p, NEW obj, NEW n \in Nat
    PROVE  \E after : /\ after = [i \in 0 .. n |->
                                     IF i = 0 THEN obj ELSE NextWord(p, after[i - 1]).obj]
                      /\ Discarded(p, obj, n) = after[n]
<1> DEFINE Is(g, m) == g = [i \in 0 .. m |->
                              IF i = 0 THEN obj ELSE NextWord(p, g[i - 1]).obj]
           S == {m \in Nat : \E g : Is(g, m)}
<1>1. 0 \in S
  <2> DEFINE g == [i \in 0 .. 0 |-> obj]
  <2>1. g = [i \in 0 .. 0 |-> IF i = 0 THEN obj ELSE NextWord(p, g[i - 1]).obj]
    OBVIOUS
  <2> HIDE DEF g
  <2>2. QED
    BY <2>1
<1>2. ASSUME NEW m \in S PROVE m + 1 \in S
  <2>1. PICK g : Is(g, m)
    OBVIOUS
  <2> DEFINE h == [i \in 0 .. m + 1 |-> IF i = m + 1 THEN NextWord(p, g[m]).obj ELSE g[i]]
             G == [i \in 0 .. m + 1 |-> IF i = 0 THEN obj ELSE NextWord(p, h[i - 1]).obj]
  <2>2. \A i \in 0 .. m : g[i] = IF i = 0 THEN obj ELSE NextWord(p, g[i - 1]).obj
    BY <2>1
  <2>3. ASSUME NEW i \in 0 .. m + 1 PROVE h[i] = G[i]
    <3>1. CASE i = m + 1
      <4>1. h[i] = NextWord(p, g[m]).obj /\ i - 1 = m /\ h[m] = g[m] /\ i # 0
        BY <3>1
      <4>2. QED
        BY <4>1
    <3>2. CASE i = 0
      BY <2>2, <3>2
    <3>3. CASE i # 0 /\ i # m + 1
      <4>1. i \in 0 .. m /\ i - 1 \in 0 .. m + 1 /\ i - 1 # m + 1
        BY <3>3
      <4>2. h[i] = g[i] /\ h[i - 1] = g[i - 1]
        BY <3>3, <4>1
      <4>3. QED
        BY <2>2, <3>3, <4>1, <4>2
    <3>4. QED
      BY <3>1, <3>2, <3>3
  <2>4. h = G
    BY <2>3
  <2>5. Is(h, m + 1)
    BY <2>4
  <2>6. m + 1 \in Nat
    OBVIOUS
  <2> HIDE DEF h, G, Is
  <2>7. QED
    BY <2>5, <2>6
<1> HIDE DEF Is
<1>3. S = Nat
  <2> HIDE DEF S
  <2>1. QED
    BY <1>1, <1>2, NatInduct DEF S
<1>4. \E g : Is(g, n)
  BY <1>3
<1>5. Is((CHOOSE g : Is(g, n)), n)
  BY <1>4
<1>6. QED
  BY <1>5 DEF Discarded, Is

\* Outputs that are thrown away are counted like others.
LEMMA DiscardedAfter ==
    ASSUME NEW p, Sound(p), NEW obj, After(p, obj, 0), NEW n \in Nat
    PROVE  After(p, Discarded(p, obj, n), n)
<1>1. PICK g : /\ g = [i \in 0 .. n |-> IF i = 0 THEN obj ELSE NextWord(p, g[i - 1]).obj]
               /\ Discarded(p, obj, n) = g[n]
  BY DiscardedIs
<1>2. \A i \in 0 .. n : g[i] = IF i = 0 THEN obj ELSE NextWord(p, g[i - 1]).obj
  BY <1>1
<1> DEFINE S == {i \in Nat : i <= n => After(p, g[i], i)}
<1>3. 0 \in S
  BY <1>2
<1>4. ASSUME NEW i \in S PROVE i + 1 \in S
  <2> SUFFICES ASSUME i + 1 <= n PROVE After(p, g[i + 1], i + 1)
    OBVIOUS
  <2>1. i \in Nat /\ After(p, g[i], i) /\ i + 1 \in 0 .. n /\ i + 1 # 0 /\ (i + 1) - 1 = i
    OBVIOUS
  <2>2. g[i + 1] = NextWord(p, g[i]).obj
    BY <1>2, <2>1
  <2>3. QED
    BY <2>1, <2>2, NextGives
<1>5. S = Nat
  <2> HIDE DEF S
  <2>1. QED
    BY <1>3, <1>4, NatInduct DEF S
<1>6. n \in S
  BY <1>5
<1>7. QED
  BY <1>1, <1>6

\* A new object has given those outputs that were thrown away.
LEMMA CreateAfter ==
    ASSUME NEW p, Sound(p), NEW obj \in Create(p)
    PROVE  After(p, obj, p.warm)
<1> DEFINE start == [j \in Lanes(p) |-> IF p.apart THEN <<0, j>>
                                        ELSE <<j % CtrRange, j \div CtrRange>>]
           new   == [ctr |-> start, out |-> <<>>, pos |-> Size(p), clean |-> TRUE]
           first == IF p.made THEN MakeBlocks(p, new) ELSE new
           S     == Size(p)
<1>1. p.places = {} /\ p.warm \in Nat /\ p.made \in BOOLEAN /\ (p.eager => p.made)
  BY DEF Sound
<1>2. obj = Discarded(p, first, p.warm)
  BY <1>1 DEF Create
<1>3. start = Counters(p, 0)
  BY CountersStart
<1>4. S \in Nat \ {0}
  BY SizeIs
<1>5. CASE p.made
  <2> DEFINE o == [ctr |-> start, out |-> start, pos |-> 0, clean |-> TRUE /\ p.known]
  <2>1. first = o
    <3>1. first = MakeBlocks(p, new)
      BY <1>5
    <3> HIDE DEF start, first
    <3>2. MakeBlocks(p, new) = o
      BY MakeBlocksIs
    <3>3. QED
      BY <3>1, <3>2
  <2>2. /\ o.ctr = Counters(p, 0) /\ o.out = Counters(p, InBuffer(p, 0))
        /\ o.pos = 0 /\ IsObject(o)
    BY <1>3 DEF InBuffer, IsObject
  <2>3. 0 + (IF p.made THEN 0 ELSE S) = 0 * S + 0 /\ 0 \in 0 .. S - 1
    BY <1>4, <1>5
  <2> HIDE DEF o, S
  <2>4. Ready(p, o, 0, 0)
    BY <2>2, <2>3 DEF Ready, Made, S
  <2>5. QED
    BY <2>1, <2>4, <1>1, <1>2, DiscardedAfter DEF After
<1>6. CASE ~p.made
  <2>1. first = new
    BY <1>6
  <2>2. new.ctr = Counters(p, 0) /\ new.pos = S /\ IsObject(new)
    BY <1>3 DEF IsObject
  <2>3. 0 + (IF p.made THEN 0 ELSE S) = 0 * S + S
    BY <1>4, <1>6
  <2> HIDE DEF new, S
  <2>4. Made(p, new, 0, 0) /\ new.pos = Size(p) /\ ~p.eager
    BY <1>1, <1>6, <2>2, <2>3 DEF Made, S
  <2>5. After(p, new, 0)
    BY <2>4 DEF After
  <2>6. QED
    BY <2>1, <2>5, <1>1, <1>2, DiscardedAfter
<1>7. QED
  BY <1>5, <1>6

-----------------------------------------------------------------------------
(***************************************************************************)
(* The task, for every plugin in the list, counters of any width and any   *)
(* number of outputs.                                                      *)
(***************************************************************************)
PluginInv ==
    task = "plugin" /\ input \in DOMAIN BlockPlugins /\ answer # Unknown =>
        LET p == BlockPlugins[input]
        IN  /\ answer.n \in Nat
            /\ After(p, work, answer.n + p.warm)
            /\ answer.n > 0 => answer.out = OutAt(p, answer.n - 1 + p.warm)

\* create, or one more output.
LEMMA PluginStep ==
    ASSUME PluginInv, CreatePlugin \/ PluginGet, input \in DOMAIN BlockPlugins
    PROVE  LET p == BlockPlugins[input]
           IN  /\ answer'.n \in Nat
               /\ After(p, work', answer'.n + p.warm)
               /\ answer'.n > 0 => answer'.out = OutAt(p, answer'.n - 1 + p.warm)
<1> DEFINE p == BlockPlugins[input]
<1>1. Sound(p) /\ p.warm \in Nat
  BY PluginsAreSound DEF Sound
<1>2. Plugin = p
  BY DEF Plugin
<1> HIDE DEF p
<1>3. CASE CreatePlugin
  <2>1. work' \in Create(p) /\ answer' = [n |-> 0, out |-> <<>>]
    BY <1>2, <1>3 DEF CreatePlugin
  <2>2. After(p, work', 0 + p.warm)
    BY <1>1, <2>1, CreateAfter
  <2>3. QED
    BY <2>1, <2>2 DEF p
<1>4. CASE PluginGet
  <2>1. PICK got : got = NextWord(p, work)
    OBVIOUS
  <2>2. /\ task = "plugin" /\ answer # Unknown
        /\ work' = got.obj /\ answer' = [n |-> answer.n + 1, out |-> got.out]
    BY <1>2, <1>4, <2>1 DEF PluginGet
  <2>3. answer.n \in Nat /\ After(p, work, answer.n + p.warm)
    BY <2>2 DEF PluginInv, p
  <2>4. PICK t \in Nat : t = answer.n + p.warm
    BY <1>1, <2>3
  <2>5. got.out = OutAt(p, t) /\ After(p, got.obj, t + 1)
    BY <1>1, <2>1, <2>3, <2>4, NextGives
  <2>6. /\ answer'.n = answer.n + 1 /\ answer'.out = got.out
        /\ answer'.n - 1 + p.warm = t /\ answer'.n + p.warm = t + 1
    BY <1>1, <2>2, <2>3, <2>4
  <2>7. QED
    BY <2>2, <2>3, <2>5, <2>6 DEF p
<1>5. QED
  BY <1>3, <1>4

\* The invariant holds for every plugin in the list.
LEMMA PluginInvariance == TaskSpec => []PluginInv
<1>1. TaskInit => PluginInv
  BY TaskStarts DEF PluginInv
<1>2. PluginInv /\ [TaskNext]_vars => PluginInv'
  <2> SUFFICES ASSUME PluginInv, [TaskNext]_vars PROVE PluginInv'
    OBVIOUS
  <2>1. CASE TaskNext
    <3>1. task' = task /\ input' = input /\ (task = "plugin" => CreatePlugin \/ PluginGet)
      BY <2>1, StepOfTask
    <3>2. QED
      BY <3>1, PluginStep DEF PluginInv
  <2>2. CASE UNCHANGED vars
    BY <2>2 DEF vars, PluginInv
  <2>3. QED
    BY <2>1, <2>2
<1>3. QED
  BY <1>1, <1>2, PTL DEF TaskSpec

\* The outputs of the invariant are those of the property.
LEMMA PluginKeepsOrder == PluginInv => BlocksAreInOrder
<1> SUFFICES ASSUME PluginInv, Done("plugin"), input \in DOMAIN BlockPlugins, answer.n > 0
             PROVE  BlocksAreInOrder
  BY DEF BlocksAreInOrder
<1> DEFINE p == BlockPlugins[input]
           S == Size(p)
           n == answer.n - 1
           q == n % S
           w == p.warm \div S
           first == IF p.incFirst /\ ~p.made THEN 1 ELSE w
           twice == IF input \in GivesFirstTwice /\ n >= S THEN 1 ELSE 0
           batch == first + n \div S - twice
<1>1. answer.n \in Nat /\ answer.out = OutAt(p, n + p.warm)
  BY DEF PluginInv, Done
<1>2. /\ Sound(p) /\ (input \in GivesFirstTwice <=> p.made /\ ~p.incFirst)
      /\ S \in Nat \ {0}
  BY PluginsAreSound, SizeIs
<1>3. /\ p.warm \in Nat /\ p.warm % S = 0 /\ (p.warm > 0 => ~p.made /\ ~p.incFirst)
      /\ p.made \in BOOLEAN /\ p.incFirst \in BOOLEAN
      /\ p.words \in Nat \ {0} /\ p.order \in {"blocks", "words", "down"}
      /\ (p.order = "down" => p.copies = 1)
  BY <1>2 DEF Sound
<1>4. n \in Nat
  BY <1>1
<1>5. /\ (n + p.warm) % S = q /\ (n + p.warm) \div S = n \div S + w
      /\ w \in Nat /\ (p.warm = 0 => w = 0) /\ n \div S \in Nat /\ q \in 0 .. S - 1
      /\ (n >= S <=> n \div S > 0)
  <2> HIDE DEF S, n
  <2>1. PICK k \in Nat, r \in 0 .. S - 1 : n = k * S + r /\ q = r /\ n \div S = k
    <3>1. Splits(n, S)
      BY <1>2, <1>4, DivModSplits
    <3>2. QED
      BY <3>1 DEF Splits, Leaves
  <2>2. PICK v \in Nat : p.warm = v * S /\ w = v
    <3>1. Splits(p.warm, S)
      BY <1>2, <1>3, DivModSplits
    <3>2. QED
      BY <1>2, <1>3, <3>1 DEF Splits, Leaves
  <2>3. n + p.warm = (k + v) * S + r /\ k + v \in Nat
    <3>1. (k + v) * S = k * S + v * S
      BY <1>2
    <3>2. k * S \in Nat /\ v * S \in Nat
      BY <1>2
    <3> QED
      BY <2>1, <2>2, <3>1, <3>2
  <2>4. Leaves(n + p.warm, S, k + v, r)
    BY <1>2, <2>3, DivModSum
  <2>5. p.warm = 0 => v = 0
    BY <1>2, <2>2
  <2>6. n >= S <=> k > 0
    <3>1. CASE k = 0
      BY <1>2, <2>1, <3>1
    <3>2. CASE k # 0
      <4>1. PICK d \in Nat : k = d + 1
        BY <3>2
      <4>2. k * S = d * S + S /\ d * S \in Nat
        BY <1>2, <4>1
      <4>3. QED
        BY <1>2, <2>1, <3>2, <4>2
    <3>3. QED
      BY <3>1, <3>2
  <2>7. QED
    BY <2>1, <2>2, <2>4, <2>5, <2>6 DEF Leaves
<1>6. BatchOf(p, n + p.warm) = batch
  <2> HIDE DEF n, S, w
  <2>1. BatchOf(p, n + p.warm) =
            IF p.incFirst /\ ~p.made THEN n \div S + w + 1
            ELSE IF p.made /\ ~p.incFirst /\ n \div S + w > 0 THEN n \div S + w - 1
            ELSE n \div S + w
    BY <1>5 DEF BatchOf, S
  <2>2. p.made \/ p.incFirst => w = 0
    BY <1>3, <1>5
  <2>3. QED
    BY <1>2, <1>3, <1>5, <2>1, <2>2
<1>7. answer.out = <<CounterAt(p, batch, CopyAt(p, q)), WordIn(p, q)>>
  <2> HIDE DEF q, batch, n, S
  <2>1. QED
    BY <1>1, <1>5, <1>6 DEF OutAt, S
<1>8. p.order = "down" => CopyAt(p, q) = 0
  <2> SUFFICES ASSUME p.order = "down" PROVE q \div p.words = 0
    BY DEF CopyAt
  <2>1. S = p.words
    BY <1>3 DEF Size
  <2> HIDE DEF S, q
  <2>2. QED
    BY <1>3, <1>5, <2>1, DivModSmall
<1>9. answer.out = CASE p.order = "blocks" ->
                            <<CounterAt(p, batch, q \div p.words), q % p.words>>
                     [] p.order = "words"  ->
                            <<CounterAt(p, batch, q % p.copies), q \div p.copies>>
                     [] p.order = "down"   ->
                            <<CounterAt(p, batch, 0), p.words - 1 - q>>
  <2> HIDE DEF q, batch
  <2>1. QED
    BY <1>3, <1>7, <1>8 DEF CopyAt, WordIn
<1>10. QED
  BY <1>9 DEF BlocksAreInOrder

(***************************************************************************)
(* Every plugin in the list gives the words of its blocks in the order of  *)
(* its counter, for counters of any width, however many outputs are drawn: *)
(* copies that work side by side take turns as one would, also where the   *)
(* counter carries into its upper word or comes back to 0.                 *)
(***************************************************************************)
THEOREM BlocksInOrder == TaskSpec => []BlocksAreInOrder
BY PluginInvariance, PluginKeepsOrder, PTL

-----------------------------------------------------------------------------
(***************************************************************************)
(* base64 (src/src/base64.c), for any number of words and any text.  Words *)
(* and symbols are sequences of bits; a text has symbols and others.       *)
(***************************************************************************)
BitsOf(n) == [1 .. n -> {0, 1}]
Chars == BitsOf(6) \cup {Pad, Junk}

\* Each place in n pieces of m elements is one of a piece.
PlacesOf(m, n) ==
    /\ \A p \in 1 .. m * n : \E k \in 1 .. n, i \in 1 .. m :
            p = (k - 1) * m + i /\ 1 + ((p - 1) \div m) = k /\ 1 + ((p - 1) % m) = i
    /\ \A k \in 1 .. n, i \in 1 .. m :
            /\ (k - 1) * m + i \in 1 .. m * n
            /\ 1 + (((k - 1) * m + i - 1) \div m) = k
            /\ 1 + (((k - 1) * m + i - 1) % m) = i

\* This holds of the pieces of base64.
LEMMA PlaceInPiece ==
    ASSUME NEW m \in {6, 32}, NEW n \in Nat
    PROVE  PlacesOf(m, n)
<1>1. CASE m = 6
  <2>1. ASSUME NEW p \in 1 .. 6 * n
        PROVE  \E k \in 1 .. n, i \in 1 .. 6 :
                    p = (k - 1) * 6 + i /\ 1 + ((p - 1) \div 6) = k /\ 1 + ((p - 1) % 6) = i
    <3> DEFINE k == 1 + ((p - 1) \div 6)
               i == 1 + ((p - 1) % 6)
    <3>1. k \in 1 .. n /\ i \in 1 .. 6 /\ p = (k - 1) * 6 + i
      OBVIOUS
    <3> QED
      BY <3>1
  <2>2. ASSUME NEW k \in 1 .. n, NEW i \in 1 .. 6
        PROVE  /\ (k - 1) * 6 + i \in 1 .. 6 * n
               /\ 1 + (((k - 1) * 6 + i - 1) \div 6) = k
               /\ 1 + (((k - 1) * 6 + i - 1) % 6) = i
    OBVIOUS
  <2> QED
    BY <1>1, <2>1, <2>2 DEF PlacesOf
<1>2. CASE m = 32
  <2>1. ASSUME NEW p \in 1 .. 32 * n
        PROVE  \E k \in 1 .. n, i \in 1 .. 32 :
                    p = (k - 1) * 32 + i /\ 1 + ((p - 1) \div 32) = k /\ 1 + ((p - 1) % 32) = i
    <3> DEFINE k == 1 + ((p - 1) \div 32)
               i == 1 + ((p - 1) % 32)
    <3>1. k \in 1 .. n /\ i \in 1 .. 32 /\ p = (k - 1) * 32 + i
      OBVIOUS
    <3> QED
      BY <3>1
  <2>2. ASSUME NEW k \in 1 .. n, NEW i \in 1 .. 32
        PROVE  /\ (k - 1) * 32 + i \in 1 .. 32 * n
               /\ 1 + (((k - 1) * 32 + i - 1) \div 32) = k
               /\ 1 + (((k - 1) * 32 + i - 1) % 32) = i
    OBVIOUS
  <2> QED
    BY <1>2, <2>1, <2>2 DEF PlacesOf
<1> QED
  BY <1>1, <1>2

\* Words or symbols, bit by bit.
LEMMA JoinedIs ==
    ASSUME NEW m \in {6, 32}, NEW s \in Seq(BitsOf(m))
    PROVE  /\ Joined(s, m) \in Seq({0, 1})
           /\ Len(Joined(s, m)) = m * Len(s)
           /\ \A k \in 1 .. Len(s), i \in 1 .. m : Joined(s, m)[(k - 1) * m + i] = s[k][i]
<1> DEFINE n == Len(s)
           J == Joined(s, m)
<1>1. n \in Nat /\ m * n \in Nat /\ \A k \in 1 .. n : s[k] \in BitsOf(m)
  <2>1. n \in Nat /\ \A k \in 1 .. n : s[k] \in BitsOf(m)
    OBVIOUS
  <2>2. CASE m = 6
    BY <2>1, <2>2
  <2>3. CASE m = 32
    BY <2>1, <2>3
  <2> QED
    BY <2>1, <2>2, <2>3
<1>2. J = [p \in 1 .. m * n |-> s[1 + ((p - 1) \div m)][1 + ((p - 1) % m)]]
  BY DEF Joined
<1> HIDE DEF J, n
<1>p. PlacesOf(m, n)
  BY <1>1, PlaceInPiece
<1>3. \A k \in 1 .. n, i \in 1 .. m : J[(k - 1) * m + i] = s[k][i]
  <2> SUFFICES ASSUME NEW k \in 1 .. n, NEW i \in 1 .. m
               PROVE  J[(k - 1) * m + i] = s[k][i]
    OBVIOUS
  <2> DEFINE p == (k - 1) * m + i
  <2>1. p \in 1 .. m * n /\ 1 + ((p - 1) \div m) = k /\ 1 + ((p - 1) % m) = i
    <3>1. \A c \in 1 .. n, d \in 1 .. m :
            /\ (c - 1) * m + d \in 1 .. m * n
            /\ 1 + (((c - 1) * m + d - 1) \div m) = c
            /\ 1 + (((c - 1) * m + d - 1) % m) = d
      BY <1>p DEF PlacesOf
    <3>2. /\ (k - 1) * m + i \in 1 .. m * n
          /\ 1 + (((k - 1) * m + i - 1) \div m) = k
          /\ 1 + (((k - 1) * m + i - 1) % m) = i
      BY <3>1
    <3> QED
      BY <3>2
  <2> HIDE DEF p
  <2>2. J[p] = s[k][i]
    BY <1>2, <2>1
  <2> QED
    BY <2>2 DEF p
<1>4. \A p \in 1 .. m * n : J[p] \in {0, 1}
  <2> SUFFICES ASSUME NEW p \in 1 .. m * n PROVE J[p] \in {0, 1}
    OBVIOUS
  <2>1. PICK k \in 1 .. n, i \in 1 .. m : p = (k - 1) * m + i
    BY <1>p DEF PlacesOf
  <2>2. s[k][i] \in {0, 1}
    BY <1>1 DEF BitsOf
  <2> QED
    BY <1>3, <2>1, <2>2
<1>5. J \in [1 .. m * n -> {0, 1}]
  BY <1>2, <1>4
<1>6. J \in Seq({0, 1}) /\ Len(J) = m * n
  BY <1>1, <1>5
<1> QED
  BY <1>3, <1>6 DEF J, n

\* Pieces, bit by bit.
LEMMA PiecesAre ==
    ASSUME NEW m \in {6, 32}, NEW s \in Seq({0, 1})
    PROVE  /\ Len(s) \div m \in Nat /\ m * (Len(s) \div m) <= Len(s)
           /\ Pieces(s, m) \in Seq(BitsOf(m))
           /\ Len(Pieces(s, m)) = Len(s) \div m
           /\ \A k \in 1 .. Len(s) \div m : \A i \in 1 .. m :
                    Pieces(s, m)[k][i] = s[(k - 1) * m + i]
<1> DEFINE n == Len(s) \div m
           P == Pieces(s, m)
<1>1. n \in Nat /\ m * n <= Len(s) /\ m * n \in Nat
  <2>1. CASE m = 6
    BY <2>1
  <2>2. CASE m = 32
    BY <2>2
  <2> QED
    BY <2>1, <2>2
<1>2. P = [k \in 1 .. n |-> [i \in 1 .. m |-> s[(k - 1) * m + i]]]
  BY DEF Pieces
<1>3. \A p \in 1 .. m * n : s[p] \in {0, 1}
  BY <1>1
<1> HIDE DEF P, n
<1>p. PlacesOf(m, n)
  BY <1>1, PlaceInPiece
<1>4. \A k \in 1 .. n : P[k] \in BitsOf(m)
  <2> SUFFICES ASSUME NEW k \in 1 .. n PROVE P[k] \in BitsOf(m)
    OBVIOUS
  <2>1. \A i \in 1 .. m : (k - 1) * m + i \in 1 .. m * n
    BY <1>p DEF PlacesOf
  <2>2. \A i \in 1 .. m : s[(k - 1) * m + i] \in {0, 1}
    BY <1>3, <2>1
  <2> QED
    BY <1>2, <2>2 DEF BitsOf
<1>5. P \in [1 .. n -> BitsOf(m)]
  BY <1>2, <1>4
<1>6. P \in Seq(BitsOf(m)) /\ Len(P) = n
  BY <1>1, <1>5
<1> QED
  BY <1>1, <1>2, <1>6 DEF P, n

\* Pieces joined again are the whole, but for the rest left out.
LEMMA JoinedPieces ==
    ASSUME NEW m \in {6, 32}, NEW s \in Seq({0, 1})
    PROVE  /\ Len(Joined(Pieces(s, m), m)) = m * (Len(s) \div m)
           /\ \A p \in 1 .. m * (Len(s) \div m) : Joined(Pieces(s, m), m)[p] = s[p]
<1> DEFINE n == Len(s) \div m
           P == Pieces(s, m)
<1>1. /\ n \in Nat /\ P \in Seq(BitsOf(m)) /\ Len(P) = n
      /\ \A k \in 1 .. n : \A i \in 1 .. m : P[k][i] = s[(k - 1) * m + i]
  BY PiecesAre
<1> HIDE DEF P, n
<1>2. /\ Len(Joined(P, m)) = m * n
      /\ \A k \in 1 .. n, i \in 1 .. m : Joined(P, m)[(k - 1) * m + i] = P[k][i]
  BY <1>1, JoinedIs
<1>p. PlacesOf(m, n)
  BY <1>1, PlaceInPiece
<1>3. \A p \in 1 .. m * n : Joined(P, m)[p] = s[p]
  <2> SUFFICES ASSUME NEW p \in 1 .. m * n PROVE Joined(P, m)[p] = s[p]
    OBVIOUS
  <2>1. PICK k \in 1 .. n, i \in 1 .. m : p = (k - 1) * m + i
    BY <1>p DEF PlacesOf
  <2>2. Joined(P, m)[(k - 1) * m + i] = P[k][i] /\ P[k][i] = s[(k - 1) * m + i]
    BY <1>1, <1>2
  <2> QED
    BY <2>1, <2>2
<1> QED
  BY <1>2, <1>3 DEF P, n

\* What begins with the bits of s is cut into s again.
LEMMA PiecesOfJoined ==
    ASSUME NEW m \in {6, 32}, NEW s \in Seq(BitsOf(m)), NEW t \in Seq({0, 1}),
           Len(t) \div m = Len(s), \A p \in 1 .. m * Len(s) : t[p] = Joined(s, m)[p]
    PROVE  Pieces(t, m) = s
<1> DEFINE n == Len(s)
           P == Pieces(t, m)
<1>1. n \in Nat /\ Len(t) \div m = n /\ \A p \in 1 .. m * n : t[p] = Joined(s, m)[p]
  OBVIOUS
<1>2. /\ P \in Seq(BitsOf(m)) /\ Len(P) = n
      /\ \A k \in 1 .. n : \A i \in 1 .. m : P[k][i] = t[(k - 1) * m + i]
  <2> DEFINE l == Len(t) \div m
  <2>1. /\ P \in Seq(BitsOf(m)) /\ Len(P) = l
        /\ \A k \in 1 .. l : \A i \in 1 .. m : P[k][i] = t[(k - 1) * m + i]
    BY PiecesAre
  <2>2. l = n
    OBVIOUS
  <2> HIDE DEF l, P, n
  <2> QED
    BY <2>1, <2>2
<1>3. \A k \in 1 .. n, i \in 1 .. m : Joined(s, m)[(k - 1) * m + i] = s[k][i]
  BY ONLY m \in {6, 32}, s \in Seq(BitsOf(m)), JoinedIs
<1>4. \A k \in 1 .. n : s[k] \in BitsOf(m) /\ P[k] \in BitsOf(m)
  <2> HIDE DEF P
  <2> QED
    BY <1>2
<1> HIDE DEF P, n
<1>p. PlacesOf(m, n)
  BY <1>1, PlaceInPiece
<1>5. \A k \in 1 .. n : P[k] = s[k]
  <2> SUFFICES ASSUME NEW k \in 1 .. n PROVE P[k] = s[k]
    OBVIOUS
  <2>1. \A i \in 1 .. m : (k - 1) * m + i \in 1 .. m * n
    BY <1>p DEF PlacesOf
  <2>2. \A i \in 1 .. m : P[k][i] = s[k][i]
    <3> SUFFICES ASSUME NEW i \in 1 .. m PROVE P[k][i] = s[k][i]
      OBVIOUS
    <3>1. P[k][i] = t[(k - 1) * m + i] /\ s[k][i] = Joined(s, m)[(k - 1) * m + i]
      BY <1>2, <1>3
    <3>2. t[(k - 1) * m + i] = Joined(s, m)[(k - 1) * m + i]
      BY <1>1, <2>1
    <3> QED
      BY <3>1, <3>2
  <2>3. P[k] \in [1 .. m -> {0, 1}] /\ s[k] \in [1 .. m -> {0, 1}]
    BY <1>4 DEF BitsOf
  <2> QED
    BY <2>2, <2>3
<1>6. Len(s) = n
  BY DEF n
<1>7. P = s
  BY <1>2, <1>5, <1>6, SeqEqual
<1> QED
  BY <1>7 DEF P

-----------------------------------------------------------------------------
\* The symbols that words are encoded in, without the padding.
SymsOf(words) == Pieces(FilledUp(Joined(words, 32), 6), 6)

\* Their number, and their bits: those of the words and zeros.
LEMMA SymsAre ==
    ASSUME NEW w \in Seq(BitsOf(32))
    PROVE  /\ FilledUp(Joined(w, 32), 6) \in Seq({0, 1})
           /\ Len(FilledUp(Joined(w, 32), 6)) = 6 * ((32 * Len(w) + 5) \div 6)
           /\ \A p \in 1 .. 6 * ((32 * Len(w) + 5) \div 6) :
                FilledUp(Joined(w, 32), 6)[p] = IF p <= 32 * Len(w) THEN Joined(w, 32)[p] ELSE 0
           /\ SymsOf(w) \in Seq(BitsOf(6))
           /\ Len(SymsOf(w)) = (32 * Len(w) + 5) \div 6
<1> DEFINE L == Len(w)
           nsyms == (32 * L + 5) \div 6
           b == Joined(w, 32)
           f == FilledUp(b, 6)
<1>1. b \in Seq({0, 1}) /\ Len(b) = 32 * L
  BY JoinedIs
<1>2. L \in Nat /\ nsyms \in Nat /\ 32 * L <= 6 * nsyms
  OBVIOUS
<1>3. f = [p \in 1 .. 6 * ((Len(b) + 6 - 1) \div 6) |-> IF p <= Len(b) THEN b[p] ELSE 0]
  BY DEF FilledUp
<1> HIDE DEF f, b
<1>4. (Len(b) + 6 - 1) \div 6 = nsyms
  <2>1. Len(b) + 6 - 1 = 32 * L + 5
    BY <1>1, <1>2
  <2> QED
    BY <2>1
<1> HIDE DEF nsyms, L
<1>5. f = [p \in 1 .. 6 * nsyms |-> IF p <= 32 * L THEN b[p] ELSE 0]
  BY <1>1, <1>3, <1>4
<1>6. \A p \in 1 .. 6 * nsyms : (IF p <= 32 * L THEN b[p] ELSE 0) \in {0, 1}
  BY <1>1, <1>2
<1>7. f \in [1 .. 6 * nsyms -> {0, 1}] /\ 6 * nsyms \in Nat
  BY <1>2, <1>5, <1>6
<1>8. f \in Seq({0, 1}) /\ Len(f) = 6 * nsyms
  BY <1>7
<1>9. Len(f) \div 6 = nsyms
  BY <1>2, <1>8
<1>10. Pieces(f, 6) \in Seq(BitsOf(6)) /\ Len(Pieces(f, 6)) = nsyms
  BY <1>8, <1>9, PiecesAre
<1> QED
  BY <1>5, <1>8, <1>10 DEF SymsOf, f, b, nsyms, L

(***************************************************************************)
(* sr_base64_to_u32_bigendian on the symbols: the two directions.          *)
(***************************************************************************)
WordsOf(syms) ==
    LET bits    == Joined(syms, 6)
        u32_len == Len(bits) \div 32
    IN  IF \/ u32_len = 0
           \/ ExtraBits(u32_len) # Len(bits) - 32 * u32_len
           \/ ~RestIsZero(bits, u32_len)
        THEN Failure
        ELSE Pieces(bits, 32)

\* The bits that words leave over in their symbols.
LEMMA ExtraBitsAre ==
    ASSUME NEW L \in Nat \ {0}
    PROVE  ExtraBits(L) = 6 * ((32 * L + 5) \div 6) - 32 * L
<1> DEFINE q == (L - 1) \div 3
           r == (L - 1) % 3
<1>1. q \in Nat /\ r \in 0 .. 2 /\ L = 3 * q + r + 1
  OBVIOUS
<1>2. ExtraBits(L) = <<4, 2, 0>>[1 + r]
  BY DEF ExtraBits
<1> HIDE DEF q, r
<1>3. CASE r = 0
  BY <1>1, <1>2, <1>3
<1>4. CASE r = 1
  BY <1>1, <1>2, <1>4
<1>5. CASE r = 2
  BY <1>1, <1>2, <1>5
<1> QED
  BY <1>1, <1>3, <1>4, <1>5

\* What was encoded is decoded.
LEMMA WordsComeBack ==
    ASSUME NEW w \in Seq(BitsOf(32))
    PROVE  WordsOf(SymsOf(w)) = w
<1> DEFINE L == Len(w)
           nsyms == (32 * L + 5) \div 6
           b == Joined(w, 32)
           f == FilledUp(b, 6)
           bits == Joined(SymsOf(w), 6)
           l == Len(bits) \div 32
<1>1. L \in Nat /\ nsyms \in Nat /\ 32 * L <= 6 * nsyms /\ 6 * nsyms - 32 * L <= 5
  OBVIOUS
<1>2. /\ f \in Seq({0, 1}) /\ Len(f) = 6 * nsyms
      /\ \A p \in 1 .. 6 * nsyms : f[p] = IF p <= 32 * L THEN b[p] ELSE 0
      /\ SymsOf(w) \in Seq(BitsOf(6)) /\ Len(SymsOf(w)) = nsyms /\ SymsOf(w) = Pieces(f, 6)
  BY SymsAre DEF SymsOf
<1>3. WordsOf(SymsOf(w)) = IF l = 0 \/ ExtraBits(l) # Len(bits) - 32 * l \/ ~RestIsZero(bits, l)
                           THEN Failure ELSE Pieces(bits, 32)
  BY DEF WordsOf
<1> HIDE DEF nsyms, f, b, bits
<1>4. bits \in Seq({0, 1}) /\ Len(bits) = 6 * nsyms
  BY <1>2, JoinedIs DEF bits
<1>5. \A p \in 1 .. 6 * nsyms : bits[p] = f[p]
  <2>1. Len(f) \div 6 = nsyms
    BY <1>1, <1>2
  <2>2. \A p \in 1 .. 6 * (Len(f) \div 6) : Joined(Pieces(f, 6), 6)[p] = f[p]
    BY <1>2, JoinedPieces
  <2> QED
    BY <1>2, <2>1, <2>2 DEF bits
<1>6. l = L
  BY <1>1, <1>4
<1> HIDE DEF l
<1>7. CASE L = 0
  BY <1>3, <1>6, <1>7 DEF Failure
<1>8. CASE L # 0
  <2>1. ExtraBits(L) = 6 * nsyms - 32 * L
    BY <1>1, <1>8, ExtraBitsAre DEF nsyms
  <2>2. RestIsZero(bits, L)
    BY <1>1, <1>2, <1>4, <1>5 DEF RestIsZero
  <2>3. Len(bits) \div 32 = L
    BY <1>6 DEF l
  <2>4. \A p \in 1 .. 32 * L : bits[p] = b[p]
    BY <1>1, <1>2, <1>5
  <2>5. Pieces(bits, 32) = w
    <3>1. Len(bits) \div 32 = Len(w) /\ \A p \in 1 .. 32 * Len(w) : bits[p] = Joined(w, 32)[p]
      BY <2>3, <2>4 DEF b
    <3> QED
      BY <1>4, <3>1, PiecesOfJoined
  <2> QED
    BY <1>3, <1>4, <1>6, <1>8, <2>1, <2>2, <2>5
<1> QED
  BY <1>7, <1>8

\* Symbols that are decoded are those of the result.
LEMMA SymbolsComeBack ==
    ASSUME NEW y \in Seq(BitsOf(6)), WordsOf(y) # Failure
    PROVE  WordsOf(y) \in Seq(BitsOf(32)) /\ SymsOf(WordsOf(y)) = y
<1> DEFINE bits == Joined(y, 6)
           n == Len(y)
           L == Len(bits) \div 32
           w == Pieces(bits, 32)
<1>1. L # 0 /\ ExtraBits(L) = Len(bits) - 32 * L /\ RestIsZero(bits, L) /\ WordsOf(y) = w
  BY DEF WordsOf
<1>2. bits \in Seq({0, 1}) /\ Len(bits) = 6 * n /\ n \in Nat
  BY JoinedIs
<1> HIDE DEF bits
<1>3. /\ L \in Nat /\ 32 * L <= 6 * n /\ w \in Seq(BitsOf(32)) /\ Len(w) = L
      /\ \A p \in 1 .. 32 * L : Joined(w, 32)[p] = bits[p]
  BY <1>2, PiecesAre, JoinedPieces
<1> HIDE DEF L, w, n
<1>4. (32 * L + 5) \div 6 = n
  <2>1. ExtraBits(L) = 6 * ((32 * L + 5) \div 6) - 32 * L
    BY <1>1, <1>3, ExtraBitsAre
  <2> QED
    BY <1>1, <1>2, <1>3, <2>1
<1> DEFINE b == Joined(w, 32)
           f == FilledUp(b, 6)
<1>5. /\ f \in Seq({0, 1}) /\ Len(f) = 6 * n
      /\ \A p \in 1 .. 6 * n : f[p] = IF p <= 32 * L THEN b[p] ELSE 0
      /\ SymsOf(w) = Pieces(f, 6)
  BY <1>3, <1>4, SymsAre DEF SymsOf
<1>6. \A p \in 1 .. 6 * n : f[p] = bits[p]
  <2> HIDE DEF f
  <2> SUFFICES ASSUME NEW p \in 1 .. 6 * n PROVE f[p] = bits[p]
    OBVIOUS
  <2>1. CASE p <= 32 * L
    BY <1>3, <1>5, <2>1
  <2>2. CASE p > 32 * L
    <3>1. bits[p] = 0
      BY <1>1, <1>2, <1>3, <2>2 DEF RestIsZero
    <3> QED
      BY <1>3, <1>5, <2>2, <3>1
  <2> QED
    BY <1>3, <2>1, <2>2
<1> HIDE DEF f
<1>7. Pieces(f, 6) = y
  <2>1. Len(f) \div 6 = n
    BY <1>2, <1>5
  <2>2. Len(f) \div 6 = Len(y) /\ \A p \in 1 .. 6 * Len(y) : f[p] = Joined(y, 6)[p]
    BY <1>6, <2>1 DEF n, bits
  <2> QED
    BY <1>5, <2>2, PiecesOfJoined
<1> QED
  BY <1>1, <1>3, <1>5, <1>7

-----------------------------------------------------------------------------
\* A function on 1 .. n is a sequence of length n.
LEMMA SequenceOf ==
    ASSUME NEW S, NEW n \in Nat, NEW c \in [1 .. n -> S]
    PROVE  c \in Seq(S) /\ Len(c) = n
OBVIOUS

\* Texts: characters that are symbols, and others.
LEMMA CharIs ==
    ASSUME NEW c \in Chars
    PROVE  /\ IsSymbol(c) <=> c \in BitsOf(6)
           /\ IsSymbol(c) <=> c # Pad /\ c # Junk
<1>1. Len(Pad) = 1 /\ Len(Junk) = 1
  BY DEF Pad, Junk
<1>2. ASSUME c \in BitsOf(6) PROVE Len(c) = 6
  <2>1. c \in [1 .. 6 -> {0, 1}]
    BY <1>2 DEF BitsOf
  <2>2. 6 \in Nat
    OBVIOUS
  <2> QED
    BY <2>1, <2>2, SequenceOf
<1>3. c \in BitsOf(6) \/ c = Pad \/ c = Junk
  BY DEF Chars
<1> QED
  BY <1>1, <1>2, <1>3 DEF IsSymbol

\* The loop that looks for the symbols of a text.
Keeps(kept, text) ==
    /\ kept[0] = <<>>
    /\ \A i \in 1 .. Len(text) :
            kept[i] = IF IsSymbol(text[i]) THEN Append(kept[i - 1], text[i]) ELSE kept[i - 1]

\* It finds a sequence of symbols.
LEMMA SymbolsLoop ==
    ASSUME NEW text \in Seq(Chars)
    PROVE  /\ Symbols(text) \in Seq(BitsOf(6))
           /\ \E kept : Keeps(kept, text) /\ Symbols(text) = kept[Len(text)]
<1> DEFINE n == Len(text)
           S == Seq(BitsOf(6))
           Next(s, i) == IF IsSymbol(text[i]) THEN Append(s, text[i]) ELSE s
           Is(g) == g = [i \in 0 .. n |-> IF i = 0 THEN <<>> ELSE Next(g[i - 1], i)]
           kept == CHOOSE g : Is(g)
           J == S \X Nat
           F == [s \in J |-> Next(s[1], s[2] + 1)]
<1>0. n \in Nat
  OBVIOUS
<1>1. Symbols(text) = kept[n]
  <2>1. kept = CHOOSE g : g = [i \in 0 .. n |-> IF i = 0 THEN <<>>
                               ELSE IF IsSymbol(text[i]) THEN Append(g[i - 1], text[i])
                               ELSE g[i - 1]]
    OBVIOUS
  <2> HIDE DEF kept
  <2> QED
    BY <2>1 DEF Symbols
<1>2. ASSUME NEW s \in S, NEW i \in 1 .. n PROVE Next(s, i) \in S
  <2>1. text[i] \in Chars
    OBVIOUS
  <2>2. IsSymbol(text[i]) => text[i] \in BitsOf(6)
    BY <2>1, CharIs
  <2> QED
    BY <2>2
<1> HIDE DEF Next, n
<1>3. <<<<>>, 0>> \in J
  <2>1. <<>> \in S
    BY EmptySeq
  <2> HIDE DEF S
  <2> QED
    BY <2>1
<1>4. ASSUME NEW s, NEW k, k \in 0 .. n - 1, <<s, k>> \in J
      PROVE  F[<<s, k>>] = Next(s, k + 1) /\ <<F[<<s, k>>], k + 1>> \in J
  <2>1. F[<<s, k>>] = Next(s, k + 1)
    BY <1>4
  <2>2. s \in S /\ k + 1 \in 1 .. n /\ k + 1 \in Nat
    BY <1>0, <1>4
  <2>3. Next(s, k + 1) \in S
    BY <1>2, <2>2
  <2> QED
    BY <2>1, <2>2, <2>3
<1> HIDE DEF J, F, S
<1>5. PICK g : LoopOf(g, F, <<>>, n) /\ \A k \in 0 .. n : <<g[k], k>> \in J
  BY <1>0, <1>3, <1>4, LoopExists
<1>6. Is(g)
  <2>1. \A k \in 0 .. n : k # 0 => F[<<g[k - 1], k - 1>>] = Next(g[k - 1], k)
    <3> SUFFICES ASSUME NEW k \in 0 .. n, k # 0
                 PROVE  F[<<g[k - 1], k - 1>>] = Next(g[k - 1], k)
      OBVIOUS
    <3>1. k - 1 \in 0 .. n - 1 /\ k - 1 \in 0 .. n /\ (k - 1) + 1 = k
      BY <1>0
    <3>2. <<g[k - 1], k - 1>> \in J
      BY <1>5, <3>1
    <3> QED
      BY <1>4, <3>1, <3>2
  <2>2. g = [k \in 0 .. n |-> IF k = 0 THEN <<>> ELSE F[<<g[k - 1], k - 1>>]]
    BY <1>5 DEF LoopOf
  <2> QED
    BY <2>1, <2>2
<1>7. Is(kept)
  <2> HIDE DEF Is
  <2> QED
    BY <1>6
<1> HIDE DEF kept
<1>8. kept[0] = <<>> /\ \A i \in 1 .. n : kept[i] = Next(kept[i - 1], i)
  <2>1. kept[0] = <<>>
    BY <1>0, <1>7
  <2>2. ASSUME NEW i \in 1 .. n PROVE kept[i] = Next(kept[i - 1], i)
    BY <1>0, <1>7
  <2> QED
    BY <2>1, <2>2
<1>9. \A k \in 0 .. n - 1 : <<kept[k], k>> \in J => <<kept[k + 1], k + 1>> \in J
  <2> SUFFICES ASSUME NEW k \in 0 .. n - 1, <<kept[k], k>> \in J
               PROVE  <<kept[k + 1], k + 1>> \in J
    OBVIOUS
  <2>1. k + 1 \in 1 .. n /\ (k + 1) - 1 = k
    BY <1>0
  <2>2. kept[k + 1] = Next(kept[k], k + 1)
    BY <1>8, <2>1
  <2> QED
    BY <1>4, <2>2
<1>10. <<kept[n], n>> \in J
  <2>1. <<kept[0], 0>> \in J
    BY <1>3, <1>8
  <2>2. \A k \in 0 .. n : <<kept[k], k>> \in J
    BY <1>0, <1>9, <2>1, LoopKeeps
  <2> QED
    BY <1>0, <2>2
<1>11. Keeps(kept, text)
  BY <1>8 DEF Keeps, Next, n
<1> QED
  BY <1>1, <1>10, <1>11 DEF J, S, n

\* The symbols of a text that is padded are those in front of the padding.
LEMMA SymbolsOfPadded ==
    ASSUME NEW s \in Seq(BitsOf(6)), NEW text \in Seq(Chars), Len(text) >= Len(s),
           \A i \in 1 .. Len(s) : text[i] = s[i],
           \A i \in Len(s) + 1 .. Len(text) : text[i] = Pad
    PROVE  Symbols(text) = s
<1>1. PICK kept : Keeps(kept, text) /\ Symbols(text) = kept[Len(text)]
  BY SymbolsLoop
<1> DEFINE n == Len(s)
           m == Len(text)
           Upto(k) == IF k <= n THEN k ELSE n
           T == {k \in Nat : k <= m => /\ kept[k] \in Seq(BitsOf(6)) /\ Len(kept[k]) = Upto(k)
                                       /\ \A i \in 1 .. Upto(k) : kept[k][i] = s[i]}
<1>2. n \in Nat /\ m \in Nat /\ n <= m /\ \A i \in 1 .. n : s[i] \in BitsOf(6)
  OBVIOUS
<1>3. /\ kept[0] = <<>>
      /\ \A i \in 1 .. m : kept[i] = IF IsSymbol(text[i]) THEN Append(kept[i - 1], text[i])
                                      ELSE kept[i - 1]
  BY <1>1 DEF Keeps
<1>4. \A i \in 1 .. m : IF i <= n THEN text[i] = s[i] /\ IsSymbol(text[i])
                         ELSE ~IsSymbol(text[i])
  <2> SUFFICES ASSUME NEW i \in 1 .. m
               PROVE  IF i <= n THEN text[i] = s[i] /\ IsSymbol(text[i]) ELSE ~IsSymbol(text[i])
    OBVIOUS
  <2>1. text[i] \in Chars
    OBVIOUS
  <2>2. CASE i <= n
    <3>1. text[i] = s[i] /\ s[i] \in BitsOf(6)
      BY <1>2, <2>2
    <3> QED
      BY <2>1, <2>2, <3>1, CharIs
  <2>3. CASE i > n
    <3>1. text[i] = Pad
      BY <1>2, <2>3
    <3> QED
      BY <1>2, <2>1, <2>3, <3>1, CharIs
  <2> QED
    BY <1>2, <2>2, <2>3
<1> HIDE DEF n, m
<1>5. 0 \in T
  <2>1. <<>> \in Seq(BitsOf(6)) /\ Len(<<>>) = 0
    BY EmptySeq
  <2>2. Upto(0) = 0
    BY <1>2
  <2> HIDE DEF Upto
  <2>3. kept[0] \in Seq(BitsOf(6)) /\ Len(kept[0]) = Upto(0)
    BY <1>3, <2>1, <2>2
  <2>4. \A i \in 1 .. Upto(0) : kept[0][i] = s[i]
    BY <2>2
  <2> QED
    BY <2>3, <2>4
<1>6. ASSUME NEW k \in T PROVE k + 1 \in T
  <2> SUFFICES ASSUME k + 1 <= m
               PROVE  /\ kept[k + 1] \in Seq(BitsOf(6)) /\ Len(kept[k + 1]) = Upto(k + 1)
                      /\ \A i \in 1 .. Upto(k + 1) : kept[k + 1][i] = s[i]
    OBVIOUS
  <2> DEFINE a == kept[k]
             c == text[k + 1]
  <2>1. k \in Nat /\ a \in Seq(BitsOf(6)) /\ Len(a) = Upto(k) /\ \A i \in 1 .. Upto(k) : a[i] = s[i]
    BY <1>2
  <2>2. kept[k + 1] = IF IsSymbol(c) THEN Append(a, c) ELSE a
    <3>1. k + 1 \in 1 .. m /\ (k + 1) - 1 = k
      BY <1>2, <2>1
    <3> QED
      BY <1>3, <3>1
  <2>3. IF k + 1 <= n THEN c = s[k + 1] /\ IsSymbol(c) ELSE ~IsSymbol(c)
    BY <1>2, <1>4, <2>1
  <2> HIDE DEF a, c
  <2>4. CASE k + 1 <= n
    <3>1. kept[k + 1] = Append(a, c) /\ c \in BitsOf(6) /\ c = s[k + 1] /\ Upto(k) = k
          /\ Upto(k + 1) = k + 1
      BY <1>2, <2>1, <2>2, <2>3, <2>4
    <3>2. /\ Append(a, c) \in Seq(BitsOf(6)) /\ Len(Append(a, c)) = k + 1
          /\ \A i \in 1 .. k + 1 : Append(a, c)[i] = IF i <= k THEN a[i] ELSE c
      BY <2>1, <3>1
    <3>3. \A i \in 1 .. k + 1 : Append(a, c)[i] = s[i]
      <4> SUFFICES ASSUME NEW i \in 1 .. k + 1 PROVE Append(a, c)[i] = s[i]
        OBVIOUS
      <4>1. CASE i = k + 1
        BY <2>1, <3>1, <3>2, <4>1
      <4>2. CASE i # k + 1
        <5>1. i \in 1 .. Upto(k) /\ i <= k
          BY <2>1, <3>1, <4>2
        <5> QED
          BY <2>1, <3>2, <5>1
      <4> QED
        BY <4>1, <4>2
    <3> QED
      BY <3>1, <3>2, <3>3
  <2>5. CASE k + 1 > n
    <3>1. kept[k + 1] = a /\ Upto(k + 1) = Upto(k)
      BY <1>2, <2>1, <2>2, <2>3, <2>5
    <3> QED
      BY <2>1, <3>1
  <2> QED
    BY <1>2, <2>1, <2>4, <2>5
<1> HIDE DEF T
<1>7. T = Nat
  BY <1>5, <1>6, NatInduct DEF T
<1>8. kept[m] \in Seq(BitsOf(6)) /\ Len(kept[m]) = n /\ \A i \in 1 .. n : kept[m][i] = s[i]
  <2>1. m \in T /\ Upto(m) = n
    BY <1>2, <1>7
  <2> QED
    BY <1>2, <2>1 DEF T
<1>9. Len(s) = n
  BY DEF n
<1>10. kept[m] = s
  BY <1>8, <1>9, SeqEqual
<1> QED
  BY <1>1, <1>10 DEF m

\* The text of words: as long as its buffer, and their symbols in front.
LEMMA TextIs ==
    ASSUME NEW w \in Seq(BitsOf(32))
    PROVE  /\ Encode(w) \in Seq(Chars)
           /\ Len(Encode(w)) = Base64Len(4 * Len(w))
           /\ Symbols(Encode(w)) = SymsOf(w)
<1> DEFINE L == Len(w)
           nsyms == (32 * L + 5) \div 6
           B == Base64Len(4 * L)
           s == SymsOf(w)
           pad == [i \in 1 .. B - nsyms |-> Pad]
           text == Encode(w)
<1>1. s \in Seq(BitsOf(6)) /\ Len(s) = nsyms
  BY SymsAre
<1>2. L \in Nat /\ nsyms \in Nat /\ B \in Nat /\ nsyms <= B
  <2>1. CASE L = 0
    BY <2>1 DEF Base64Len
  <2>2. CASE L # 0
    BY <2>2 DEF Base64Len
  <2> QED
    BY <2>1, <2>2
<1>3. text = s \o [i \in 1 .. B - Len(s) |-> Pad]
  BY DEF Encode, SymsOf
<1>4. text = s \o pad
  BY <1>1, <1>3
<1> HIDE DEF L, nsyms, B, s, text
<1>5. pad \in Seq(Chars) /\ Len(pad) = B - nsyms
  <2>1. B - nsyms \in Nat
    BY <1>2
  <2>2. Pad \in Chars
    BY DEF Chars
  <2>3. pad \in [1 .. B - nsyms -> Chars]
    BY <2>2
  <2> QED
    BY <2>1, <2>3
<1>6. s \in Seq(Chars)
  BY <1>1 DEF Chars
<1>7. \A i \in 1 .. B - nsyms : pad[i] = Pad
  OBVIOUS
<1> HIDE DEF pad
<1>8. /\ text \in Seq(Chars) /\ Len(text) = B
      /\ \A i \in 1 .. B : text[i] = IF i <= nsyms THEN s[i] ELSE pad[i - nsyms]
  BY <1>1, <1>2, <1>4, <1>5, <1>6, ConcatProperties
<1>9. \A i \in 1 .. nsyms : text[i] = s[i]
  BY <1>2, <1>8
<1>10. \A i \in nsyms + 1 .. B : text[i] = Pad
  BY <1>2, <1>7, <1>8
<1>11. Symbols(text) = s
  BY <1>1, <1>2, <1>8, <1>9, <1>10, SymbolsOfPadded
<1> QED
  BY <1>8, <1>11 DEF text, B, L, s

(***************************************************************************)
(* sr_base64_to_u32_bigendian (base64.c): for every text, whatever it      *)
(* holds besides symbols, the words it delivers have the symbols of the    *)
(* text; and words of any number come back from their text.                *)
(***************************************************************************)
THEOREM DecodingIsExact ==
    /\ \A w \in Seq(BitsOf(32)) : Decode(Encode(w)) = w
    /\ \A text \in Seq(Chars) :
            Decode(text) # Failure =>
                Decode(text) \in Seq(BitsOf(32)) /\ Symbols(Encode(Decode(text))) = Symbols(text)
<1>1. \A text : Decode(text) = WordsOf(Symbols(text))
  BY DEF Decode, WordsOf
<1>2. ASSUME NEW w \in Seq(BitsOf(32)) PROVE Decode(Encode(w)) = w
  BY <1>1, TextIs, WordsComeBack
<1>3. ASSUME NEW text \in Seq(Chars), Decode(text) # Failure
      PROVE  Decode(text) \in Seq(BitsOf(32)) /\ Symbols(Encode(Decode(text))) = Symbols(text)
  <2>1. Symbols(text) \in Seq(BitsOf(6))
    BY SymbolsLoop
  <2>2. WordsOf(Symbols(text)) # Failure
    BY <1>1, <1>3
  <2>3. /\ WordsOf(Symbols(text)) \in Seq(BitsOf(32))
        /\ SymsOf(WordsOf(Symbols(text))) = Symbols(text)
    BY <2>1, <2>2, SymbolsComeBack
  <2> QED
    BY <1>1, <2>3, TextIs
<1> QED
  BY <1>2, <1>3

-----------------------------------------------------------------------------
\* What is nearly a text of words is a text, and the text itself is among it.
LEMMA VariantsAre ==
    ASSUME NEW w \in Seq(BitsOf(32))
    PROVE  Variants(Encode(w)) \subseteq Seq(Chars) /\ Encode(w) \in Variants(Encode(w))
<1> DEFINE text == Encode(w)
           s == Symbols(text)
           n == Len(s)
           All(b) == [i \in 1 .. 6 |-> b]
<1>1. text \in Seq(Chars)
  BY TextIs
<1> HIDE DEF text
<1>2. s \in Seq(BitsOf(6))
  BY <1>1, SymbolsLoop
<1>3. s \in Seq(Chars) /\ n \in Nat
  BY <1>2 DEF Chars
<1>4. All(0) \in Chars /\ All(1) \in Chars /\ Junk \in Chars
  BY DEF Chars, BitsOf
<1>5. Variants(text) = {text, s, <<Junk>> \o text, Append(s, All(0))}
                       \cup (IF n = 0 THEN {} ELSE {SubSeq(s, 1, n - 1), [s EXCEPT ![n] = All(1)]})
  BY DEF Variants
<1> HIDE DEF s, All
<1>6. <<Junk>> \o text \in Seq(Chars)
  <2>1. <<Junk>> \in Seq(Chars)
    BY <1>4
  <2> QED
    BY <1>1, <2>1, ConcatProperties
<1>7. Append(s, All(0)) \in Seq(Chars)
  BY <1>3, <1>4, AppendProperties
<1>8. n # 0 => SubSeq(s, 1, n - 1) \in Seq(Chars)
  BY <1>3, SubSeqProperties
<1>9. n # 0 => [s EXCEPT ![n] = All(1)] \in Seq(Chars)
  BY <1>3, <1>4, ExceptSeq
<1> QED
  BY <1>1, <1>3, <1>5, <1>6, <1>7, <1>8, <1>9 DEF text

(***************************************************************************)
(* The words of a task with texts.                                         *)
(***************************************************************************)
TextInv == task = "text" => input \in Seq(BitsOf(32)) /\ Base64IsCanonical

(***************************************************************************)
(* base64 (base64.c) is exact and canonical, for every number of words:    *)
(* the text fits its buffer and is decoded to the words, and whichever     *)
(* text is accepted has the symbols of its result.                         *)
(***************************************************************************)
THEOREM Base64Canonical == TaskSpec => []Base64IsCanonical
<1>1. TaskInit => TextInv
  <2> SUFFICES ASSUME TaskInit, task = "text"
               PROVE  input \in Seq(BitsOf(32)) /\ Base64IsCanonical
    BY DEF TextInv
  <2>1. answer = Unknown /\ input \in TextWords
    BY TaskStarts
  <2> QED
    BY <2>1, KernelTasksAssumption DEF BitsOf, Base64IsCanonical, Done
<1>2. TextInv /\ [TaskNext]_vars => TextInv'
  <2> SUFFICES ASSUME TextInv, [TaskNext]_vars, task' = "text"
               PROVE  input' \in Seq(BitsOf(32)) /\ Base64IsCanonical'
    BY DEF TextInv
  <2>1. CASE TaskNext
    <3>1. task = "text" /\ input' = input /\ Base64Text
      BY <2>1, StepOfTask
    <3>2. input \in Seq(BitsOf(32))
      BY <3>1 DEF TextInv
    <3>3. answer' = {<<t, Decode(t)>> : t \in Variants(Encode(input))}
      BY <3>1 DEF Base64Text, Solve
    <3>4. <<Encode(input), input>> \in answer'
      BY <3>2, <3>3, VariantsAre, DecodingIsExact
    <3>5. Len(Encode(input)) = Base64Len(4 * Len(input))
      BY <3>2, TextIs
    <3>6. ASSUME NEW p \in answer', p[2] # Failure
          PROVE  Symbols(Encode(p[2])) = Symbols(p[1])
      <4>1. PICK t \in Variants(Encode(input)) : p = <<t, Decode(t)>>
        BY <3>3
      <4>2. t \in Seq(Chars)
        BY <3>2, VariantsAre
      <4>3. p[1] = t /\ p[2] = Decode(t)
        BY <4>1
      <4> QED
        BY <3>6, <4>2, <4>3, DecodingIsExact
    <3> QED
      BY <3>1, <3>2, <3>4, <3>5, <3>6 DEF Base64IsCanonical
  <2>2. CASE UNCHANGED vars
    BY <2>2 DEF vars, TextInv, Base64IsCanonical, Done
  <2> QED
    BY <2>1, <2>2
<1>3. TextInv => Base64IsCanonical
  BY DEF TextInv, Base64IsCanonical, Done
<1> QED
  BY <1>1, <1>2, <1>3, PTL DEF TaskSpec

-----------------------------------------------------------------------------
\* The last of the numbers in hits below k, or -1.
LastIn(hits, k) == Max({-1} \cup {h \in hits : h < k})

\* It is what its name says.
LEMMA LastInIs ==
    ASSUME NEW hits \in SUBSET Nat, NEW k \in Nat
    PROVE  /\ LastIn(hits, k) \in -1 .. k - 1
           /\ LastIn(hits, k) = -1 \/ LastIn(hits, k) \in hits
           /\ \A h \in hits : h < k => h <= LastIn(hits, k)
<1> DEFINE S == {-1} \cup {h \in hits : h < k}
           L == Max(S)
<1>0. \A h \in hits : h \in Nat
  OBVIOUS
<1>1. (\A h \in S : h \in -1 .. k - 1) /\ -1 \in S
  <2>1. -1 \in -1 .. k - 1
    OBVIOUS
  <2>2. \A h \in hits : h < k => h \in -1 .. k - 1
    BY <1>0
  <2> QED
    BY <2>1, <2>2
<1> HIDE DEF S
<1>2. PICK m \in -1 .. k - 1 : m \in S /\ \A j \in m + 1 .. k - 1 : j \notin S
  <2> DEFINE a == -1
             b == k - 1
  <2>1. a \in Int /\ b \in Int /\ \E j \in a .. b : j \in S
    BY <1>1
  <2> HIDE DEF a, b
  <2>2. \E m \in a .. b : m \in S /\ \A j \in m + 1 .. b : j \notin S
    BY <2>1, LastOne
  <2> QED
    BY <2>2 DEF a, b
<1>3. \A y \in S : m >= y
  BY <1>1, <1>2
<1>4. L \in S /\ \A y \in S : L >= y
  BY <1>2, <1>3 DEF Max
<1>5. LastIn(hits, k) = L
  BY DEF LastIn, S
<1> HIDE DEF L
<1> QED
  BY <1>1, <1>4, <1>5 DEF S

\* It is the only number that is.
LEMMA LastInOnly ==
    ASSUME NEW hits \in SUBSET Nat, NEW k \in Nat, NEW m \in -1 .. k - 1,
           m = -1 \/ m \in hits, \A h \in hits : h < k => h <= m
    PROVE  LastIn(hits, k) = m
BY LastInIs

-----------------------------------------------------------------------------
\* The table of gap_test goes on as the gaps do.
LEMMA TableGoesOn ==
    ASSUME NEW nbins \in Nat, NEW n \in Nat, NEW hits \in SUBSET (0 .. n - 1)
    PROVE  /\ AddValue(GapsBetween(hits, nbins, n), nbins, FALSE)
                = GapsBetween(hits, nbins, n + 1)
           /\ AddValue(GapsBetween(hits, nbins, n), nbins, TRUE)
                = GapsBetween(hits \cup {n}, nbins, n + 1)
<1> DEFINE Gap(H, k) == k - LastIn(H, k) - 1
           Many(H, k) == IF Gap(H, k) >= nbins THEN nbins ELSE Gap(H, k)
           In(H, b) == {k \in H : Many(H, k) = b}
           H2 == hits \cup {n}
<1>1. \A H, m : GapsBetween(H, nbins, m)
                    = [Oi |-> [b \in 0 .. nbins |-> Cardinality(In(H, b))],
                       gap_len |-> Gap(H, m), ngaps |-> Cardinality(H)]
  BY DEF GapsBetween, LastIn
<1>2. hits \in SUBSET Nat /\ H2 \in SUBSET Nat /\ n \notin hits
  OBVIOUS
<1>3. LastIn(hits, n + 1) = LastIn(hits, n)
  <2>0. \A h \in hits : h < n + 1 <=> h < n
    OBVIOUS
  <2>1. {h \in hits : h < n + 1} = {h \in hits : h < n}
    BY <2>0
  <2> QED
    BY <2>1 DEF LastIn
<1>4. LastIn(H2, n + 1) = n
  BY <1>2, LastInOnly
<1>5. \A k \in H2 : LastIn(H2, k) = LastIn(hits, k)
  <2> SUFFICES ASSUME NEW k \in H2 PROVE LastIn(H2, k) = LastIn(hits, k)
    OBVIOUS
  <2>1. {h \in H2 : h < k} = {h \in hits : h < k}
    OBVIOUS
  <2> HIDE DEF H2
  <2> QED
    BY <2>1 DEF LastIn
<1>6. LastIn(hits, n) \in -1 .. n - 1
  BY <1>2, LastInIs
<1>7. \A k \in H2 : Many(H2, k) = Many(hits, k)
  <2> HIDE DEF H2
  <2> QED
    BY <1>5
<1>8. IsFiniteSet(hits) /\ Cardinality(hits) \in Nat /\ IsFiniteSet(H2)
      /\ Cardinality(H2) = Cardinality(hits) + 1
  <2>1. IsFiniteSet(0 .. n - 1)
    BY FS_Interval
  <2>2. IsFiniteSet(hits)
    BY <2>1, FS_Subset
  <2> QED
    BY <1>2, <2>2, FS_AddElement, FS_CardinalityType
<1>9. Many(hits, n) = Bin(Gap(hits, n), nbins) /\ Many(hits, n) \in 0 .. nbins
  BY <1>6 DEF Bin
<1>10. \A b : In(H2, b) = IF b = Many(hits, n) THEN In(hits, b) \cup {n} ELSE In(hits, b)
  <2> SUFFICES ASSUME NEW b
               PROVE  In(H2, b) = IF b = Many(hits, n) THEN In(hits, b) \cup {n} ELSE In(hits, b)
    OBVIOUS
  <2>1. \A k \in H2 : k \in hits \/ k = n
    OBVIOUS
  <2>2. hits \subseteq H2 /\ n \in H2
    OBVIOUS
  <2> HIDE DEF H2, Many
  <2> QED
    BY <1>2, <1>7, <2>1, <2>2
<1>11. \A b : IsFiniteSet(In(hits, b)) /\ Cardinality(In(hits, b)) \in Nat
              /\ Cardinality(In(hits, b) \cup {n}) = Cardinality(In(hits, b)) + 1
  <2> SUFFICES ASSUME NEW b
               PROVE  IsFiniteSet(In(hits, b)) /\ Cardinality(In(hits, b)) \in Nat
                      /\ Cardinality(In(hits, b) \cup {n}) = Cardinality(In(hits, b)) + 1
    OBVIOUS
  <2>1. In(hits, b) \subseteq hits /\ n \notin In(hits, b)
    BY <1>2
  <2> HIDE DEF In
  <2> QED
    BY <1>8, <2>1, FS_Subset, FS_AddElement, FS_CardinalityType
<1> DEFINE t == GapsBetween(hits, nbins, n)
<1>12. /\ t.Oi = [b \in 0 .. nbins |-> Cardinality(In(hits, b))]
       /\ t.gap_len = Gap(hits, n) /\ t.ngaps = Cardinality(hits)
       /\ t = [Oi |-> t.Oi, gap_len |-> t.gap_len, ngaps |-> t.ngaps]
  <2> HIDE DEF Gap, In
  <2>1. t = [Oi |-> [b \in 0 .. nbins |-> Cardinality(In(hits, b))],
             gap_len |-> Gap(hits, n), ngaps |-> Cardinality(hits)]
    BY <1>1
  <2> HIDE DEF t
  <2> QED
    BY <2>1
<1>13. AddValue(t, nbins, FALSE) = GapsBetween(hits, nbins, n + 1)
  <2>1. Gap(hits, n + 1) = Gap(hits, n) + 1
    BY <1>3, <1>6
  <2> HIDE DEF t, Gap, In
  <2>2. AddValue(t, nbins, FALSE) = [t EXCEPT !.gap_len = @ + 1]
    BY DEF AddValue
  <2>3. [t EXCEPT !.gap_len = @ + 1] = [Oi |-> t.Oi, gap_len |-> t.gap_len + 1, ngaps |-> t.ngaps]
    BY <1>12
  <2>4. GapsBetween(hits, nbins, n + 1)
            = [Oi |-> [b \in 0 .. nbins |-> Cardinality(In(hits, b))],
               gap_len |-> Gap(hits, n + 1), ngaps |-> Cardinality(hits)]
    BY <1>1
  <2> QED
    BY <1>12, <2>1, <2>2, <2>3, <2>4
<1>14. AddValue(t, nbins, TRUE) = GapsBetween(H2, nbins, n + 1)
  <2>1. Gap(H2, n + 1) = 0
    BY <1>4
  <2>2. Bin(t.gap_len, nbins) = Many(hits, n)
    BY <1>9, <1>12
  <2> HIDE DEF t, Gap, H2
  <2>3. AddValue(t, nbins, TRUE) = [Oi |-> [t.Oi EXCEPT ![Many(hits, n)] = @ + 1],
                                    gap_len |-> 0, ngaps |-> t.ngaps + 1]
    BY <2>2 DEF AddValue
  <2>4. [t.Oi EXCEPT ![Many(hits, n)] = @ + 1] = [b \in 0 .. nbins |-> Cardinality(In(H2, b))]
    <3> HIDE DEF In, Many
    <3>1. \A b \in 0 .. nbins : Cardinality(In(H2, b)) = IF b = Many(hits, n) THEN Cardinality(In(hits, b)) + 1
                                                 ELSE Cardinality(In(hits, b))
      BY <1>10, <1>11
    <3> QED
      BY <1>9, <1>12, <3>1
  <2> HIDE DEF In, Many
  <2>5. GapsBetween(H2, nbins, n + 1)
            = [Oi |-> [b \in 0 .. nbins |-> Cardinality(In(H2, b))],
               gap_len |-> Gap(H2, n + 1), ngaps |-> Cardinality(H2)]
    BY <1>1
  <2> QED
    BY <1>8, <1>12, <2>1, <2>3, <2>4, <2>5
<1> QED
  BY <1>13, <1>14

-----------------------------------------------------------------------------
\* The table of the first n outputs, when f says which of them hit.
HitsOf(f, n) == {k \in 0 .. n - 1 : f[k]}
TableOf(f, nbins, n) == GapsBetween(HitsOf(f, n), nbins, n)

\* One output more is one step of a table.
LEMMA TableStep ==
    ASSUME NEW nbins \in Nat, NEW n \in Nat, NEW f \in [Nat -> BOOLEAN]
    PROVE  AddValue(TableOf(f, nbins, n), nbins, f[n]) = TableOf(f, nbins, n + 1)
<1>1. HitsOf(f, n) \in SUBSET (0 .. n - 1)
  BY DEF HitsOf
<1>2. HitsOf(f, n + 1) = IF f[n] THEN HitsOf(f, n) \cup {n} ELSE HitsOf(f, n)
  BY DEF HitsOf
<1>3. f[n] \in BOOLEAN
  OBVIOUS
<1> DEFINE H == HitsOf(f, n)
<1>6. /\ AddValue(GapsBetween(H, nbins, n), nbins, FALSE) = GapsBetween(H, nbins, n + 1)
      /\ AddValue(GapsBetween(H, nbins, n), nbins, TRUE) = GapsBetween(H \cup {n}, nbins, n + 1)
  BY <1>1, TableGoesOn
<1>7. \A m : TableOf(f, nbins, m) = GapsBetween(HitsOf(f, m), nbins, m)
  BY DEF TableOf
<1> HIDE DEF H
<1>4. CASE f[n] = TRUE
  <2>1. AddValue(TableOf(f, nbins, n), nbins, f[n]) = AddValue(TableOf(f, nbins, n), nbins, TRUE)
    BY <1>4
  <2>2. HitsOf(f, n + 1) = HitsOf(f, n) \cup {n}
    BY <1>2, <1>4
  <2>3. AddValue(TableOf(f, nbins, n), nbins, TRUE) = TableOf(f, nbins, n + 1)
    BY <1>6, <1>7, <2>2 DEF H
  <2> QED
    BY <2>1, <2>3
<1>5. CASE f[n] = FALSE
  <2>1. AddValue(TableOf(f, nbins, n), nbins, f[n]) = AddValue(TableOf(f, nbins, n), nbins, FALSE)
    BY <1>5
  <2>2. HitsOf(f, n + 1) = HitsOf(f, n)
    BY <1>2, <1>5
  <2>3. AddValue(TableOf(f, nbins, n), nbins, FALSE) = TableOf(f, nbins, n + 1)
    BY <1>6, <1>7, <2>2 DEF H
  <2> QED
    BY <2>1, <2>3
<1> QED
  BY <1>3, <1>4, <1>5

\* The numbers in a table, and that it begins empty.
LEMMA TableNumbers ==
    ASSUME NEW nbins \in Nat, NEW n \in Nat, NEW f \in [Nat -> BOOLEAN]
    PROVE  /\ TableOf(f, nbins, n).gap_len \in Nat
           /\ TableOf(f, nbins, n).ngaps \in Nat
           /\ TableOf(f, nbins, 0) = GapFreqTable(nbins)
<1> DEFINE H == HitsOf(f, n)
<1>1. H \in SUBSET (0 .. n - 1) /\ H \in SUBSET Nat
  BY DEF HitsOf
<1>2. IsFiniteSet(H) /\ Cardinality(H) \in Nat
  <2>1. IsFiniteSet(0 .. n - 1)
    BY FS_Interval
  <2> QED
    BY <1>1, <2>1, FS_Subset, FS_CardinalityType
<1>3. LastIn(H, n) \in -1 .. n - 1
  BY <1>1, LastInIs
<1>4. TableOf(f, nbins, n).gap_len = n - LastIn(H, n) - 1
      /\ TableOf(f, nbins, n).ngaps = Cardinality(H)
  BY DEF TableOf, GapsBetween, LastIn
<1>5. TableOf(f, nbins, 0) = GapFreqTable(nbins)
  <2>1. HitsOf(f, 0) = {}
    BY DEF HitsOf
  <2>2. {} \in SUBSET Nat /\ 0 \in Nat /\ -1 \in -1 .. 0 - 1
    OBVIOUS
  <2>3. LastIn({}, 0) = -1
    BY <2>2, LastInOnly
  <2>4. TableOf(f, nbins, 0) = [Oi |-> [b \in 0 .. nbins |-> 0], gap_len |-> 0 - LastIn({}, 0) - 1, ngaps |-> 0]
    BY <2>1, FS_EmptySet DEF TableOf, GapsBetween, LastIn
  <2> QED
    BY <2>3, <2>4 DEF GapFreqTable
<1> QED
  BY <1>2, <1>3, <1>4, <1>5

\* As long as no gap is too long, the gaps take most of the outputs.
LEMMA GapsTakeOutputs ==
    ASSUME NEW nbins \in Nat, NEW most \in Nat \ {0}, NEW f \in [Nat -> BOOLEAN],
           NEW n \in Nat, \A m \in 1 .. n : TableOf(f, nbins, m).gap_len < most
    PROVE  n <= TableOf(f, nbins, n).ngaps * most + TableOf(f, nbins, n).gap_len
<1> DEFINE Since(m) == TableOf(f, nbins, m).gap_len
           Many(m) == TableOf(f, nbins, m).ngaps
           S == {m \in Nat : m <= n => m <= Many(m) * most + Since(m)}
<1>1. \A m \in Nat : Since(m) \in Nat /\ Many(m) \in Nat
  BY TableNumbers
<1>2. Since(0) = 0 /\ Many(0) = 0
  BY TableNumbers DEF GapFreqTable
<1>3. \A m \in Nat : IF f[m] THEN Since(m + 1) = 0 /\ Many(m + 1) = Many(m) + 1
                     ELSE Since(m + 1) = Since(m) + 1 /\ Many(m + 1) = Many(m)
  <2> SUFFICES ASSUME NEW m \in Nat
               PROVE  IF f[m] THEN Since(m + 1) = 0 /\ Many(m + 1) = Many(m) + 1
                      ELSE Since(m + 1) = Since(m) + 1 /\ Many(m + 1) = Many(m)
    OBVIOUS
  <2> DEFINE t == TableOf(f, nbins, m)
  <2>1. TableOf(f, nbins, m + 1) = AddValue(t, nbins, f[m])
    BY TableStep
  <2>2. DOMAIN t = {"Oi", "gap_len", "ngaps"}
    BY DEF TableOf, GapsBetween
  <2> HIDE DEF t
  <2>3. AddValue(t, nbins, f[m]).gap_len = IF f[m] THEN 0 ELSE t.gap_len + 1
    BY <2>2 DEF AddValue
  <2>4. AddValue(t, nbins, f[m]).ngaps = IF f[m] THEN t.ngaps + 1 ELSE t.ngaps
    BY <2>2 DEF AddValue
  <2> QED
    BY <2>1, <2>3, <2>4 DEF t
<1>4. \A m \in 1 .. n : Since(m) < most
  OBVIOUS
<1> HIDE DEF Since, Many
<1>5. 0 \in S
  BY <1>2
<1>6. ASSUME NEW m \in S PROVE m + 1 \in S
  <2> SUFFICES ASSUME m + 1 <= n PROVE m + 1 <= Many(m + 1) * most + Since(m + 1)
    OBVIOUS
  <2>1. m \in Nat /\ m <= Many(m) * most + Since(m) /\ Since(m) < most
    BY <1>2, <1>4
  <2>2. (Many(m) + 1) * most = Many(m) * most + most /\ Many(m) * most \in Nat
    BY <1>1, <2>1
  <2> DEFINE p == Many(m) * most
  <2>3. p \in Nat /\ Since(m) \in Nat /\ m <= p + Since(m) /\ (Many(m) + 1) * most = p + most
    BY <1>1, <2>1, <2>2
  <2> HIDE DEF p
  <2>4. CASE f[m]
    <3>1. Since(m + 1) = 0 /\ Many(m + 1) * most = p + most
      BY <1>3, <2>1, <2>3, <2>4
    <3> QED
      BY <2>1, <2>3, <3>1
  <2>5. CASE ~f[m]
    <3>1. Since(m + 1) = Since(m) + 1 /\ Many(m + 1) * most = p
      BY <1>3, <2>1, <2>5 DEF p
    <3> QED
      BY <2>1, <2>3, <3>1
  <2> QED
    BY <2>4, <2>5
<1> HIDE DEF S
<1>7. S = Nat
  BY <1>5, <1>6, NatInduct DEF S
<1> QED
  BY <1>7 DEF S, Since, Many

\* So that after so many outputs there are enough gaps, or one is too long.
LEMMA GapLoopEnds ==
    ASSUME NEW nbins \in Nat, NEW most \in Nat \ {0}, NEW f \in [Nat -> BOOLEAN],
           NEW many \in Nat, \A m \in 1 .. many * most : TableOf(f, nbins, m).gap_len < most
    PROVE  TableOf(f, nbins, many * most).ngaps >= many
<1> DEFINE n == many * most
           t == TableOf(f, nbins, n)
<1>1. n \in Nat
  OBVIOUS
<1>2. t.gap_len \in Nat /\ t.ngaps \in Nat
  BY <1>1, TableNumbers
<1>3. n <= t.ngaps * most + t.gap_len
  BY <1>1, GapsTakeOutputs
<1>4. t.gap_len < most
  <2>1. CASE n = 0
    BY <2>1, TableNumbers DEF GapFreqTable
  <2>2. CASE n # 0
    BY <1>1, <2>2
  <2> QED
    BY <2>1, <2>2
<1> SUFFICES ASSUME t.ngaps + 1 <= many PROVE FALSE
  BY <1>2
<1>5. PICK d \in Nat : many = t.ngaps + 1 + d
  <2>1. many - (t.ngaps + 1) \in Nat
    BY <1>2
  <2> QED
    BY <1>2, <2>1
<1>6. n = t.ngaps * most + most + d * most /\ d * most \in Nat /\ t.ngaps * most \in Nat
  <2> DEFINE g == t.ngaps
  <2>1. g \in Nat /\ many = g + 1 + d
    BY <1>2, <1>5
  <2> HIDE DEF g, t
  <2>2. (g + 1 + d) * most = g * most + most + d * most /\ d * most \in Nat /\ g * most \in Nat
    BY <2>1
  <2> QED
    BY <2>1, <2>2 DEF g
<1> HIDE DEF t, n
<1> QED
  BY <1>1, <1>2, <1>3, <1>4, <1>6

-----------------------------------------------------------------------------
\* Which outputs hit, with the options o: gap_test, of either end.
HighHits(o, s) == [k \in Nat |-> HitsHigh(o, At(s, k))]
LowHits(o, s)  == [k \in Nat |-> HitsLow(o, At(s, k))]

BothTables(o, s, n) ==
    [hi |-> TableOf(HighHits(o, s), o.nbins, n), lo |-> TableOf(LowHits(o, s), o.nbins, n)]

\* The loop of gap_test has these tables.
LEMMA GapTablesAre ==
    ASSUME NEW o, o.nbins \in Nat, GapLoopBound(o) \in Nat, NEW s
    PROVE  \A n \in 0 .. GapLoopBound(o) : GapTables(o, s)[n] = BothTables(o, s, n)
<1> DEFINE B == GapLoopBound(o)
           X(n) == BothTables(o, s, n)
           start == [hi |-> GapFreqTable(o.nbins), lo |-> GapFreqTable(o.nbins)]
           Next(t, u) == [hi |-> AddValue(t.hi, o.nbins, HitsHigh(o, u)),
                          lo |-> AddValue(t.lo, o.nbins, HitsLow(o, u))]
           Is(g) == g = [n \in 0 .. B |-> IF n = 0 THEN start ELSE Next(g[n - 1], At(s, n - 1))]
           after == CHOOSE g : Is(g)
           g0 == [n \in 0 .. B |-> X(n)]
           J == {<<X(n), n>> : n \in 0 .. B}
<1>1. GapTables(o, s) = after
  <2>1. after = CHOOSE g : g = [n \in 0 .. B |->
                 IF n = 0 THEN start
                 ELSE [hi |-> AddValue(g[n - 1].hi, o.nbins, HitsHigh(o, At(s, n - 1))),
                       lo |-> AddValue(g[n - 1].lo, o.nbins, HitsLow(o, At(s, n - 1)))]]
    OBVIOUS
  <2> HIDE DEF after
  <2> QED
    BY <2>1 DEF GapTables
<1>2. HighHits(o, s) \in [Nat -> BOOLEAN] /\ LowHits(o, s) \in [Nat -> BOOLEAN]
  BY DEF HighHits, LowHits, HitsHigh, HitsLow
<1>3. \A n \in Nat : X(n + 1) = Next(X(n), At(s, n))
  <2> SUFFICES ASSUME NEW n \in Nat PROVE X(n + 1) = Next(X(n), At(s, n))
    OBVIOUS
  <2>1. HighHits(o, s)[n] = HitsHigh(o, At(s, n)) /\ LowHits(o, s)[n] = HitsLow(o, At(s, n))
    BY DEF HighHits, LowHits
  <2>2. AddValue(TableOf(HighHits(o, s), o.nbins, n), o.nbins, HighHits(o, s)[n])
            = TableOf(HighHits(o, s), o.nbins, n + 1)
    BY <1>2, TableStep
  <2>3. AddValue(TableOf(LowHits(o, s), o.nbins, n), o.nbins, LowHits(o, s)[n])
            = TableOf(LowHits(o, s), o.nbins, n + 1)
    BY <1>2, TableStep
  <2>4. X(n).hi = TableOf(HighHits(o, s), o.nbins, n) /\ X(n).lo = TableOf(LowHits(o, s), o.nbins, n)
    BY DEF BothTables
  <2> HIDE DEF X
  <2>5. Next(X(n), At(s, n)) = [hi |-> TableOf(HighHits(o, s), o.nbins, n + 1),
                                lo |-> TableOf(LowHits(o, s), o.nbins, n + 1)]
    BY <2>1, <2>2, <2>3, <2>4
  <2> QED
    BY <2>5 DEF X, BothTables
<1>4. X(0) = start
  BY <1>2, TableNumbers DEF BothTables
<1> HIDE DEF X, start, Next
<1>5. \A n \in 1 .. B : X(n) = Next(X(n - 1), At(s, n - 1))
  <2> SUFFICES ASSUME NEW n \in 1 .. B PROVE X(n) = Next(X(n - 1), At(s, n - 1))
    OBVIOUS
  <2>1. n - 1 \in Nat /\ (n - 1) + 1 = n
    OBVIOUS
  <2> QED
    BY <1>3, <2>1
<1>6. Is(g0)
  <2>1. \A n \in 0 .. B : g0[n] = IF n = 0 THEN start ELSE Next(g0[n - 1], At(s, n - 1))
    BY <1>4, <1>5
  <2>2. g0 = [n \in 0 .. B |-> g0[n]]
    OBVIOUS
  <2> HIDE DEF g0
  <2> QED
    BY <2>1, <2>2
<1>7. Is(after)
  <2> HIDE DEF Is
  <2> QED
    BY <1>6
<1> HIDE DEF after
<1>8. after[0] = X(0) /\ \A n \in 1 .. B : after[n] = Next(after[n - 1], At(s, n - 1))
  BY <1>4, <1>7
<1> HIDE DEF Is, g0
<1> DEFINE S == {n \in Nat : n <= B => after[n] = X(n)}
<1>9. 0 \in S
  BY <1>8
<1>10. ASSUME NEW n \in S PROVE n + 1 \in S
  <2> SUFFICES ASSUME n + 1 <= B PROVE after[n + 1] = X(n + 1)
    OBVIOUS
  <2>1. n + 1 \in 1 .. B /\ (n + 1) - 1 = n /\ n \in Nat /\ after[n] = X(n)
    OBVIOUS
  <2> QED
    BY <1>3, <1>8, <2>1
<1> HIDE DEF S
<1>11. S = Nat
  BY <1>9, <1>10, NatInduct DEF S
<1> QED
  BY <1>1, <1>11 DEF S, X

\* What the proofs need of the options.
GapOptions == [shl : Nat, nbins : Nat, max_gap_len : Nat \ {0}, ngaps : Nat \ {0}]

\* gap_test ends, with the tables of the outputs up to there, and no sooner
\* and no later than it should.
LEMMA GapTestIs ==
    ASSUME NEW o \in GapOptions, NEW s
    PROVE  LET r == GapTest(o, s)
               t(n) == BothTables(o, s, n)
           IN  /\ r.nvalues \in 1 .. GapLoopBound(o)
               /\ r.hi = t(r.nvalues).hi /\ r.lo = t(r.nvalues).lo
               /\ r.missed = Waits(o, t(r.nvalues))
               /\ Waits(o, t(r.nvalues)) \/ HasAll(o, t(r.nvalues))
               /\ \A n \in 1 .. r.nvalues - 1 : ~Waits(o, t(n)) /\ ~HasAll(o, t(n))
<1> DEFINE B == GapLoopBound(o)
           t(n) == BothTables(o, s, n)
           after == GapTables(o, s)
           Ends(n) == Waits(o, after[n]) \/ HasAll(o, after[n])
           First(n) == n \in 1 .. B /\ Ends(n) /\ \A m \in 1 .. n - 1 : ~Ends(m)
           nvalues == CHOOSE n \in 1 .. B : Ends(n) /\ \A m \in 1 .. n - 1 : ~Ends(m)
<1>1. /\ o.nbins \in Nat /\ o.max_gap_len \in Nat \ {0} /\ o.ngaps \in Nat \ {0}
  BY DEF GapOptions
<1>2. B \in Nat /\ B >= 1
  BY <1>1 DEF GapLoopBound
<1>3. \A n \in 0 .. B : after[n] = t(n)
  BY <1>1, <1>2, GapTablesAre
<1>4. \E n \in 1 .. B : Ends(n)
  <2> SUFFICES ASSUME \A n \in 1 .. B : ~Waits(o, t(n))
               PROVE  HasAll(o, t(B))
    BY <1>2, <1>3
  <2>1. \A f \in [Nat -> BOOLEAN], n \in Nat : TableOf(f, o.nbins, n).gap_len \in Nat
    BY <1>1, TableNumbers
  <2>2. HighHits(o, s) \in [Nat -> BOOLEAN] /\ LowHits(o, s) \in [Nat -> BOOLEAN]
    BY DEF HighHits, LowHits, HitsHigh, HitsLow
  <2>3. \A n : t(n).hi = TableOf(HighHits(o, s), o.nbins, n) /\ t(n).lo = TableOf(LowHits(o, s), o.nbins, n)
    BY DEF BothTables
  <2> HIDE DEF t
  <2>4. \A n \in 1 .. B : /\ TableOf(HighHits(o, s), o.nbins, n).gap_len < o.max_gap_len
                          /\ TableOf(LowHits(o, s), o.nbins, n).gap_len < o.max_gap_len
    <3> SUFFICES ASSUME NEW n \in 1 .. B
                 PROVE  /\ TableOf(HighHits(o, s), o.nbins, n).gap_len < o.max_gap_len
                        /\ TableOf(LowHits(o, s), o.nbins, n).gap_len < o.max_gap_len
      OBVIOUS
    <3>1. ~Waits(o, t(n)) /\ n \in Nat
      OBVIOUS
    <3> QED
      BY <1>1, <2>1, <2>2, <2>3, <3>1 DEF Waits
  <2>5. B = o.ngaps * o.max_gap_len
    BY DEF GapLoopBound
  <2>6. TableOf(HighHits(o, s), o.nbins, B).ngaps >= o.ngaps
    BY <1>1, <2>2, <2>4, <2>5, GapLoopEnds
  <2>7. TableOf(LowHits(o, s), o.nbins, B).ngaps >= o.ngaps
    BY <1>1, <2>2, <2>4, <2>5, GapLoopEnds
  <2> QED
    BY <2>3, <2>6, <2>7 DEF HasAll
<1>5. GapTest(o, s) = [nvalues |-> nvalues, hi |-> after[nvalues].hi, lo |-> after[nvalues].lo,
                       missed |-> Waits(o, after[nvalues])]
  BY DEF GapTest
<1> HIDE DEF after, t, B
<1>6. First(nvalues)
  <2> DEFINE E == {n \in 1 .. B : Ends(n)}
  <2>1. \E n \in 1 .. B : n \in E
    BY <1>4
  <2> HIDE DEF E
  <2>2. PICK n \in 1 .. B : n \in E /\ \A m \in 1 .. n - 1 : m \notin E
    BY <1>2, <2>1, FirstOne
  <2>3. n \in 1 .. B /\ Ends(n) /\ \A m \in 1 .. n - 1 : ~Ends(m)
    BY <1>2, <2>2 DEF E
  <2> HIDE DEF Ends
  <2> QED
    BY <2>3
<1> HIDE DEF nvalues
<1>7. nvalues \in 0 .. B /\ \A m \in 1 .. nvalues - 1 : m \in 0 .. B
  BY <1>2, <1>6
<1>8. /\ nvalues \in 1 .. B
      /\ Waits(o, t(nvalues)) \/ HasAll(o, t(nvalues))
      /\ \A n \in 1 .. nvalues - 1 : ~Waits(o, t(n)) /\ ~HasAll(o, t(n))
  BY <1>3, <1>6, <1>7
<1>9. GapTest(o, s) = [nvalues |-> nvalues, hi |-> t(nvalues).hi, lo |-> t(nvalues).lo,
                       missed |-> Waits(o, t(nvalues))]
  BY <1>3, <1>5, <1>7
<1> QED
  BY <1>8, <1>9 DEF t, B

\* What gap_test answers is exact, for every stream and all its options.
LEMMA GapsHold ==
    ASSUME input.o \in GapOptions, answer = GapTest(input.o, input.s)
    PROVE  GapsAreExact
<1> DEFINE o == input.o
           s == input.s
           t(n) == BothTables(o, s, n)
           n0 == answer.nvalues
           Hi(n) == GapsBetween({k \in 0 .. n - 1 : HitsHigh(o, At(s, k))}, o.nbins, n)
           Lo(n) == GapsBetween({k \in 0 .. n - 1 : HitsLow(o, At(s, k))}, o.nbins, n)
           TooLong(n) == \E x \in {Hi(n), Lo(n)} : x.gap_len >= o.max_gap_len
           Full(n) == \A x \in {Hi(n), Lo(n)} : x.ngaps >= o.ngaps
<1>1. \A n : t(n).hi = Hi(n) /\ t(n).lo = Lo(n)
  <2> SUFFICES ASSUME NEW n PROVE t(n).hi = Hi(n) /\ t(n).lo = Lo(n)
    OBVIOUS
  <2>1. HitsOf(HighHits(o, s), n) = {k \in 0 .. n - 1 : HitsHigh(o, At(s, k))}
    <3>1. \A k \in 0 .. n - 1 : HighHits(o, s)[k] = HitsHigh(o, At(s, k))
      BY DEF HighHits
    <3> QED
      BY <3>1 DEF HitsOf
  <2>2. HitsOf(LowHits(o, s), n) = {k \in 0 .. n - 1 : HitsLow(o, At(s, k))}
    <3>1. \A k \in 0 .. n - 1 : LowHits(o, s)[k] = HitsLow(o, At(s, k))
      BY DEF LowHits
    <3> QED
      BY <3>1 DEF HitsOf
  <2> QED
    BY <2>1, <2>2 DEF BothTables, TableOf
<1>2. /\ answer.hi = t(n0).hi /\ answer.lo = t(n0).lo
      /\ answer.missed = Waits(o, t(n0))
      /\ Waits(o, t(n0)) \/ HasAll(o, t(n0))
      /\ \A n \in 1 .. n0 - 1 : ~Waits(o, t(n)) /\ ~HasAll(o, t(n))
  BY GapTestIs
<1> HIDE DEF t, Hi, Lo
<1>3. \A n : Waits(o, t(n)) = TooLong(n) /\ HasAll(o, t(n)) = Full(n)
  BY <1>1 DEF Waits, HasAll
<1>4. /\ answer.hi = Hi(n0) /\ answer.lo = Lo(n0)
      /\ answer.missed = TooLong(n0)
      /\ TooLong(n0) \/ Full(n0)
      /\ \A n \in 1 .. n0 - 1 : ~TooLong(n) /\ ~Full(n)
  BY <1>1, <1>2, <1>3
<1> QED
  BY <1>4 DEF GapsAreExact, Hi, Lo

-----------------------------------------------------------------------------
\* The gaps of length g that end before n, when B says where they begin, and
\* their table, when I says in which of them something lies.
EndsAt(B, n, g) == {p \in 0 .. n - 1 : B[p] # None /\ p - B[p] - 1 = g}
Counted(B, I, nbins, n) ==
    [total |-> [g \in 0 .. nbins - 1 |-> Cardinality(EndsAt(B, n, g))],
     with0 |-> [g \in 0 .. nbins - 1 |-> Cardinality({p \in EndsAt(B, n, g) : I[p]})]]

\* CountGap counts the gap that ends at n.
LEMMA GapCounted ==
    ASSUME NEW B \in [Nat -> Int], NEW I \in [Nat -> BOOLEAN], NEW nbins \in Nat, NEW n \in Nat
    PROVE  /\ CountGap(Counted(B, I, nbins, n), nbins, n, B[n], I[n]) = Counted(B, I, nbins, n + 1)
           /\ Counted(B, I, nbins, 0) = GapArray(nbins)
<1> DEFINE E(m, g) == EndsAt(B, m, g)
           With(m, g) == {p \in E(m, g) : I[p]}
           gap == n - B[n] - 1
<1>1. Counted(B, I, nbins, 0) = GapArray(nbins)
  <2>1. \A g : E(0, g) = {} /\ With(0, g) = {}
    BY DEF EndsAt
  <2> QED
    BY <2>1, FS_EmptySet DEF Counted, GapArray
<1>2. \A g : E(n + 1, g) = IF B[n] # None /\ gap = g THEN E(n, g) \cup {n} ELSE E(n, g)
  <2>1. 0 .. (n + 1) - 1 = (0 .. n - 1) \cup {n}
    OBVIOUS
  <2> QED
    BY <2>1 DEF EndsAt
<1>3. \A g : n \notin E(n, g) /\ E(n, g) \subseteq 0 .. n - 1
  BY DEF EndsAt
<1>4. \A g : IsFiniteSet(E(n, g)) /\ IsFiniteSet(With(n, g))
             /\ Cardinality(E(n, g)) \in Nat /\ Cardinality(With(n, g)) \in Nat
             /\ Cardinality(E(n, g) \cup {n}) = Cardinality(E(n, g)) + 1
             /\ Cardinality(With(n, g) \cup {n}) = Cardinality(With(n, g)) + 1
  <2> SUFFICES ASSUME NEW g
               PROVE  IsFiniteSet(E(n, g)) /\ IsFiniteSet(With(n, g))
                      /\ Cardinality(E(n, g)) \in Nat /\ Cardinality(With(n, g)) \in Nat
                      /\ Cardinality(E(n, g) \cup {n}) = Cardinality(E(n, g)) + 1
                      /\ Cardinality(With(n, g) \cup {n}) = Cardinality(With(n, g)) + 1
    OBVIOUS
  <2>1. IsFiniteSet(0 .. n - 1)
    BY FS_Interval
  <2>2. n \notin E(n, g) /\ n \notin With(n, g) /\ E(n, g) \subseteq 0 .. n - 1
        /\ With(n, g) \subseteq 0 .. n - 1
    BY <1>3
  <2> HIDE DEF E, With
  <2>3. IsFiniteSet(E(n, g)) /\ IsFiniteSet(With(n, g))
    BY <2>1, <2>2, FS_Subset
  <2> QED
    BY <2>2, <2>3, FS_AddElement, FS_CardinalityType
<1>5. \A g : With(n + 1, g) = IF B[n] # None /\ gap = g /\ I[n] THEN With(n, g) \cup {n} ELSE With(n, g)
  <2> SUFFICES ASSUME NEW g
               PROVE  With(n + 1, g) = IF B[n] # None /\ gap = g /\ I[n] THEN With(n, g) \cup {n}
                                       ELSE With(n, g)
    OBVIOUS
  <2> HIDE DEF E, gap
  <2>1. CASE B[n] # None /\ gap = g
    <3>1. E(n + 1, g) = E(n, g) \cup {n}
      BY <1>2, <2>1
    <3>2. CASE I[n]
      BY <2>1, <3>1, <3>2
    <3>3. CASE ~I[n]
      BY <2>1, <3>1, <3>3
    <3> QED
      BY <3>2, <3>3
  <2>2. CASE ~(B[n] # None /\ gap = g)
    <3>1. E(n + 1, g) = E(n, g)
      BY <1>2, <2>2
    <3>2. With(n + 1, g) = With(n, g)
      BY <3>1
    <3> HIDE DEF With
    <3> QED
      BY <2>2, <3>2
  <2> QED
    BY <2>1, <2>2
<1> DEFINE c == Counted(B, I, nbins, n)
<1>6. \A m : Counted(B, I, nbins, m) = [total |-> [g \in 0 .. nbins - 1 |-> Cardinality(E(m, g))],
                                        with0 |-> [g \in 0 .. nbins - 1 |-> Cardinality(With(m, g))]]
  BY DEF Counted
<1> HIDE DEF E, With
<1>7. CountGap(c, nbins, n, B[n], I[n]) = Counted(B, I, nbins, n + 1)
  <2>0. B[n] \in Int /\ I[n] \in BOOLEAN
    OBVIOUS
  <2>1. CASE B[n] = None \/ gap < 0 \/ gap >= nbins
    <3>1. CountGap(c, nbins, n, B[n], I[n]) = c
      BY <2>1 DEF CountGap
    <3>2. \A g \in 0 .. nbins - 1 : E(n + 1, g) = E(n, g) /\ With(n + 1, g) = With(n, g)
      <4> SUFFICES ASSUME NEW g \in 0 .. nbins - 1
                   PROVE  E(n + 1, g) = E(n, g) /\ With(n + 1, g) = With(n, g)
        OBVIOUS
      <4>1. ~(B[n] # None /\ gap = g)
        BY <2>0, <2>1
      <4> HIDE DEF gap
      <4> QED
        BY <1>2, <1>5, <4>1
    <3> HIDE DEF gap
    <3> QED
      BY <1>6, <3>1, <3>2
  <2>2. CASE ~(B[n] = None \/ gap < 0 \/ gap >= nbins)
    <3>0. gap \in 0 .. nbins - 1 /\ B[n] # None
      BY <2>0, <2>2
    <3>1. CountGap(c, nbins, n, B[n], I[n])
            = [total |-> [c.total EXCEPT ![gap] = @ + 1],
               with0 |-> [c.with0 EXCEPT ![gap] = @ + IF I[n] THEN 1 ELSE 0]]
      BY <2>2 DEF CountGap
    <3>2. c.total = [g \in 0 .. nbins - 1 |-> Cardinality(E(n, g))]
          /\ c.with0 = [g \in 0 .. nbins - 1 |-> Cardinality(With(n, g))]
      BY <1>6
    <3> HIDE DEF c, gap
    <3>3. [c.total EXCEPT ![gap] = @ + 1] = [g \in 0 .. nbins - 1 |-> Cardinality(E(n + 1, g))]
      <4>1. \A g \in 0 .. nbins - 1 : Cardinality(E(n + 1, g)) = IF g = gap THEN Cardinality(E(n, g)) + 1
                                                                 ELSE Cardinality(E(n, g))
        BY <1>2, <1>4, <3>0
      <4> QED
        BY <3>0, <3>2, <4>1
    <3> DEFINE d == IF I[n] THEN 1 ELSE 0
    <3>4. [c.with0 EXCEPT ![gap] = @ + d] = [g \in 0 .. nbins - 1 |-> Cardinality(With(n + 1, g))]
      <4>1. \A g \in 0 .. nbins - 1 : Cardinality(With(n, g)) \in Nat
        BY <1>4
      <4>2. \A g \in 0 .. nbins - 1 : Cardinality(With(n + 1, g)) = IF g = gap THEN Cardinality(With(n, g)) + d
                                                                    ELSE Cardinality(With(n, g))
        <5>1. CASE I[n]
          BY <1>4, <1>5, <3>0, <5>1
        <5>2. CASE ~I[n]
          <6>1. \A g \in 0 .. nbins - 1 : With(n + 1, g) = With(n, g)
            BY <1>5, <5>2
          <6>2. d = 0
            BY <5>2
          <6> QED
            BY <4>1, <6>1, <6>2
        <5> QED
          BY <5>1, <5>2
      <4> HIDE DEF d
      <4> QED
        BY <3>0, <3>2, <4>2
    <3>5. CountGap(c, nbins, n, B[n], I[n]) = [total |-> [c.total EXCEPT ![gap] = @ + 1],
                                               with0 |-> [c.with0 EXCEPT ![gap] = @ + d]]
      BY <3>1, Zenon
    <3> HIDE DEF d
    <3>6. [total |-> [c.total EXCEPT ![gap] = @ + 1], with0 |-> [c.with0 EXCEPT ![gap] = @ + d]]
            = Counted(B, I, nbins, n + 1)
      <4> DEFINE x == [c.total EXCEPT ![gap] = @ + 1]
                 y == [c.with0 EXCEPT ![gap] = @ + d]
      <4>1. x = [g \in 0 .. nbins - 1 |-> Cardinality(E(n + 1, g))]
        BY <3>3
      <4>2. y = [g \in 0 .. nbins - 1 |-> Cardinality(With(n + 1, g))]
        BY <3>4
      <4> HIDE DEF x, y
      <4>3. [total |-> x, with0 |-> y] = Counted(B, I, nbins, n + 1)
        BY <1>6, <4>1, <4>2
      <4> QED
        BY <4>3 DEF x, y
    <3> QED
      BY <3>5, <3>6, Zenon
  <2> QED
    BY <2>1, <2>2
<1>8. CountGap(Counted(B, I, nbins, n), nbins, n, B[n], I[n]) = Counted(B, I, nbins, n + 1)
  BY <1>7
<1> QED
  BY <1>1, <1>8

-----------------------------------------------------------------------------
\* A word of a stream is a word.
LEMMA WordsAre ==
    ASSUME NEW s, IsStream(s), NEW p \in Nat
    PROVE  WordAt(s, p) \in Words
<1>1. OutBits \in Nat \ {0} /\ WordBits \in 1 .. OutBits /\ WordBits \in Nat
  BY GapTestsAssumption
<1>2. WordsPerNum \in Nat \ {0}
  <2>1. PICK q \in Nat, r \in 0 .. WordBits - 1 : OutBits = q * WordBits + r /\ OutBits \div WordBits = q
    BY <1>1, DivModOf
  <2>2. q # 0
    BY <1>1, <2>1
  <2> QED
    BY <2>1, <2>2 DEF WordsPerNum
<1>3. p \div WordsPerNum \in Nat /\ p % WordsPerNum \in Nat
  <2> DEFINE m == WordsPerNum
  <2>1. m \in Nat \ {0}
    BY <1>2
  <2> HIDE DEF m
  <2>2. \E q \in Nat, r \in 0 .. m - 1 : p = q * m + r /\ p \div m = q /\ p % m = r
    BY <2>1, DivModOf
  <2> QED
    BY <2>2 DEF m
<1> DEFINE L == Cardinality(DOMAIN s)
           k == p \div WordsPerNum
           e == p % WordsPerNum
<1>4. L \in Nat \ {0} /\ s \in [0 .. L - 1 -> Nat]
  BY DEF IsStream
<1> HIDE DEF L
<1>5. k % L \in 0 .. L - 1
  <2> HIDE DEF k
  <2>1. k \in Nat
    BY <1>3 DEF k
  <2> QED
    BY <1>4, <2>1
<1>6. At(s, k) \in Nat
  BY <1>4, <1>5 DEF At, L
<1>7. WordBits * e \in Nat
  BY <1>1, <1>3
<1> DEFINE a == At(s, k)
           d == 2^(WordBits * e)
           m == 2^WordBits
<1>8. a \in Nat /\ d \in Nat \ {0} /\ m \in Nat \ {0}
  BY <1>1, <1>6, <1>7, PowerOfTwo
<1> HIDE DEF a, d, m
<1>9. a \div d \in Nat
  BY <1>8
<1>10. (a \div d) % m \in 0 .. m - 1
  BY <1>8, <1>9
<1> QED
  BY <1>10 DEF WordAt, Words, a, d, m

\* The place of the last word w before p, or none.
Prev(s, w, p) == LastIn({q \in Nat : WordAt(s, q) = w}, p)

\* One word more.
LEMMA PrevNext ==
    ASSUME NEW s, NEW w, NEW p \in Nat
    PROVE  /\ Prev(s, w, p) \in -1 .. p - 1
           /\ Prev(s, w, p) # -1 => WordAt(s, Prev(s, w, p)) = w
           /\ \A q \in 0 .. p - 1 : WordAt(s, q) = w => q <= Prev(s, w, p)
           /\ Prev(s, w, p + 1) = IF WordAt(s, p) = w THEN p ELSE Prev(s, w, p)
           /\ Prev(s, w, 0) = None
<1> DEFINE H == {q \in Nat : WordAt(s, q) = w}
<1>1. H \in SUBSET Nat /\ p + 1 \in Nat /\ 0 \in Nat
  OBVIOUS
<1>2. \A q \in Nat : q \in H <=> WordAt(s, q) = w
  OBVIOUS
<1>3. \A m : Prev(s, w, m) = LastIn(H, m)
  BY DEF Prev
<1> HIDE DEF H
<1>4. /\ LastIn(H, p) \in -1 .. p - 1
      /\ LastIn(H, p) = -1 \/ LastIn(H, p) \in H
      /\ \A h \in H : h < p => h <= LastIn(H, p)
  BY <1>1, LastInIs
<1>5. LastIn(H, 0) = -1
  BY <1>1, LastInIs
<1>6. LastIn(H, p + 1) = IF p \in H THEN p ELSE LastIn(H, p)
  <2>1. CASE p \in H
    <3>1. p \in -1 .. (p + 1) - 1 /\ \A h \in H : h < p + 1 => h <= p
      BY <1>1
    <3> QED
      BY <1>1, <2>1, <3>1, LastInOnly
  <2>2. CASE p \notin H
    <3> DEFINE m == LastIn(H, p)
    <3>1. m \in -1 .. (p + 1) - 1 /\ (m = -1 \/ m \in H) /\ \A h \in H : h < p + 1 => h <= m
      BY <1>1, <1>4, <2>2
    <3> HIDE DEF m
    <3>2. LastIn(H, p + 1) = m
      BY <1>1, <3>1, LastInOnly
    <3> QED
      BY <2>2, <3>2 DEF m
  <2> QED
    BY <2>1, <2>2
<1> QED
  BY <1>1, <1>2, <1>3, <1>4, <1>5, <1>6 DEF None

(***************************************************************************)
(* Where the gaps begin that end at p, and what lies in them, as           *)
(* gap16_count0 finds it out.                                              *)
(***************************************************************************)
EqualBegins(s) == [p \in Nat |-> Prev(s, WordAt(s, p), p)]
ZeroBegins(s)  == [p \in Nat |-> Prev(s, 0, p + 1)]
ZeroInside(s)  == [p \in Nat |-> ZeroBegins(s)[p] # None /\ ZeroBegins(s)[p] > EqualBegins(s)[p]]
WordInside(s)  == [p \in Nat |-> EqualBegins(s)[p] # None /\ EqualBegins(s)[p] > ZeroBegins(s)[p]]

WordTables(nbins, s, n) ==
    [f     |-> Counted(EqualBegins(s), ZeroInside(s), nbins, n),
     rb    |-> Counted(ZeroBegins(s), WordInside(s), nbins, n),
     last0 |-> Prev(s, 0, n),
     lastw |-> [w \in Words |-> Prev(s, w, n)]]

\* gap16_count0 has these tables.
LEMMA Gap16Is ==
    ASSUME NEW nbins \in Nat, NEW ngaps \in Nat, NEW s, IsStream(s)
    PROVE  Gap16(nbins, s, ngaps) = [f  |-> WordTables(nbins, s, ngaps).f,
                                     rb |-> WordTables(nbins, s, ngaps).rb]
<1> DEFINE X(n) == WordTables(nbins, s, n)
           start == [f |-> GapArray(nbins), rb |-> GapArray(nbins), last0 |-> None,
                     lastw |-> [w \in Words |-> None]]
           Next(b, p) ==
              [f     |-> CountGap(b.f, nbins, p, b.lastw[WordAt(s, p)],
                                  /\ Last0(b.last0, WordAt(s, p), p) # None
                                  /\ Last0(b.last0, WordAt(s, p), p) > b.lastw[WordAt(s, p)]),
               rb    |-> CountGap(b.rb, nbins, p, Last0(b.last0, WordAt(s, p), p),
                                  /\ b.lastw[WordAt(s, p)] # None
                                  /\ b.lastw[WordAt(s, p)] > Last0(b.last0, WordAt(s, p), p)),
               last0 |-> Last0(b.last0, WordAt(s, p), p),
               lastw |-> [b.lastw EXCEPT ![WordAt(s, p)] = p]]
           Is(g) == g = [p \in 0 .. ngaps |-> IF p = 0 THEN start ELSE Next(g[p - 1], p - 1)]
           after == CHOOSE g : Is(g)
           g0 == [n \in 0 .. ngaps |-> X(n)]
<1>1. Gap16(nbins, s, ngaps) = [f |-> after[ngaps].f, rb |-> after[ngaps].rb]
  BY DEF Gap16
<1>2. \A n \in Nat : X(n + 1) = Next(X(n), n)
  <2> SUFFICES ASSUME NEW n \in Nat PROVE X(n + 1) = Next(X(n), n)
    OBVIOUS
  <2> DEFINE v == WordAt(s, n)
             B == EqualBegins(s)
             Z == ZeroBegins(s)
             I == ZeroInside(s)
             J == WordInside(s)
             b == X(n)
             z == Last0(b.last0, v, n)
  <2>1. v \in Words
    BY WordsAre
  <2>2. /\ B \in [Nat -> Int] /\ Z \in [Nat -> Int]
        /\ B[n] = Prev(s, v, n) /\ Z[n] = Prev(s, 0, n + 1)
    <3>1. \A w : \A p \in Nat : Prev(s, w, p) \in Int
      BY PrevNext
    <3> QED
      BY <3>1 DEF EqualBegins, ZeroBegins
  <2>3. /\ I \in [Nat -> BOOLEAN] /\ J \in [Nat -> BOOLEAN]
        /\ I[n] = (Z[n] # None /\ Z[n] > B[n]) /\ J[n] = (B[n] # None /\ B[n] > Z[n])
    BY DEF ZeroInside, WordInside
  <2>4. /\ b.f = Counted(B, I, nbins, n) /\ b.rb = Counted(Z, J, nbins, n)
        /\ b.last0 = Prev(s, 0, n) /\ b.lastw = [w \in Words |-> Prev(s, w, n)]
    BY DEF WordTables
  <2>5. b.lastw[v] = B[n]
    BY <2>1, <2>2, <2>4
  <2>6. z = Z[n]
    BY <2>2, <2>4, PrevNext DEF Last0
  <2>7. CountGap(Counted(B, I, nbins, n), nbins, n, B[n], I[n]) = Counted(B, I, nbins, n + 1)
    BY <2>2, <2>3, GapCounted
  <2>8. CountGap(Counted(Z, J, nbins, n), nbins, n, Z[n], J[n]) = Counted(Z, J, nbins, n + 1)
    BY <2>2, <2>3, GapCounted
  <2>9. [b.lastw EXCEPT ![v] = n] = [w \in Words |-> Prev(s, w, n + 1)]
    <3>1. \A w \in Words : Prev(s, w, n + 1) = IF w = v THEN n ELSE Prev(s, w, n)
      BY PrevNext
    <3> QED
      BY <2>1, <2>4, <3>1
  <2>10. Next(b, n) = [f     |-> CountGap(b.f, nbins, n, b.lastw[v], z # None /\ z > b.lastw[v]),
                       rb    |-> CountGap(b.rb, nbins, n, z, b.lastw[v] # None /\ b.lastw[v] > z),
                       last0 |-> z,
                       lastw |-> [b.lastw EXCEPT ![v] = n]]
    OBVIOUS
  <2>11. X(n + 1) = [f     |-> Counted(B, I, nbins, n + 1), rb |-> Counted(Z, J, nbins, n + 1),
                     last0 |-> Z[n], lastw |-> [w \in Words |-> Prev(s, w, n + 1)]]
    BY <2>2 DEF WordTables
  <2> HIDE DEF X, v, B, Z, I, J, b, z, Next
  <2>12. CountGap(b.f, nbins, n, b.lastw[v], z # None /\ z > b.lastw[v]) = Counted(B, I, nbins, n + 1)
    BY <2>3, <2>4, <2>5, <2>6, <2>7, Zenon
  <2>13. CountGap(b.rb, nbins, n, z, b.lastw[v] # None /\ b.lastw[v] > z) = Counted(Z, J, nbins, n + 1)
    BY <2>3, <2>4, <2>5, <2>6, <2>8, Zenon
  <2>14. Next(b, n) = X(n + 1)
    BY <2>6, <2>9, <2>10, <2>11, <2>12, <2>13, Zenon
  <2> QED
    BY <2>14 DEF b
<1>3. X(0) = start
  <2>1. EqualBegins(s) \in [Nat -> Int] /\ ZeroBegins(s) \in [Nat -> Int]
    <3>1. \A w : \A p \in Nat : Prev(s, w, p) \in Int
      BY PrevNext
    <3> QED
      BY <3>1 DEF EqualBegins, ZeroBegins
  <2>2. ZeroInside(s) \in [Nat -> BOOLEAN] /\ WordInside(s) \in [Nat -> BOOLEAN]
    BY DEF ZeroInside, WordInside
  <2>3. /\ Counted(EqualBegins(s), ZeroInside(s), nbins, 0) = GapArray(nbins)
        /\ Counted(ZeroBegins(s), WordInside(s), nbins, 0) = GapArray(nbins)
    BY <2>1, <2>2, 0 \in Nat, GapCounted
  <2>4. \A w : Prev(s, w, 0) = None
    BY PrevNext, 0 \in Nat
  <2> QED
    BY <2>3, <2>4 DEF WordTables
<1> HIDE DEF X, start, Next
<1>4. \A n \in 1 .. ngaps : X(n) = Next(X(n - 1), n - 1)
  <2> SUFFICES ASSUME NEW n \in 1 .. ngaps PROVE X(n) = Next(X(n - 1), n - 1)
    OBVIOUS
  <2>1. n - 1 \in Nat /\ (n - 1) + 1 = n
    OBVIOUS
  <2> QED
    BY <1>2, <2>1
<1>5. Is(g0)
  <2>1. \A n \in 0 .. ngaps : g0[n] = IF n = 0 THEN start ELSE Next(g0[n - 1], n - 1)
    BY <1>3, <1>4
  <2>2. g0 = [n \in 0 .. ngaps |-> g0[n]]
    OBVIOUS
  <2> HIDE DEF g0
  <2> QED
    BY <2>1, <2>2
<1>6. Is(after)
  <2> HIDE DEF Is
  <2> QED
    BY <1>5
<1> HIDE DEF after
<1>7. after[0] = X(0) /\ \A n \in 1 .. ngaps : after[n] = Next(after[n - 1], n - 1)
  BY <1>3, <1>6
<1> HIDE DEF Is, g0
<1> DEFINE S == {n \in Nat : n <= ngaps => after[n] = X(n)}
<1>8. 0 \in S
  BY <1>7
<1>9. ASSUME NEW n \in S PROVE n + 1 \in S
  <2> SUFFICES ASSUME n + 1 <= ngaps PROVE after[n + 1] = X(n + 1)
    OBVIOUS
  <2>1. n + 1 \in 1 .. ngaps /\ (n + 1) - 1 = n /\ n \in Nat /\ after[n] = X(n)
    OBVIOUS
  <2> QED
    BY <1>2, <1>7, <2>1
<1> HIDE DEF S
<1>10. S = Nat
  BY <1>8, <1>9, NatInduct DEF S
<1>11. after[ngaps] = X(ngaps)
  BY <1>10 DEF S
<1> QED
  BY <1>1, <1>11 DEF X

\* What gap16_count0 answers is exact, for every stream and all its options.
LEMMA WordGapsHold ==
    ASSUME input.o.nbins \in Nat, input.o.ngaps \in Nat, IsStream(input.s),
           answer = Gap16(input.o.nbins, input.s, input.o.ngaps)
    PROVE  Gap16IsExact
<1> DEFINE nbins == input.o.nbins
           n == input.o.ngaps
           s == input.s
           P == 0 .. n - 1
           W(p) == WordAt(s, p)
           Before(p, w) == Max({-1} \cup {q \in P : q < p /\ W(q) = w})
           Between(b, p, w) == \E q \in b + 1 .. p - 1 : W(q) = w
           Same(g) == {p \in P : Before(p, W(p)) # -1 /\ p - Before(p, W(p)) - 1 = g}
           From0(g) == {p \in P : W(p) # 0 /\ Before(p, 0) # -1 /\ p - Before(p, 0) - 1 = g}
           B == EqualBegins(s)
           Z == ZeroBegins(s)
           I == ZeroInside(s)
           J == WordInside(s)
<1>1. answer.f = Counted(B, I, nbins, n) /\ answer.rb = Counted(Z, J, nbins, n)
  BY Gap16Is DEF WordTables
<1>2. \A p \in P : \A w : Before(p, w) = Prev(s, w, p)
  <2> SUFFICES ASSUME NEW p \in P, NEW w PROVE Before(p, w) = Prev(s, w, p)
    OBVIOUS
  <2>1. {q \in P : q < p /\ W(q) = w} = {h \in {q \in Nat : WordAt(s, q) = w} : h < p}
    OBVIOUS
  <2> QED
    BY <2>1 DEF Prev, LastIn
<1>3. \A p \in P : /\ p \in Nat /\ B[p] = Prev(s, W(p), p) /\ Z[p] = Prev(s, 0, p + 1)
                   /\ I[p] = (Z[p] # None /\ Z[p] > B[p])
                   /\ J[p] = (B[p] # None /\ B[p] > Z[p])
  BY DEF EqualBegins, ZeroBegins, ZeroInside, WordInside
<1> HIDE DEF W, Before, B, Z, I, J
<1>4. \A p \in P : \A w : /\ Before(p, w) \in -1 .. p - 1
                          /\ Before(p, w) # -1 => W(Before(p, w)) = w
                          /\ \A q \in 0 .. p - 1 : W(q) = w => q <= Before(p, w)
  <2> SUFFICES ASSUME NEW p \in P, NEW w
               PROVE  /\ Before(p, w) \in -1 .. p - 1
                      /\ Before(p, w) # -1 => W(Before(p, w)) = w
                      /\ \A q \in 0 .. p - 1 : W(q) = w => q <= Before(p, w)
    OBVIOUS
  <2>1. p \in Nat /\ Before(p, w) = Prev(s, w, p)
    BY <1>2
  <2> QED
    BY <2>1, PrevNext DEF W
<1>5. \A p \in P : /\ B[p] = Before(p, W(p))
                   /\ Z[p] = IF W(p) = 0 THEN p ELSE Before(p, 0)
  <2> SUFFICES ASSUME NEW p \in P PROVE B[p] = Before(p, W(p)) /\ Z[p] = IF W(p) = 0 THEN p ELSE Before(p, 0)
    OBVIOUS
  <2>1. Prev(s, 0, p + 1) = IF WordAt(s, p) = 0 THEN p ELSE Prev(s, 0, p)
    BY <1>3, PrevNext
  <2> QED
    BY <1>2, <1>3, <2>1 DEF W
\* A last occurrence after b is an occurrence between b and p.
<1>6. \A p \in P : \A w : \A b \in -1 .. p - 1 :
            (Before(p, w) # -1 /\ Before(p, w) > b) <=> Between(b, p, w)
  <2> SUFFICES ASSUME NEW p \in P, NEW w, NEW b \in -1 .. p - 1
               PROVE  (Before(p, w) # -1 /\ Before(p, w) > b) <=> Between(b, p, w)
    OBVIOUS
  <2> DEFINE m == Before(p, w)
  <2>1. m \in -1 .. p - 1 /\ (m # -1 => W(m) = w) /\ \A q \in 0 .. p - 1 : W(q) = w => q <= m
    BY <1>4
  <2>2. b \in Int /\ p \in Nat
    OBVIOUS
  <2> HIDE DEF m
  <2>3. (m # -1 /\ m > b) <=> Between(b, p, w)
    <3>1. ASSUME m # -1, m > b PROVE Between(b, p, w)
      <4>1. m \in b + 1 .. p - 1
        BY <2>1, <2>2, <3>1
      <4> QED
        BY <2>1, <3>1, <4>1
    <3>2. ASSUME Between(b, p, w) PROVE m # -1 /\ m > b
      <4>1. PICK q \in b + 1 .. p - 1 : W(q) = w
        BY <3>2
      <4>2. q \in 0 .. p - 1
        BY <2>2
      <4>3. q <= m
        BY <2>1, <4>1, <4>2
      <4> QED
        BY <2>1, <2>2, <4>2, <4>3
    <3> HIDE DEF Between
    <3> QED
      BY <3>1, <3>2
  <2> QED
    BY <2>3 DEF m
<1> HIDE DEF Between
<1>7. \A g : EndsAt(B, n, g) = Same(g)
  BY <1>5 DEF EndsAt, None
<1>8. \A g \in 0 .. nbins - 1 : EndsAt(Z, n, g) = From0(g)
  <2> SUFFICES ASSUME NEW g \in 0 .. nbins - 1, NEW p \in P
               PROVE  Z[p] # None /\ p - Z[p] - 1 = g
                        <=> W(p) # 0 /\ Before(p, 0) # -1 /\ p - Before(p, 0) - 1 = g
    BY DEF EndsAt
  <2>1. CASE W(p) = 0
    <3>1. Z[p] = p /\ p \in Nat
      BY <1>5, <2>1
    <3> QED
      BY <2>1, <3>1
  <2>2. CASE W(p) # 0
    BY <1>5, <2>2 DEF None
  <2> QED
    BY <2>1, <2>2
<1>9. \A p \in P : B[p] # None => (I[p] <=> W(p) = 0 \/ Between(Before(p, W(p)), p, 0))
  <2> SUFFICES ASSUME NEW p \in P
               PROVE  I[p] <=> W(p) = 0 \/ Between(Before(p, W(p)), p, 0)
    OBVIOUS
  <2>1. B[p] = Before(p, W(p)) /\ Before(p, W(p)) \in -1 .. p - 1 /\ p \in Nat
    BY <1>4, <1>5
  <2>2. I[p] <=> Z[p] # -1 /\ Z[p] > B[p]
    BY <1>3 DEF None
  <2>3. CASE W(p) = 0
    <3>1. Z[p] = p
      BY <1>5, <2>3
    <3> QED
      BY <2>1, <2>2, <2>3, <3>1
  <2>4. CASE W(p) # 0
    <3>1. Z[p] = Before(p, 0)
      BY <1>5, <2>4
    <3>2. (Before(p, 0) # -1 /\ Before(p, 0) > Before(p, W(p))) <=> Between(Before(p, W(p)), p, 0)
      BY <1>6, <2>1
    <3> QED
      BY <2>1, <2>2, <2>4, <3>1, <3>2
  <2> QED
    BY <2>3, <2>4
<1>10. \A p \in P : W(p) # 0 => (J[p] <=> Between(Before(p, 0), p, W(p)))
  <2> SUFFICES ASSUME NEW p \in P, W(p) # 0
               PROVE  J[p] <=> Between(Before(p, 0), p, W(p))
    OBVIOUS
  <2>1. B[p] = Before(p, W(p)) /\ Z[p] = Before(p, 0) /\ Before(p, 0) \in -1 .. p - 1
    BY <1>4, <1>5
  <2>2. J[p] <=> B[p] # -1 /\ B[p] > Z[p]
    BY <1>3 DEF None
  <2>3. (Before(p, W(p)) # -1 /\ Before(p, W(p)) > Before(p, 0)) <=> Between(Before(p, 0), p, W(p))
    BY <1>6, <2>1
  <2> QED
    BY <2>1, <2>2, <2>3
<1>11. \A g : {p \in EndsAt(B, n, g) : I[p]}
              = {p \in Same(g) : W(p) = 0 \/ Between(Before(p, W(p)), p, 0)}
  <2> SUFFICES ASSUME NEW g
               PROVE  {p \in EndsAt(B, n, g) : I[p]}
                      = {p \in Same(g) : W(p) = 0 \/ Between(Before(p, W(p)), p, 0)}
    OBVIOUS
  <2>1. \A p \in EndsAt(B, n, g) : p \in P /\ B[p] # None
    BY DEF EndsAt
  <2>2. EndsAt(B, n, g) = Same(g)
    BY <1>7
  <2> HIDE DEF Same, P
  <2> QED
    BY <1>9, <2>1, <2>2
<1>12. \A g \in 0 .. nbins - 1 : {p \in EndsAt(Z, n, g) : J[p]}
                                 = {p \in From0(g) : Between(Before(p, 0), p, W(p))}
  <2> SUFFICES ASSUME NEW g \in 0 .. nbins - 1
               PROVE  {p \in EndsAt(Z, n, g) : J[p]} = {p \in From0(g) : Between(Before(p, 0), p, W(p))}
    OBVIOUS
  <2>1. \A p \in From0(g) : p \in P /\ W(p) # 0
    OBVIOUS
  <2>2. EndsAt(Z, n, g) = From0(g)
    BY <1>8
  <2> HIDE DEF From0, P
  <2> QED
    BY <1>10, <2>1, <2>2
<1> HIDE DEF Same, From0
<1>13. answer.f = [total |-> [g \in 0 .. nbins - 1 |-> Cardinality(Same(g))],
                   with0 |-> [g \in 0 .. nbins - 1 |->
                                Cardinality({p \in Same(g) : W(p) = 0 \/ Between(Before(p, W(p)), p, 0)})]]
  BY <1>1, <1>7, <1>11 DEF Counted
<1>14. answer.rb = [total |-> [g \in 0 .. nbins - 1 |-> Cardinality(From0(g))],
                    with0 |-> [g \in 0 .. nbins - 1 |->
                                Cardinality({p \in From0(g) : Between(Before(p, 0), p, W(p))})]]
  BY <1>1, <1>8, <1>12 DEF Counted
<1> QED
  BY <1>13, <1>14 DEF Gap16IsExact, Same, From0, Between, Before, W

(***************************************************************************)
(* The input and the answer of a task with a gap test.                     *)
(***************************************************************************)
GapInv ==
    /\ task = "gaps" => /\ input \in [o : GapSettings, s : GapStreams]
                        /\ answer # Unknown => answer = GapTest(input.o, input.s)
    /\ task = "gap16" => /\ input \in [o : WordGaps, s : GapStreams]
                         /\ answer # Unknown =>
                                answer = Gap16(input.o.nbins, input.s, input.o.ngaps)

(***************************************************************************)
(* The gap tests (coretests.c) count exactly the gaps that are there, for  *)
(* every stream, outputs of any width, and all their options; gap_test     *)
(* always ends, at the first output at which it may.                       *)
(***************************************************************************)
THEOREM GapsCounted == TaskSpec => []GapsAreCounted
<1>1. TaskInit => GapInv
  BY TaskStarts DEF GapInv
<1>2. GapInv /\ [TaskNext]_vars => GapInv'
  <2> SUFFICES ASSUME GapInv, [TaskNext]_vars PROVE GapInv'
    OBVIOUS
  <2>1. CASE TaskNext
    <3>1. task' = task /\ input' = input
      BY <2>1, StepOfTask
    <3>2. task = "gaps" => answer' = GapTest(input.o, input.s)
      BY <2>1, StepOfTask DEF Gaps, Solve
    <3>3. task = "gap16" => answer' = Gap16(input.o.nbins, input.s, input.o.ngaps)
      BY <2>1, StepOfTask DEF GapsOfWords, Solve
    <3> QED
      BY <3>1, <3>2, <3>3 DEF GapInv
  <2>2. CASE UNCHANGED vars
    BY <2>2 DEF vars, GapInv
  <2> QED
    BY <2>1, <2>2
<1>3. GapInv => GapsAreCounted
  <2> SUFFICES ASSUME GapInv PROVE GapsAreExact /\ Gap16IsExact
    BY DEF GapsAreCounted
  <2>1. CASE Done("gaps")
    <3>1. input \in [o : GapSettings, s : GapStreams] /\ answer = GapTest(input.o, input.s)
      BY <2>1 DEF GapInv, Done
    <3>2. input.o \in GapOptions
      BY <3>1, KernelTasksAssumption, GapTestsAssumption DEF GapOptions
    <3>3. GapsAreExact
      BY <3>1, <3>2, GapsHold
    <3>4. Gap16IsExact
      BY <2>1 DEF Gap16IsExact, Done
    <3> QED
      BY <3>3, <3>4
  <2>2. CASE Done("gap16")
    <3>1. /\ input \in [o : WordGaps, s : GapStreams]
          /\ answer = Gap16(input.o.nbins, input.s, input.o.ngaps)
      BY <2>2 DEF GapInv, Done
    <3>2. input.o.nbins \in Nat /\ input.o.ngaps \in Nat /\ IsStream(input.s)
      BY <3>1, KernelTasksAssumption
    <3>3. Gap16IsExact
      BY <3>1, <3>2, WordGapsHold
    <3>4. GapsAreExact
      BY <2>2 DEF GapsAreExact, Done
    <3> QED
      BY <3>3, <3>4
  <2>3. CASE ~Done("gaps") /\ ~Done("gap16")
    BY <2>3 DEF GapsAreExact, Gap16IsExact
  <2> QED
    BY <2>1, <2>2, <2>3
<1> QED
  BY <1>1, <1>2, <1>3, PTL DEF TaskSpec

=============================================================================
