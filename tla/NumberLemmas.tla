---------------------------- MODULE NumberLemmas ----------------------------
(***************************************************************************)
(* Facts about numbers and finite sets that the proofs share: quotient and *)
(* remainder, as the dispatcher uses them to deal tests out                *)
(* (src/src/core.c), the block counter of the seed generator to carry      *)
(* (src/src/entropy.c) and the buffers of the generators to be emptied;    *)
(* induction over the natural numbers; and the parity of a number of       *)
(* elements, which is what addition over GF(2) is about                    *)
(* (src/src/lineardep.c).                                                  *)
(***************************************************************************)
EXTENDS Integers, FiniteSets, FiniteSetTheorems, TLAPS

(***************************************************************************)
(* A number written as a multiple of N and a rest below N has these as its *)
(* quotient and remainder.                                                 *)
(***************************************************************************)
LEMMA DivModIs ==
    ASSUME NEW N \in Nat \ {0}, NEW q \in Nat, NEW r \in 0 .. N - 1
    PROVE  (q * N + r) \div N = q /\ (q * N + r) % N = r
OBVIOUS

\* Every number has a quotient and a remainder, and they are its only ones.
LEMMA DivModOf ==
    ASSUME NEW N \in Nat \ {0}, NEW a \in Nat
    PROVE  \E q \in Nat, r \in 0 .. N - 1 :
               a = q * N + r /\ a \div N = q /\ a % N = r
<1> DEFINE q == a \div N
           r == a - q * N
<1>1. q \in Nat
  OBVIOUS
<1>2. r \in 0 .. N - 1
  OBVIOUS
<1>3. a = q * N + r
  BY <1>1
<1> HIDE DEF q, r
<1>4. a \div N = q /\ a % N = r
  BY <1>1, <1>2, <1>3, DivModIs
<1>5. QED
  BY <1>1, <1>2, <1>3, <1>4

\* The remainder goes round by one, and the quotient counts the rounds.
LEMMA DivModNext ==
    ASSUME NEW N \in Nat \ {0}, NEW a \in Nat
    PROVE  /\ (a + 1) % N = IF a % N = N - 1 THEN 0 ELSE (a % N) + 1
           /\ (a + 1) \div N = IF a % N = N - 1 THEN a \div N + 1 ELSE a \div N
<1>1. PICK q \in Nat, r \in 0 .. N - 1 : a = q * N + r /\ a \div N = q /\ a % N = r
  BY DivModOf
<1>2. CASE r = N - 1
  <2>1. ((q + 1) * N + 0) \div N = q + 1 /\ ((q + 1) * N + 0) % N = 0
    BY q + 1 \in Nat, 0 \in 0 .. N - 1, DivModIs
  <2>2. a + 1 = (q + 1) * N + 0
    BY <1>1, <1>2
  <2>3. (a + 1) \div N = q + 1 /\ (a + 1) % N = 0
    BY <2>1, <2>2
  <2>4. QED
    BY <1>1, <1>2, <2>3
<1>3. CASE r # N - 1
  <2>1. a + 1 = q * N + (r + 1) /\ r + 1 \in 0 .. N - 1
    BY <1>1, <1>3
  <2>2. (a + 1) \div N = q /\ (a + 1) % N = r + 1
    BY <2>1, DivModIs
  <2>3. QED
    BY <1>1, <1>3, <2>2
<1>4. QED
  BY <1>2, <1>3

\* One round less.
LEMMA DivModMinus ==
    ASSUME NEW N \in Nat \ {0}, NEW a \in Nat, a >= N
    PROVE  (a - N) % N = a % N /\ (a - N) \div N = a \div N - 1
<1>1. PICK q \in Nat, r \in 0 .. N - 1 : a = q * N + r /\ a \div N = q /\ a % N = r
  BY DivModOf
<1>2. q # 0
  BY <1>1
<1>3. a - N = (q - 1) * N + r /\ q - 1 \in Nat
  BY <1>1, <1>2
<1>4. (a - N) \div N = q - 1 /\ (a - N) % N = r
  BY <1>3, DivModIs
<1>5. QED
  BY <1>1, <1>4

\* What is less than N is its own remainder.
LEMMA DivModSmall ==
    ASSUME NEW N \in Nat \ {0}, NEW r \in 0 .. N - 1
    PROVE  r % N = r /\ r \div N = 0
<1>1. (0 * N + r) % N = r /\ (0 * N + r) \div N = 0
  BY DivModIs
<1>2. 0 * N + r = r
  OBVIOUS
<1>3. QED
  BY <1>1, <1>2

\* The quotient and the remainder as predicates, for sums with products.
Leaves(a, N, q, r) == a % N = r /\ a \div N = q

\* A number written with a quotient and a remainder leaves them.
LEMMA DivModSum ==
    ASSUME NEW N \in Nat \ {0}, NEW q \in Nat, NEW r \in 0 .. N - 1, NEW a, a = q * N + r
    PROVE  Leaves(a, N, q, r)
BY DivModIs DEF Leaves

Splits(a, N) == \E q \in Nat, r \in 0 .. N - 1 : a = q * N + r /\ Leaves(a, N, q, r)

\* Every number can be written so.
LEMMA DivModSplits ==
    ASSUME NEW N \in Nat \ {0}, NEW a \in Nat
    PROVE  Splits(a, N)
BY DivModOf DEF Splits, Leaves

\* The remainder of the next number follows from the remainder.
LEMMA NextOfMod ==
    ASSUME NEW N \in Nat \ {0}, NEW a \in Nat
    PROVE  ((a % N) + 1) % N = (a + 1) % N
<1>1. PICK q \in Nat, r \in 0 .. N - 1 : a = q * N + r /\ a % N = r
  BY DivModOf
<1>2. (r + 1) % N = IF r % N = N - 1 THEN 0 ELSE (r % N) + 1
  <2>1. r \in Nat
    BY <1>1
  <2>2. QED
    BY <2>1, DivModNext
<1>3. (a + 1) % N = IF a % N = N - 1 THEN 0 ELSE (a % N) + 1
  BY DivModNext
<1>4. r % N = r
  BY DivModSmall
<1>5. QED
  BY <1>1, <1>2, <1>3, <1>4

-----------------------------------------------------------------------------
(***************************************************************************)
(* Induction, for a property of numbers given as the set of those that     *)
(* have it.  The theorems of the library take a predicate instead.  If n   *)
(* were not in the set, k |-> k + 1 would be an injection of its elements  *)
(* below n into those of them that are not 0, which are one less.          *)
(***************************************************************************)
LEMMA NatInduct ==
    ASSUME NEW S \in SUBSET Nat, 0 \in S, \A k \in S : k + 1 \in S
    PROVE  S = Nat
<1> SUFFICES ASSUME NEW n \in Nat, n \notin S PROVE FALSE
  OBVIOUS
<1> DEFINE C == S \cap (0 .. n)
           D == C \ {0}
           f == [k \in C |-> k + 1]
<1>1. IsFiniteSet(0 .. n)
  BY FS_Interval
<1>2. IsFiniteSet(C) /\ IsFiniteSet(D)
  BY <1>1, FS_Subset
<1>3. 0 \in C
  OBVIOUS
<1>4. Cardinality(D) = Cardinality(C) - 1 /\ Cardinality(C) \in Nat
  BY <1>2, <1>3, FS_RemoveElement, FS_CardinalityType
<1>5. f \in [C -> D]
  <2>1. \A k \in C : k # n /\ k \in 0 .. n /\ k + 1 \in S
    OBVIOUS
  <2>2. \A k \in C : k + 1 \in D
    BY <2>1
  <2>3. QED
    BY <2>2
<1> HIDE DEF C, D, f
<1>6. Cardinality(D) < Cardinality(C)
  BY <1>4
<1>7. \E x, y \in C : x # y /\ f[x] = f[y]
  BY <1>2, <1>5, <1>6, FS_PigeonHole
<1>8. \A k \in C : f[k] = k + 1 /\ k \in Nat
  BY DEF C, f
<1>9. QED
  BY <1>7, <1>8

\* A one-to-one correspondence keeps the number of elements.
LEMMA SameSize ==
    ASSUME NEW S, NEW T, IsFiniteSet(S), NEW f \in [S -> T],
           \A a, b \in S : f[a] = f[b] => a = b, \A t \in T : \E a \in S : f[a] = t
    PROVE  IsFiniteSet(T) /\ Cardinality(T) = Cardinality(S)
<1>1. f \in Bijection(S, T)
  BY DEF Bijection, Injection, Surjection, IsInjective
<1>2. QED
  BY <1>1, FS_Bijection DEF ExistsBijection

\* Whether a finite set has an even number of elements.
Even(S) == Cardinality(S) % 2 = 0

\* The parity of a sum.
LEMMA ParityOfSum ==
    ASSUME NEW a \in Nat, NEW b \in Nat
    PROVE  /\ (a + b) % 2 = 0 <=> (a % 2 = 0 <=> b % 2 = 0)
           /\ a % 2 = 1 <=> ~(a % 2 = 0)
OBVIOUS

\* Disjoint sets.
LEMMA EvenDisjoint ==
    ASSUME NEW A, NEW B, IsFiniteSet(A), IsFiniteSet(B), A \cap B = {}
    PROVE  /\ IsFiniteSet(A \cup B)
           /\ Even(A \cup B) <=> (Even(A) <=> Even(B))
<1>1. /\ IsFiniteSet(A \cup B)
      /\ Cardinality(A \cup B) = Cardinality(A) + Cardinality(B) - Cardinality(A \cap B)
  BY FS_Union
<1>2. Cardinality(A \cap B) = 0
  BY FS_EmptySet
<1>3. Cardinality(A) \in Nat /\ Cardinality(B) \in Nat
  BY FS_CardinalityType
<1>4. QED
  BY <1>1, <1>2, <1>3, ParityOfSum DEF Even

\* A symmetric difference has an odd number of elements if one of the sets has.
LEMMA EvenSymDiff ==
    ASSUME NEW A, NEW B, IsFiniteSet(A), IsFiniteSet(B)
    PROVE  /\ IsFiniteSet((A \ B) \cup (B \ A))
           /\ Even((A \ B) \cup (B \ A)) <=> (Even(A) <=> Even(B))
<1> DEFINE I == A \cap B
<1>1. IsFiniteSet(A \ B) /\ IsFiniteSet(B \ A) /\ IsFiniteSet(I)
  BY FS_Subset
<1>2. /\ IsFiniteSet((A \ B) \cup (B \ A))
      /\ Even((A \ B) \cup (B \ A)) <=> (Even(A \ B) <=> Even(B \ A))
  BY <1>1, EvenDisjoint
<1>3. Even((A \ B) \cup I) <=> (Even(A \ B) <=> Even(I))
  BY <1>1, EvenDisjoint
<1>4. Even((B \ A) \cup I) <=> (Even(B \ A) <=> Even(I))
  BY <1>1, EvenDisjoint
<1>5. (A \ B) \cup I = A /\ (B \ A) \cup I = B
  OBVIOUS
<1>6. QED
  BY <1>2, <1>3, <1>4, <1>5

\* A set that falls into even parts is even.
LEMMA EvenParts ==
    ASSUME NEW P, IsFiniteSet(P), NEW I, IsFiniteSet(I), NEW key \in [P -> I],
           \A i \in I : Even({p \in P : key[p] = i})
    PROVE  Even(P)
<1> DEFINE In(J) == {p \in P : key[p] \in J}
           S == {k \in Nat : \A J \in SUBSET I : Cardinality(J) = k => Even(In(J))}
<1>1. 0 \in S
  <2> SUFFICES ASSUME NEW J \in SUBSET I, Cardinality(J) = 0 PROVE Even(In(J))
    OBVIOUS
  <2>1. J = {}
    BY FS_EmptySet, FS_Subset
  <2>2. In(J) = {}
    BY <2>1
  <2>3. Cardinality({}) = 0 /\ 0 % 2 = 0
    BY FS_EmptySet
  <2>4. QED
    BY <2>2, <2>3 DEF Even
<1>2. ASSUME NEW k \in S PROVE k + 1 \in S
  <2> SUFFICES ASSUME NEW J \in SUBSET I, Cardinality(J) = k + 1 PROVE Even(In(J))
    OBVIOUS
  <2>1. IsFiniteSet(J) /\ k \in Nat
    BY FS_Subset
  <2>2. PICK i \in J : TRUE
    BY <2>1, FS_EmptySet
  <2>3. Cardinality(J \ {i}) = k
    <3>1. Cardinality(J \ {i}) = Cardinality(J) - 1
      BY <2>1, FS_RemoveElement
    <3>2. QED
      BY <3>1, <2>1
  <2>4. Even(In(J \ {i}))
    BY <2>3, J \ {i} \in SUBSET I
  <2>5. Even({p \in P : key[p] = i})
    OBVIOUS
  <2>6. In(J) = In(J \ {i}) \cup {p \in P : key[p] = i}
    OBVIOUS
  <2>7. In(J \ {i}) \cap {p \in P : key[p] = i} = {}
    OBVIOUS
  <2>8. IsFiniteSet(In(J \ {i})) /\ IsFiniteSet({p \in P : key[p] = i})
    BY FS_Subset
  <2>9. QED
    BY <2>4, <2>5, <2>6, <2>7, <2>8, EvenDisjoint
<1> HIDE DEF S
<1>3. S = Nat
  BY <1>1, <1>2, NatInduct DEF S
<1>4. Cardinality(I) \in Nat
  BY FS_CardinalityType
<1>5. Even(In(I))
  BY <1>3, <1>4 DEF S
<1>6. In(I) = P
  OBVIOUS
<1>7. QED
  BY <1>5, <1>6

-----------------------------------------------------------------------------
(***************************************************************************)
(* Loops: a recursive function on the numbers of steps taken.              *)
(***************************************************************************)

(***************************************************************************)
(* A loop of n steps from x0 is a function on the numbers of steps, with   *)
(* the invariant J, a set of pairs of a state and the number of steps.     *)
(***************************************************************************)
LoopOf(g, F, x0, n) == g = [k \in 0 .. n |-> IF k = 0 THEN x0 ELSE F[<<g[k - 1], k - 1>>]]

\* A loop whose steps keep J can be run, and has J after every step.
LEMMA LoopExists ==
    ASSUME NEW n \in Nat, NEW J, NEW x0, NEW F, <<x0, 0>> \in J,
           \A s, k : k \in 0 .. n - 1 /\ <<s, k>> \in J => <<F[<<s, k>>], k + 1>> \in J
    PROVE  \E g : LoopOf(g, F, x0, n) /\ \A k \in 0 .. n : <<g[k], k>> \in J
<1> DEFINE Good(g, m) == LoopOf(g, F, x0, m) /\ \A k \in 0 .. m : <<g[k], k>> \in J
           S == {m \in Nat : m <= n => \E g : Good(g, m)}
<1>1. 0 \in S
  <2> DEFINE g == [k \in 0 .. 0 |-> x0]
  <2>1. g = [k \in 0 .. 0 |-> IF k = 0 THEN x0 ELSE F[<<g[k - 1], k - 1>>]]
    OBVIOUS
  <2>2. \A k \in 0 .. 0 : k = 0 /\ g[k] = x0
    OBVIOUS
  <2> HIDE DEF g
  <2>3. Good(g, 0)
    BY <2>1, <2>2 DEF LoopOf
  <2>4. QED
    BY <2>3
<1>2. ASSUME NEW m \in S PROVE m + 1 \in S
  <2> SUFFICES ASSUME m + 1 <= n PROVE \E g : Good(g, m + 1)
    OBVIOUS
  <2>1. m \in 0 .. n - 1 /\ m \in Nat
    OBVIOUS
  <2>2. PICK g : Good(g, m)
    BY <2>1
  <2> DEFINE h == [k \in 0 .. m + 1 |-> IF k = m + 1 THEN F[<<g[m], m>>] ELSE g[k]]
             G == [k \in 0 .. m + 1 |-> IF k = 0 THEN x0 ELSE F[<<h[k - 1], k - 1>>]]
  <2>3. \A k \in 0 .. m : g[k] = IF k = 0 THEN x0 ELSE F[<<g[k - 1], k - 1>>]
    BY <2>2 DEF LoopOf
  <2>4. ASSUME NEW k \in 0 .. m + 1 PROVE h[k] = G[k] /\ <<h[k], k>> \in J
    <3>1. CASE k = m + 1
      <4>1. h[k] = F[<<g[m], m>>] /\ k - 1 = m /\ h[m] = g[m] /\ k # 0
        BY <3>1, <2>1
      <4>2. <<g[m], m>> \in J
        BY <2>1, <2>2
      <4>3. <<F[<<g[m], m>>], m + 1>> \in J
        BY <2>1, <4>2
      <4>4. G[k] = F[<<h[m], m>>]
        BY <4>1
      <4>5. QED
        BY <3>1, <4>1, <4>3, <4>4
    <3>2. CASE k = 0
      <4>1. h[k] = g[k] /\ G[k] = x0 /\ k \in 0 .. m
        BY <3>2, <2>1
      <4>2. g[k] = x0
        BY <2>3, <3>2, <4>1
      <4>3. QED
        BY <3>2, <4>1, <4>2
    <3>3. CASE k # 0 /\ k # m + 1
      <4>1. k \in 0 .. m /\ k - 1 \in 0 .. m + 1 /\ k - 1 # m + 1
        BY <3>3
      <4>2. h[k] = g[k] /\ h[k - 1] = g[k - 1] /\ G[k] = F[<<h[k - 1], k - 1>>]
        BY <3>3, <4>1
      <4>3. g[k] = F[<<g[k - 1], k - 1>>]
        BY <2>3, <3>3, <4>1
      <4>4. <<g[k], k>> \in J
        BY <2>2, <4>1
      <4>5. QED
        BY <4>2, <4>3, <4>4
    <3>4. QED
      BY <3>1, <3>2, <3>3
  <2>5. h = G
    <3>1. DOMAIN h = DOMAIN G
      OBVIOUS
    <3>2. \A k \in DOMAIN h : h[k] = G[k]
      BY <2>4
    <3> HIDE DEF h, G
    <3>3. h = [k \in DOMAIN h |-> h[k]] /\ G = [k \in DOMAIN G |-> G[k]]
      BY DEF h, G
    <3>4. QED
      BY <3>1, <3>2, <3>3
  <2>6. \A k \in 0 .. m + 1 : <<h[k], k>> \in J
    BY <2>4
  <2> HIDE DEF h
  <2>7. Good(h, m + 1)
    BY <2>5, <2>6 DEF LoopOf
  <2>8. QED
    BY <2>7
<1> HIDE DEF S
<1>3. S = Nat
  BY <1>1, <1>2, NatInduct DEF S
<1>4. n \in S
  BY <1>3
<1>5. QED
  BY <1>4 DEF S

(***************************************************************************)
(* Every such function has the invariant.                                  *)
(***************************************************************************)
LEMMA LoopKeeps ==
    ASSUME NEW n \in Nat, NEW J, NEW g, <<g[0], 0>> \in J,
           \A k \in 0 .. n - 1 : <<g[k], k>> \in J => <<g[k + 1], k + 1>> \in J
    PROVE  \A k \in 0 .. n : <<g[k], k>> \in J
<1> DEFINE S == {k \in Nat : k <= n => <<g[k], k>> \in J}
<1>1. 0 \in S
  OBVIOUS
<1>2. ASSUME NEW k \in S PROVE k + 1 \in S
  <2> SUFFICES ASSUME k + 1 <= n PROVE <<g[k + 1], k + 1>> \in J
    OBVIOUS
  <2>1. k \in 0 .. n - 1 /\ <<g[k], k>> \in J
    OBVIOUS
  <2> QED
    BY <2>1
<1> HIDE DEF S
<1>3. S = Nat
  BY <1>1, <1>2, NatInduct DEF S
<1>4. \A k \in 0 .. n : k \in S
  BY <1>3
<1> QED
  BY <1>4 DEF S

-----------------------------------------------------------------------------
(***************************************************************************)
(* Of the numbers from a to b, one of which is in S, there is a last one.  *)
(***************************************************************************)
LEMMA LastOne ==
    ASSUME NEW a \in Int, NEW b \in Int, NEW S, \E k \in a .. b : k \in S
    PROVE  \E k \in a .. b : k \in S /\ \A m \in k + 1 .. b : m \notin S
<1> DEFINE T == {d \in Nat : (\E k \in b - d .. b : k \in S /\ k >= a) =>
                              \E k \in b - d .. b : k \in S /\ k >= a /\ \A m \in k + 1 .. b : m \notin S}
<1>1. 0 \in T
  OBVIOUS
<1>2. ASSUME NEW d \in T PROVE d + 1 \in T
  <2> SUFFICES ASSUME \E k \in b - (d + 1) .. b : k \in S /\ k >= a
               PROVE  \E k \in b - (d + 1) .. b : k \in S /\ k >= a /\ \A m \in k + 1 .. b : m \notin S
    OBVIOUS
  <2>1. CASE \E k \in b - d .. b : k \in S /\ k >= a
    <3>1. PICK k \in b - d .. b : k \in S /\ k >= a /\ \A m \in k + 1 .. b : m \notin S
      BY <2>1
    <3>2. QED
      BY <3>1
  <2>2. CASE ~\E k \in b - d .. b : k \in S /\ k >= a
    <3>1. PICK k \in b - (d + 1) .. b : k \in S /\ k >= a
      OBVIOUS
    <3>2. \A m \in k + 1 .. b : m \in b - d .. b /\ m >= a
      BY <3>1
    <3>3. \A m \in k + 1 .. b : m \notin S
      BY <2>2, <3>2
    <3>4. QED
      BY <3>1, <3>3
  <2>3. QED
    BY <2>1, <2>2
<1> HIDE DEF T
<1>3. T = Nat
  BY <1>1, <1>2, NatInduct DEF T
<1>4. b - a \in T
  BY <1>3
<1>5. b - (b - a) = a
  OBVIOUS
<1>6. (\E k \in a .. b : k \in S /\ k >= a) => \E k \in a .. b : k \in S /\ k >= a /\ \A m \in k + 1 .. b : m \notin S
  BY <1>4, <1>5 DEF T
<1>7. QED
  BY <1>6

\* The first of the numbers that have a property.
LEMMA FirstOne ==
    ASSUME NEW b \in Nat, NEW S, \E k \in 1 .. b : k \in S
    PROVE  \E k \in 1 .. b : k \in S /\ \A m \in 1 .. k - 1 : m \notin S
<1> DEFINE T == {n \in Nat : \A k \in 1 .. n : k \notin S}
<1> SUFFICES ASSUME \A k \in 1 .. b : k \in S => \E m \in 1 .. k - 1 : m \in S
             PROVE  b \in T
  OBVIOUS
<1> DEFINE U == {n \in Nat : n <= b => n \in T}
<1>1. 0 \in U
  OBVIOUS
<1>2. ASSUME NEW n \in U PROVE n + 1 \in U
  <2> SUFFICES ASSUME n + 1 <= b, n + 1 \in S PROVE FALSE
    OBVIOUS
  <2>1. \A m \in 1 .. n : m \notin S
    OBVIOUS
  <2>2. n + 1 \in 1 .. b /\ (n + 1) - 1 = n
    OBVIOUS
  <2> QED
    BY <2>1, <2>2
<1> HIDE DEF U
<1>3. U = Nat
  BY <1>1, <1>2, NatInduct DEF U
<1> QED
  BY <1>3 DEF U

\* Powers of 2, as numbers of subsets.
LEMMA PowerOfTwo ==
    ASSUME NEW n \in Nat
    PROVE  2^n \in Nat \ {0}
<1>1. IsFiniteSet(1 .. n) /\ Cardinality(1 .. n) = n
  BY FS_Interval
<1>2. IsFiniteSet(SUBSET (1 .. n)) /\ Cardinality(SUBSET (1 .. n)) = 2^n
  BY <1>1, FS_SUBSET
<1>3. SUBSET (1 .. n) # {}
  OBVIOUS
<1> QED
  BY <1>2, <1>3, FS_CardinalityType, FS_EmptySet

=============================================================================
