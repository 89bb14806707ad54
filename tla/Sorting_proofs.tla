---------------------------- MODULE Sorting_proofs ----------------------------
(***************************************************************************)
(* The sorts of src/src/core.c sort: any array of numbers, of any length,  *)
(* for any number of digits and any values of the cutoffs, and whatever    *)
(* digit the undefined shift below the lowest one delivers.                *)
(*                                                                         *)
(* Each loop of the code is a recursive function, and each proof about it  *)
(* has the loop's invariant.  Two notions carry them: y Rearranges x on a  *)
(* part, and y is InOrder there.                                           *)
(***************************************************************************)
EXTENDS KernelTasks, NumberLemmas, TLAPS

-----------------------------------------------------------------------------
(***************************************************************************)
(* Rearrangements: which elements an array has, and where.                 *)
(***************************************************************************)

IntArrays(n) == [0 .. n - 1 -> Int]

(***************************************************************************)
(* y has the elements of x, and outside a .. b in the same places.         *)
(***************************************************************************)
Perms(n) == {p \in [0 .. n - 1 -> 0 .. n - 1] :
                /\ \A i, j \in 0 .. n - 1 : p[i] = p[j] => i = j
                /\ \A j \in 0 .. n - 1 : \E i \in 0 .. n - 1 : p[i] = j}

ComesFrom(p, y, x, n, a, b) ==
    /\ p \in Perms(n)
    /\ \A k \in 0 .. n - 1 : y[k] = x[p[k]]
    /\ \A k \in (0 .. n - 1) \ (a .. b) : p[k] = k

Rearranges(y, x, n, a, b) == y \in IntArrays(n) /\ \E p : ComesFrom(p, y, x, n, a, b)

\* An array is a rearrangement of itself.
LEMMA RearrangesSame ==
    ASSUME NEW n \in Nat, NEW a, NEW b, NEW x \in IntArrays(n)
    PROVE  Rearranges(x, x, n, a, b)
<1> DEFINE p == [k \in 0 .. n - 1 |-> k]
<1>1. p \in Perms(n)
  BY DEF Perms
<1>2. ComesFrom(p, x, x, n, a, b)
  BY <1>1 DEF ComesFrom
<1> HIDE DEF p
<1>3. QED
  BY <1>2 DEF Rearranges

\* Rearranging twice is rearranging.
LEMMA RearrangesTrans ==
    ASSUME NEW n \in Nat, NEW a, NEW b, NEW x, NEW y, NEW z,
           Rearranges(y, x, n, a, b), Rearranges(z, y, n, a, b)
    PROVE  Rearranges(z, x, n, a, b)
<1>1. PICK p : ComesFrom(p, y, x, n, a, b)
  BY DEF Rearranges
<1>2. PICK q : ComesFrom(q, z, y, n, a, b)
  BY DEF Rearranges
<1> DEFINE r == [k \in 0 .. n - 1 |-> p[q[k]]]
<1>3. p \in Perms(n) /\ q \in Perms(n)
  BY <1>1, <1>2 DEF ComesFrom
<1>4. r \in [0 .. n - 1 -> 0 .. n - 1]
  BY <1>3 DEF Perms
<1>5. \A i, j \in 0 .. n - 1 : r[i] = r[j] => i = j
  BY <1>3 DEF Perms
<1>6. \A j \in 0 .. n - 1 : \E i \in 0 .. n - 1 : r[i] = j
  <2> TAKE j \in 0 .. n - 1
  <2>1. PICK m \in 0 .. n - 1 : p[m] = j
    BY <1>3 DEF Perms
  <2>2. PICK i \in 0 .. n - 1 : q[i] = m
    BY <1>3 DEF Perms
  <2>3. r[i] = j
    BY <2>1, <2>2
  <2> QED
    BY <2>3
<1>7. \A k \in 0 .. n - 1 : z[k] = x[r[k]]
  <2> TAKE k \in 0 .. n - 1
  <2>1. q[k] \in 0 .. n - 1
    BY <1>3 DEF Perms
  <2>2. z[k] = y[q[k]] /\ y[q[k]] = x[p[q[k]]]
    BY <1>1, <1>2, <2>1 DEF ComesFrom
  <2> QED
    BY <2>2
<1>8. \A k \in (0 .. n - 1) \ (a .. b) : r[k] = k
  BY <1>1, <1>2 DEF ComesFrom
<1> HIDE DEF r
<1>9. ComesFrom(r, z, x, n, a, b)
  BY <1>4, <1>5, <1>6, <1>7, <1>8 DEF ComesFrom, Perms
<1>10. QED
  BY <1>9 DEF Rearranges

\* What was rearranged in a part was so in a larger one.
LEMMA RearrangesWider ==
    ASSUME NEW n \in Nat, NEW a \in Int, NEW b \in Int, NEW c \in Int, NEW d \in Int,
           c <= a, b <= d, NEW x, NEW y, Rearranges(y, x, n, a, b)
    PROVE  Rearranges(y, x, n, c, d)
<1>1. PICK p : ComesFrom(p, y, x, n, a, b)
  BY DEF Rearranges
<1>2. a .. b \subseteq c .. d
  OBVIOUS
<1>3. ComesFrom(p, y, x, n, c, d)
  BY <1>1, <1>2 DEF ComesFrom
<1>4. QED
  BY <1>3 DEF Rearranges

\* Within a .. b elements only move inside.
LEMMA StaysInside ==
    ASSUME NEW n \in Nat, NEW a \in Int, NEW b \in Int, NEW x, NEW y, NEW p,
           ComesFrom(p, y, x, n, a, b)
    PROVE  /\ \A k \in 0 .. n - 1 : k \in a .. b => p[k] \in a .. b
           /\ \A k \in 0 .. n - 1 : k \in a .. b =>
                    \E m \in 0 .. n - 1 : m \in a .. b /\ p[m] = k
<1>1. p \in Perms(n) /\ \A k \in (0 .. n - 1) \ (a .. b) : p[k] = k
  BY DEF ComesFrom
<1>2. ASSUME NEW k \in 0 .. n - 1, k \in a .. b PROVE p[k] \in a .. b
  <2> SUFFICES ASSUME p[k] \notin a .. b PROVE FALSE
    OBVIOUS
  <2>1. p[k] \in (0 .. n - 1) \ (a .. b)
    BY <1>1 DEF Perms
  <2>2. p[p[k]] = p[k]
    BY <1>1, <2>1
  <2>3. p[k] = k
    BY <1>1, <2>1, <2>2 DEF Perms
  <2> QED
    BY <1>2, <2>1, <2>3
<1>3. ASSUME NEW k \in 0 .. n - 1, k \in a .. b
      PROVE  \E m \in 0 .. n - 1 : m \in a .. b /\ p[m] = k
  <2>1. PICK m \in 0 .. n - 1 : p[m] = k
    BY <1>1 DEF Perms
  <2>2. m \in a .. b
    BY <1>1, <1>3, <2>1
  <2> QED
    BY <2>1, <2>2
<1>4. QED
  BY <1>2, <1>3

\* Outside the part nothing changes, inside nothing comes or goes.
LEMMA RearrangesKeeps ==
    ASSUME NEW n \in Nat, NEW a \in Int, NEW b \in Int, NEW x, NEW y,
           Rearranges(y, x, n, a, b)
    PROVE  /\ y \in IntArrays(n)
           /\ \A k \in (0 .. n - 1) \ (a .. b) : y[k] = x[k]
           /\ \A k \in 0 .. n - 1 : k \in a .. b =>
                    \E m \in 0 .. n - 1 : m \in a .. b /\ y[k] = x[m]
           /\ \A k \in 0 .. n - 1 : k \in a .. b =>
                    \E m \in 0 .. n - 1 : m \in a .. b /\ x[k] = y[m]
<1>1. PICK p : ComesFrom(p, y, x, n, a, b)
  BY DEF Rearranges
<1>2. /\ \A k \in 0 .. n - 1 : k \in a .. b => p[k] \in a .. b
      /\ \A k \in 0 .. n - 1 : k \in a .. b =>
                    \E m \in 0 .. n - 1 : m \in a .. b /\ p[m] = k
  BY <1>1, StaysInside
<1>3. p \in [0 .. n - 1 -> 0 .. n - 1]
  BY <1>1 DEF ComesFrom, Perms
<1>4. \A k \in (0 .. n - 1) \ (a .. b) : y[k] = x[k]
  BY <1>1 DEF ComesFrom
<1>5. \A k \in 0 .. n - 1 : k \in a .. b =>
                    \E m \in 0 .. n - 1 : m \in a .. b /\ y[k] = x[m]
  BY <1>1, <1>2, <1>3 DEF ComesFrom
<1>6. \A k \in 0 .. n - 1 : k \in a .. b =>
                    \E m \in 0 .. n - 1 : m \in a .. b /\ x[k] = y[m]
  <2> SUFFICES ASSUME NEW k \in 0 .. n - 1, k \in a .. b
               PROVE  \E m \in 0 .. n - 1 : m \in a .. b /\ x[k] = y[m]
    OBVIOUS
  <2>1. PICK m \in 0 .. n - 1 : m \in a .. b /\ p[m] = k
    BY <1>2
  <2>2. y[m] = x[k]
    BY <1>1, <2>1 DEF ComesFrom
  <2> QED
    BY <2>1, <2>2
<1>7. QED
  BY <1>4, <1>5, <1>6 DEF Rearranges

Holding(x, a, b, U) == {k \in a .. b : x[k] \in U}

\* As many elements of the part are in a set as before.
LEMMA RearrangesCounts ==
    ASSUME NEW n \in Nat, NEW a \in Int, NEW b \in Int, a .. b \subseteq 0 .. n - 1,
           NEW x, NEW y, Rearranges(y, x, n, a, b), NEW U
    PROVE  Cardinality(Holding(y, a, b, U)) = Cardinality(Holding(x, a, b, U))
<1>1. PICK p : ComesFrom(p, y, x, n, a, b)
  BY DEF Rearranges
<1> DEFINE Y == {k \in a .. b : y[k] \in U}
           X == {k \in a .. b : x[k] \in U}
           f == [k \in Y |-> p[k]]
<1>2. /\ \A k \in 0 .. n - 1 : k \in a .. b => p[k] \in a .. b
      /\ \A k \in 0 .. n - 1 : k \in a .. b =>
                    \E m \in 0 .. n - 1 : m \in a .. b /\ p[m] = k
  BY <1>1, StaysInside
<1>3. \A k \in a .. b : y[k] = x[p[k]] /\ p[k] \in a .. b
  BY <1>1, <1>2 DEF ComesFrom
<1>4. f \in [Y -> X]
  BY <1>3
<1>5. \A i, j \in Y : f[i] = f[j] => i = j
  BY <1>1 DEF ComesFrom, Perms
<1>6. \A t \in X : \E i \in Y : f[i] = t
  <2> TAKE t \in X
  <2>1. PICK m \in 0 .. n - 1 : m \in a .. b /\ p[m] = t
    BY <1>2
  <2>2. m \in Y /\ f[m] = t
    BY <1>3, <2>1
  <2> QED
    BY <2>2
<1>7. IsFiniteSet(Y)
  BY FS_Interval, FS_Subset
<1> HIDE DEF X, Y, f
<1>8. Cardinality(X) = Cardinality(Y)
  BY <1>4, <1>5, <1>6, <1>7, SameSize
<1>9. QED
  BY <1>8 DEF X, Y, Holding

\* Two elements of a part change places.
LEMMA RearrangesSwap ==
    ASSUME NEW n \in Nat, NEW a \in Int, NEW b \in Int, NEW x \in IntArrays(n),
           NEW i \in 0 .. n - 1, NEW j \in 0 .. n - 1, i \in a .. b, j \in a .. b
    PROVE  /\ Rearranges(Swapped(x, i, j), x, n, a, b)
           /\ \A k \in 0 .. n - 1 : Swapped(x, i, j)[k] =
                    IF k = i THEN x[j] ELSE IF k = j THEN x[i] ELSE x[k]
<1> DEFINE y == Swapped(x, i, j)
           p == [k \in 0 .. n - 1 |-> IF k = i THEN j ELSE IF k = j THEN i ELSE k]
<1>1. y \in IntArrays(n)
  BY DEF IntArrays, Swapped
<1>2. \A k \in 0 .. n - 1 : y[k] = IF k = i THEN x[j] ELSE IF k = j THEN x[i] ELSE x[k]
  BY DEF IntArrays, Swapped
<1>3. p \in Perms(n)
  <2>1. p \in [0 .. n - 1 -> 0 .. n - 1]
    OBVIOUS
  <2>2. \A k \in 0 .. n - 1 : p[p[k]] = k
    OBVIOUS
  <2> HIDE DEF p
  <2>3. \A k, m \in 0 .. n - 1 : p[k] = p[m] => k = m
    BY <2>2
  <2>4. \A m \in 0 .. n - 1 : p[m] \in 0 .. n - 1 /\ p[p[m]] = m
    BY <2>1, <2>2
  <2> QED
    BY <2>1, <2>3, <2>4 DEF Perms
<1>4. \A k \in 0 .. n - 1 : y[k] = x[p[k]]
  BY <1>2
<1>5. \A k \in (0 .. n - 1) \ (a .. b) : p[k] = k
  OBVIOUS
<1> HIDE DEF p, y
<1>6. ComesFrom(p, y, x, n, a, b)
  BY <1>3, <1>4, <1>5 DEF ComesFrom
<1>7. QED
  BY <1>1, <1>2, <1>6 DEF Rearranges, y

-----------------------------------------------------------------------------
(***************************************************************************)
(* insertsort.                                                             *)
(***************************************************************************)

InOrder(y, a, b) == \A i, j \in a .. b : i < j => y[i] <= y[j]

Sorts(y, x, n, a, b) == Rearranges(y, x, n, a, b) /\ InOrder(y, a, b)

\* The inner loop of insertsort stops somewhere.
LEMMA PlaceExists ==
    ASSUME NEW x, NEW first \in Nat, NEW i \in Nat, first <= i,
           \A k \in first .. i : x[k] \in Int
    PROVE  /\ Place(x, first, i) \in first .. i
           /\ \A k \in Place(x, first, i) .. i - 1 : x[k] > x[i]
           /\ Place(x, first, i) > first => x[Place(x, first, i) - 1] <= x[i]
<1> DEFINE Stops(p) == /\ \A k \in p .. i - 1 : x[k] > x[i]
                       /\ p > first => x[p - 1] <= x[i]
<1>1. \E p \in first .. i : Stops(p)
  <2> DEFINE S == {k \in first .. i - 1 : x[k] <= x[i]}
  <2>1. CASE S = {}
    <3>1. Stops(first)
      BY <2>1
    <3> QED
      BY <3>1
  <2>2. CASE S # {}
    <3>1. \E k \in first .. i - 1 : k \in S
      BY <2>2
    <3> HIDE DEF S
    <3>2. PICK k \in first .. i - 1 : k \in S /\ \A m \in k + 1 .. i - 1 : m \notin S
      <4> DEFINE top == i - 1
      <4>1. top \in Int /\ first \in Int
        OBVIOUS
      <4> HIDE DEF top
      <4>2. \E k \in first .. top : k \in S
        BY <3>1 DEF top
      <4>3. \E k \in first .. top : k \in S /\ \A m \in k + 1 .. top : m \notin S
        BY <4>1, <4>2, LastOne
      <4> QED
        BY <4>3 DEF top
    <3>3. x[k] <= x[i]
      BY <3>2 DEF S
    <3>4. \A m \in k + 1 .. i - 1 : x[m] > x[i]
      <4> TAKE m \in k + 1 .. i - 1
      <4>1. m \in first .. i - 1 /\ m \notin S
        BY <3>2
      <4> QED
        BY <4>1 DEF S
    <3>5. Stops(k + 1) /\ k + 1 \in first .. i
      <4>1. (k + 1) - 1 = k
        OBVIOUS
      <4> QED
        BY <3>3, <3>4, <4>1
    <3> QED
      BY <3>5
  <2> QED
    BY <2>1, <2>2
<1>2. Place(x, first, i) = CHOOSE p \in first .. i : Stops(p)
  BY DEF Place
<1> HIDE DEF Stops
<1>3. Place(x, first, i) \in first .. i /\ Stops(Place(x, first, i))
  BY <1>1, <1>2
<1> QED
  BY <1>3 DEF Stops

\* One element put in its place among those in order before it.
LEMMA InsertedSorts ==
    ASSUME NEW n \in Nat, NEW first \in Nat, NEW i \in 0 .. n - 1, first <= i,
           NEW x \in IntArrays(n), InOrder(x, first, i - 1)
    PROVE  Sorts(Inserted(x, first, i), x, n, first, i)
<1> DEFINE q == Place(x, first, i)
           y == Inserted(x, first, i)
           p == [k \in 0 .. n - 1 |-> IF k = q THEN i ELSE IF k \in q + 1 .. i THEN k - 1 ELSE k]
<1>0. \A k \in 0 .. n - 1 : x[k] \in Int
  BY DEF IntArrays
<1>1. /\ q \in first .. i
      /\ \A k \in q .. i - 1 : x[k] > x[i]
      /\ q > first => x[q - 1] <= x[i]
  BY <1>0, PlaceExists
<1>2. y = [k \in 0 .. n - 1 |-> IF k = q THEN x[i]
                            ELSE IF k \in q + 1 .. i THEN x[k - 1]
                            ELSE x[k]]
  BY DEF Inserted, IntArrays
<1> HIDE DEF q, y
<1>3. y \in IntArrays(n)
  BY <1>0, <1>1, <1>2 DEF IntArrays
<1>4. p \in [0 .. n - 1 -> 0 .. n - 1]
  BY <1>1
<1>5. \A k, m \in 0 .. n - 1 : p[k] = p[m] => k = m
  BY <1>1
<1>6. \A m \in 0 .. n - 1 : \E k \in 0 .. n - 1 : p[k] = m
  <2> TAKE m \in 0 .. n - 1
  <2>1. CASE m = i
    BY <1>1, <2>1
  <2>2. CASE m \in q .. i - 1
    <3>1. m + 1 \in 0 .. n - 1 /\ p[m + 1] = m
      BY <1>1, <2>2
    <3> QED
      BY <3>1
  <2>3. CASE m \notin q .. i
    BY <1>1, <2>3
  <2> QED
    BY <1>1, <2>1, <2>2, <2>3
<1>7. \A k \in 0 .. n - 1 : y[k] = x[p[k]]
  BY <1>1, <1>2
<1>8. \A k \in (0 .. n - 1) \ (first .. i) : p[k] = k
  BY <1>1
<1>9. Rearranges(y, x, n, first, i)
  <2> HIDE DEF p
  <2>1. ComesFrom(p, y, x, n, first, i)
    BY <1>4, <1>5, <1>6, <1>7, <1>8 DEF ComesFrom, Perms
  <2> QED
    BY <1>3, <2>1 DEF Rearranges
<1>10. InOrder(y, first, i)
  <2> SUFFICES ASSUME NEW k \in first .. i, NEW m \in first .. i, k < m
               PROVE  y[k] <= y[m]
    BY DEF InOrder
  <2>1. k \in 0 .. n - 1 /\ m \in 0 .. n - 1
    OBVIOUS
  <2>2. \A a, b \in first .. i - 1 : a <= b => x[a] <= x[b]
    BY <1>0 DEF InOrder
  <2>3. y[k] = IF k = q THEN x[i] ELSE IF k \in q + 1 .. i THEN x[k - 1] ELSE x[k]
    BY <1>2, <2>1
  <2>4. y[m] = IF m = q THEN x[i] ELSE IF m \in q + 1 .. i THEN x[m - 1] ELSE x[m]
    BY <1>2, <2>1
  <2>5. CASE k = q
    <3>1. y[m] = x[m - 1] /\ m - 1 \in q .. i - 1
      BY <1>1, <2>4, <2>5
    <3>2. x[m - 1] > x[i]
      BY <1>1, <3>1
    <3> QED
      BY <1>0, <1>1, <2>3, <2>5, <3>1, <3>2
  <2>6. CASE k > q
    <3>1. y[m] = x[m - 1] /\ y[k] = x[k - 1] /\ m - 1 \in first .. i - 1 /\ k - 1 \in first .. i - 1
      BY <1>1, <2>3, <2>4, <2>6
    <3> QED
      BY <2>2, <3>1
  <2>7. CASE k < q
    <3>1. y[k] = x[k] /\ k \in first .. i - 1
      BY <1>1, <2>3, <2>7
    <3>2. CASE m = q
      <4>1. x[k] <= x[q - 1] /\ x[q - 1] <= x[i] /\ q - 1 \in 0 .. n - 1
        BY <1>1, <2>2, <2>7, <3>1
      <4> QED
        BY <1>0, <2>4, <3>1, <3>2, <4>1
    <3>3. CASE m > q
      <4>1. y[m] = x[m - 1] /\ m - 1 \in first .. i - 1
        BY <1>1, <2>4, <3>3
      <4> QED
        BY <2>2, <3>1, <4>1
    <3>4. CASE m < q
      <4>1. y[m] = x[m] /\ m \in first .. i - 1
        BY <1>1, <2>4, <3>4
      <4> QED
        BY <2>2, <3>1, <4>1
    <3> QED
      BY <1>1, <3>2, <3>3, <3>4
  <2> QED
    BY <1>1, <2>5, <2>6, <2>7
<1> QED
  BY <1>9, <1>10 DEF Sorts, y

\* One step of the outer loop of insertsort.
LEMMA InsertionStep ==
    ASSUME NEW n \in Nat, NEW first \in Nat, NEW last \in 0 .. n - 1,
           NEW x, NEW y, NEW k \in Nat, k + 1 <= last - first,
           Sorts(y, x, n, first, first + k)
    PROVE  Sorts(Inserted(y, first, first + (k + 1)), x, n, first, first + (k + 1))
<1> DEFINE i == first + (k + 1)
           z == Inserted(y, first, i)
<1>1. i \in 0 .. n - 1 /\ first <= i /\ first \in Int /\ i \in Int /\ i - 1 = first + k
  OBVIOUS
<1> HIDE DEF i
<1>2. y \in IntArrays(n) /\ InOrder(y, first, i - 1)
  BY <1>1 DEF Sorts, Rearranges
<1>3. Sorts(z, y, n, first, i)
  BY <1>1, <1>2, InsertedSorts
<1>4. Rearranges(y, x, n, first, i)
  <2>1. Rearranges(y, x, n, first, first + k)
    BY DEF Sorts
  <2>2. first + k <= i /\ first + k \in Int /\ first <= first
    BY <1>1
  <2> QED
    BY <1>1, <2>1, <2>2, RearrangesWider
<1>5. Rearranges(z, x, n, first, i)
  <2>1. Rearranges(z, y, n, first, i)
    BY <1>3 DEF Sorts
  <2> HIDE DEF z
  <2> QED
    BY <1>4, <2>1, RearrangesTrans
<1>6. QED
  BY <1>3, <1>5 DEF Sorts, i

\* insertsort sorts its part, and leaves the rest alone.
LEMMA InsertsortSorts ==
    ASSUME NEW n \in Nat, NEW first \in Nat, NEW last \in -1 .. n - 1,
           NEW x \in IntArrays(n)
    PROVE  Sorts(Insertsort(x, first, last), x, n, first, last)
<1> DEFINE Next(s, k) == Inserted(s, first, first + k)
           Is(g) == g = [k \in 0 .. last - first |-> IF k = 0 THEN x ELSE Next(g[k - 1], k)]
           after == CHOOSE g : Is(g)
<1>1. Insertsort(x, first, last) = IF last <= first THEN x ELSE after[last - first]
  BY DEF Insertsort
<1>2. CASE last <= first
  <2>1. Rearranges(x, x, n, first, last)
    BY RearrangesSame
  <2>2. InOrder(x, first, last)
    BY <1>2 DEF InOrder
  <2> QED
    BY <1>1, <1>2, <2>1, <2>2 DEF Sorts
<1>3. CASE last > first
  <2> DEFINE J == {s \in IntArrays(n) \X Nat : s[2] <= last - first =>
                        Sorts(s[1], x, n, first, first + s[2])}
             F == [s \in J |-> Next(s[1], s[2] + 1)]
  <2>0. last - first \in Nat /\ last \in 0 .. n - 1
    BY <1>3
  <2>1. Sorts(x, x, n, first, first + 0)
    <3>1. Rearranges(x, x, n, first, first + 0)
      BY RearrangesSame
    <3> QED
      BY <3>1 DEF Sorts, InOrder
  <2>2. <<x, 0>> \in J
    BY <2>1
  <2>3. ASSUME NEW y, NEW k, k \in 0 .. (last - first) - 1, <<y, k>> \in J
        PROVE  /\ F[<<y, k>>] = Next(y, k + 1)
               /\ <<F[<<y, k>>], k + 1>> \in J
    <3>1. F[<<y, k>>] = Next(y, k + 1)
      BY <2>3
    <3>2. Sorts(y, x, n, first, first + k) /\ k \in Nat /\ k + 1 <= last - first
      BY <2>3
    <3>3. Sorts(Next(y, k + 1), x, n, first, first + (k + 1))
      BY <2>0, <3>2, InsertionStep
    <3>4. Next(y, k + 1) \in IntArrays(n)
      BY <3>3 DEF Sorts, Rearranges
    <3> QED
      BY <3>1, <3>2, <3>3, <3>4
  <2> HIDE DEF J, F, Next
  <2>4. PICK g : LoopOf(g, F, x, last - first) /\ \A k \in 0 .. last - first : <<g[k], k>> \in J
    BY <2>0, <2>2, <2>3, LoopExists
  <2>5. Is(g)
    <3>1. \A k \in 0 .. last - first : k # 0 => F[<<g[k - 1], k - 1>>] = Next(g[k - 1], k)
      <4> SUFFICES ASSUME NEW k \in 0 .. last - first, k # 0
                   PROVE  F[<<g[k - 1], k - 1>>] = Next(g[k - 1], k)
        OBVIOUS
      <4>1. k - 1 \in 0 .. (last - first) - 1 /\ k - 1 \in 0 .. last - first /\ (k - 1) + 1 = k
        BY <2>0
      <4>2. <<g[k - 1], k - 1>> \in J
        BY <2>4, <4>1
      <4> QED
        BY <2>3, <4>1, <4>2
    <3>2. g = [k \in 0 .. last - first |-> IF k = 0 THEN x ELSE F[<<g[k - 1], k - 1>>]]
      BY <2>4 DEF LoopOf
    <3> QED
      BY <3>1, <3>2
  <2>6. Is(after)
    <3> HIDE DEF Is
    <3> QED
      BY <2>5
  <2> HIDE DEF after
  <2>7. \A k \in 0 .. (last - first) - 1 : <<after[k], k>> \in J => <<after[k + 1], k + 1>> \in J
    <3> SUFFICES ASSUME NEW k \in 0 .. (last - first) - 1, <<after[k], k>> \in J
                 PROVE  <<after[k + 1], k + 1>> \in J
      OBVIOUS
    <3>1. k + 1 \in 0 .. last - first /\ k + 1 # 0 /\ (k + 1) - 1 = k
      OBVIOUS
    <3>2. after[k + 1] = Next(after[k], k + 1)
      BY <2>6, <3>1
    <3> QED
      BY <2>3, <3>2
  <2>8. after[0] = x
    BY <2>0, <2>6
  <2>9. \A k \in 0 .. last - first : <<after[k], k>> \in J
    BY <2>0, <2>2, <2>7, <2>8, LoopKeeps
  <2>10. <<after[last - first], last - first>> \in J
    BY <2>0, <2>9
  <2>11. Sorts(after[last - first], x, n, first, last)
    BY <2>0, <2>10, first + (last - first) = last DEF J
  <2> QED
    BY <1>1, <1>3, <2>11
<1> QED
  BY <1>2, <1>3

-----------------------------------------------------------------------------
(***************************************************************************)
(* The partition, and quicksort_range.                                     *)
(***************************************************************************)

\* s.i and s.j split the range, with nothing above the pivot before s.i and
\* nothing below it after s.j.
Splits3(s, x, n, first, last, pivot) ==
    /\ s \in [v : IntArrays(n), i : Int, j : Int]
    /\ Rearranges(s.v, x, n, first, last)
    /\ first <= s.i /\ s.i <= last + 1
    /\ first - 1 <= s.j /\ s.j <= last
    /\ s.i <= s.j + 2
    /\ \A m \in first .. s.i - 1 : s.v[m] <= pivot
    /\ \A m \in s.j + 1 .. last : s.v[m] >= pivot

(***************************************************************************)
(* After k steps: neither index can run out of the range, as it meets the  *)
(* pivot or an element already exchanged, and they came closer each time.  *)
(***************************************************************************)
PartitionInv(s, x, n, first, last, pivot, k) ==
    /\ Splits3(s, x, n, first, last, pivot)
    /\ \/ \E m \in s.i .. s.j : s.v[m] = pivot
       \/ first < s.i /\ s.j < last
    /\ s.i > s.j \/ s.j - s.i <= last - first - k

\* Before the first step of the partition the pivot is in sight.
LEMMA PartitionStarts ==
    ASSUME NEW n \in Nat, NEW first \in Nat, NEW last \in 0 .. n - 1, first <= last,
           NEW x \in IntArrays(n)
    PROVE  PartitionInv([v |-> x, i |-> first, j |-> last], x, n, first, last,
                        x[(first + last) \div 2], 0)
<1> DEFINE s == [v |-> x, i |-> first, j |-> last]
           med == (first + last) \div 2
<1>1. med \in first .. last
  OBVIOUS
<1>2. s \in [v : IntArrays(n), i : Int, j : Int] /\ s.v = x /\ s.i = first /\ s.j = last
  OBVIOUS
<1> HIDE DEF s, med
<1>3. Rearranges(x, x, n, first, last)
  BY RearrangesSame
<1>4. Splits3(s, x, n, first, last, x[med])
  BY <1>2, <1>3 DEF Splits3
<1>5. PartitionInv(s, x, n, first, last, x[med], 0)
  BY <1>1, <1>2, <1>4 DEF PartitionInv
<1> QED
  BY <1>5 DEF s, med

\* A step of the partition keeps its invariant, and comes closer to the end.
LEMMA PartitionStepKeeps ==
    ASSUME NEW n \in Nat, NEW first \in Nat, NEW last \in 0 .. n - 1, first <= last,
           NEW x, NEW pivot \in Int, NEW k \in Nat,
           NEW s, PartitionInv(s, x, n, first, last, pivot, k)
    PROVE  PartitionInv(PartitionStep(s, pivot), x, n, first, last, pivot, k + 1)
<1> DEFINE t == PartitionStep(s, pivot)
<1>1. /\ s \in [v : IntArrays(n), i : Int, j : Int]
      /\ Rearranges(s.v, x, n, first, last)
      /\ first <= s.i /\ s.i <= last + 1
      /\ first - 1 <= s.j /\ s.j <= last
      /\ s.i <= s.j + 2
      /\ \A m \in first .. s.i - 1 : s.v[m] <= pivot
      /\ \A m \in s.j + 1 .. last : s.v[m] >= pivot
  BY DEF PartitionInv, Splits3
<1>2. /\ \/ \E m \in s.i .. s.j : s.v[m] = pivot
         \/ first < s.i /\ s.j < last
      /\ s.i > s.j \/ s.j - s.i <= last - first - k
  BY DEF PartitionInv
<1>3. \A m \in 0 .. n - 1 : s.v[m] \in Int
  BY <1>1 DEF IntArrays
<1>4. CASE s.i > s.j
  <2>1. t = s
    BY <1>4 DEF PartitionStep
  <2> QED
    BY <1>2, <1>4, <2>1 DEF PartitionInv
<1>5. CASE ~(s.i > s.j) /\ s.v[s.i] < pivot
  <2>1. t = [s EXCEPT !.i = @ + 1]
    BY <1>5 DEF PartitionStep
  <2>2. t \in [v : IntArrays(n), i : Int, j : Int] /\ t.v = s.v /\ t.i = s.i + 1 /\ t.j = s.j
    BY <1>1, <2>1
  <2> HIDE DEF t
  <2>3. \A m \in first .. t.i - 1 : m \in first .. s.i - 1 \/ m = s.i
    BY <1>1, <2>2
  <2>4. \A m \in first .. t.i - 1 : t.v[m] <= pivot
    BY <1>1, <1>3, <1>5, <2>2, <2>3
  <2>5. Splits3(t, x, n, first, last, pivot)
    BY <1>1, <1>5, <2>2, <2>4 DEF Splits3
  <2>6. (\E m \in s.i .. s.j : s.v[m] = pivot) => \E m \in t.i .. t.j : t.v[m] = pivot
    BY <1>1, <1>5, <2>2
  <2> QED
    BY <1>1, <1>2, <1>5, <2>2, <2>5, <2>6 DEF PartitionInv, t
<1>6. CASE ~(s.i > s.j) /\ ~(s.v[s.i] < pivot) /\ s.v[s.j] > pivot
  <2>1. t = [s EXCEPT !.j = @ - 1]
    BY <1>6 DEF PartitionStep
  <2>2. t \in [v : IntArrays(n), i : Int, j : Int] /\ t.v = s.v /\ t.i = s.i /\ t.j = s.j - 1
    BY <1>1, <2>1
  <2> HIDE DEF t
  <2>3. \A m \in t.j + 1 .. last : m \in s.j + 1 .. last \/ m = s.j
    BY <1>1, <2>2
  <2>4. \A m \in t.j + 1 .. last : t.v[m] >= pivot
    BY <1>1, <1>3, <1>6, <2>2, <2>3
  <2>5. Splits3(t, x, n, first, last, pivot)
    BY <1>1, <1>6, <2>2, <2>4 DEF Splits3
  <2>6. (\E m \in s.i .. s.j : s.v[m] = pivot) => \E m \in t.i .. t.j : t.v[m] = pivot
    BY <1>1, <1>6, <2>2
  <2> QED
    BY <1>1, <1>2, <1>6, <2>2, <2>5, <2>6 DEF PartitionInv, t
<1>7. CASE ~(s.i > s.j) /\ ~(s.v[s.i] < pivot) /\ ~(s.v[s.j] > pivot)
  <2>1. t = [v |-> Swapped(s.v, s.i, s.j), i |-> s.i + 1, j |-> s.j - 1]
    BY <1>7 DEF PartitionStep
  <2>2. s.i \in first .. last /\ s.j \in first .. last
    BY <1>1, <1>7
  <2>3. s.i \in 0 .. n - 1 /\ s.j \in 0 .. n - 1
    BY <2>2
  <2>4. /\ Rearranges(Swapped(s.v, s.i, s.j), s.v, n, first, last)
        /\ \A m \in 0 .. n - 1 : Swapped(s.v, s.i, s.j)[m] =
                IF m = s.i THEN s.v[s.j] ELSE IF m = s.j THEN s.v[s.i] ELSE s.v[m]
    <3> DEFINE v == s.v
               i == s.i
               j == s.j
    <3>1. v \in IntArrays(n) /\ i \in 0 .. n - 1 /\ j \in 0 .. n - 1
          /\ i \in first .. last /\ j \in first .. last /\ first \in Int /\ last \in Int
      BY <1>1, <2>2, <2>3
    <3> HIDE DEF v, i, j
    <3>2. /\ Rearranges(Swapped(v, i, j), v, n, first, last)
          /\ \A m \in 0 .. n - 1 : Swapped(v, i, j)[m] =
                IF m = i THEN v[j] ELSE IF m = j THEN v[i] ELSE v[m]
      <4>1. v \in IntArrays(n)
        BY <3>1
      <4>2. i \in 0 .. n - 1 /\ j \in 0 .. n - 1 /\ i \in first .. last /\ j \in first .. last
        BY <3>1
      <4>3. first \in Int /\ last \in Int
        BY <3>1
      <4>4. \A w \in IntArrays(n) : \A c, d \in 0 .. n - 1 :
                c \in first .. last /\ d \in first .. last =>
                    /\ Rearranges(Swapped(w, c, d), w, n, first, last)
                    /\ \A m \in 0 .. n - 1 : Swapped(w, c, d)[m] =
                            IF m = c THEN w[d] ELSE IF m = d THEN w[c] ELSE w[m]
        BY ONLY <4>3, n \in Nat, RearrangesSwap
      <4> QED
        BY ONLY <4>1, <4>2, <4>4
    <3> QED
      BY <3>2 DEF v, i, j
  <2>5. /\ t.v = Swapped(s.v, s.i, s.j) /\ t.i = s.i + 1 /\ t.j = s.j - 1
        /\ t = [v |-> t.v, i |-> t.i, j |-> t.j]
    BY <2>1
  <2> HIDE DEF t
  <2>6. Rearranges(t.v, x, n, first, last)
    BY <1>1, <2>4, <2>5, RearrangesTrans
  <2>7. t.v \in IntArrays(n)
    BY <2>6 DEF Rearranges
  <2>8. \A m \in first .. t.i - 1 : t.v[m] <= pivot
    <3> TAKE m \in first .. t.i - 1
    <3>1. m \in 0 .. n - 1 /\ (m = s.i \/ m \in first .. s.i - 1)
      BY <1>1, <2>2, <2>5
    <3>2. t.v[m] = IF m = s.i THEN s.v[s.j] ELSE s.v[m]
      <4>1. m # s.i => m # s.j
        BY <1>1, <1>7, <3>1
      <4> QED
        BY <2>4, <2>5, <3>1, <4>1
    <3> QED
      BY <1>1, <1>3, <1>7, <2>3, <3>1, <3>2
  <2>9. \A m \in t.j + 1 .. last : t.v[m] >= pivot
    <3> TAKE m \in t.j + 1 .. last
    <3>1. m \in 0 .. n - 1 /\ (m = s.j \/ m \in s.j + 1 .. last)
      BY <1>1, <2>2, <2>5
    <3>2. t.v[m] = IF m = s.j THEN s.v[s.i] ELSE s.v[m]
      <4>1. m # s.j => m # s.i
        BY <1>1, <1>7, <3>1
      <4> QED
        BY <2>4, <2>5, <3>1, <4>1
    <3> QED
      BY <1>1, <1>3, <1>7, <2>3, <3>1, <3>2
  <2>10. Splits3(t, x, n, first, last, pivot)
    BY <1>1, <1>7, <2>2, <2>5, <2>6, <2>7, <2>8, <2>9 DEF Splits3
  <2>11. first < t.i /\ t.j < last /\ (t.i > t.j \/ t.j - t.i <= last - first - (k + 1))
    BY <1>1, <1>2, <1>7, <2>5
  <2> QED
    BY <2>10, <2>11 DEF PartitionInv, t
<1> QED
  BY <1>4, <1>5, <1>6, <1>7

\* The partition ends, with two parts that are each shorter than the range.
LEMMA PartitionSplits ==
    ASSUME NEW n \in Nat, NEW first \in Nat, NEW last \in 0 .. n - 1, first <= last,
           NEW x \in IntArrays(n)
    PROVE  LET s == Partition(x, first, last)
           IN  /\ Splits3(s, x, n, first, last, x[(first + last) \div 2])
               /\ first < s.i /\ s.j < last /\ s.i > s.j
<1> DEFINE pivot == x[(first + last) \div 2]
           start == [v |-> x, i |-> first, j |-> last]
           N == last - first + 1
           Is(g) == g = [k \in 0 .. N |-> IF k = 0 THEN start ELSE PartitionStep(g[k - 1], pivot)]
           after == CHOOSE g : Is(g)
           J == {s \in [v : IntArrays(n), i : Int, j : Int] \X Nat :
                    PartitionInv(s[1], x, n, first, last, pivot, s[2])}
           F == [s \in J |-> PartitionStep(s[1], pivot)]
<1>0. N \in Nat
  OBVIOUS
<1>1. Partition(x, first, last) = after[N]
  BY DEF Partition
<1>2. (first + last) \div 2 \in 0 .. n - 1
  OBVIOUS
<1>3. pivot \in Int
  BY <1>2 DEF IntArrays
<1>4. PartitionInv(start, x, n, first, last, pivot, 0) /\ start \in [v : IntArrays(n), i : Int, j : Int]
  BY PartitionStarts
<1> HIDE DEF pivot, start
<1>5. <<start, 0>> \in J
  BY <1>4
<1>6. ASSUME NEW s, NEW k, k \in 0 .. N - 1, <<s, k>> \in J
      PROVE  F[<<s, k>>] = PartitionStep(s, pivot) /\ <<F[<<s, k>>], k + 1>> \in J
  <2>1. F[<<s, k>>] = PartitionStep(s, pivot)
    BY <1>6
  <2>2. PartitionInv(s, x, n, first, last, pivot, k) /\ k \in Nat
    BY <1>6
  <2>3. PartitionInv(PartitionStep(s, pivot), x, n, first, last, pivot, k + 1)
    BY <1>3, <2>2, PartitionStepKeeps
  <2>4. PartitionStep(s, pivot) \in [v : IntArrays(n), i : Int, j : Int]
    BY <2>3 DEF PartitionInv, Splits3
  <2> QED
    BY <2>1, <2>2, <2>3, <2>4
<1> HIDE DEF J, F, N
<1>7. PICK g : LoopOf(g, F, start, N) /\ \A k \in 0 .. N : <<g[k], k>> \in J
  BY <1>0, <1>5, <1>6, LoopExists
<1>8. Is(g)
  <2>1. \A k \in 0 .. N : k # 0 => F[<<g[k - 1], k - 1>>] = PartitionStep(g[k - 1], pivot)
    <3> SUFFICES ASSUME NEW k \in 0 .. N, k # 0
                 PROVE  F[<<g[k - 1], k - 1>>] = PartitionStep(g[k - 1], pivot)
      OBVIOUS
    <3>1. k - 1 \in 0 .. N - 1 /\ k - 1 \in 0 .. N
      BY <1>0
    <3>2. <<g[k - 1], k - 1>> \in J
      BY <1>7, <3>1
    <3> QED
      BY <1>6, <3>1, <3>2
  <2>2. g = [k \in 0 .. N |-> IF k = 0 THEN start ELSE F[<<g[k - 1], k - 1>>]]
    BY <1>7 DEF LoopOf
  <2> QED
    BY <2>1, <2>2
<1>9. Is(after)
  <2> HIDE DEF Is
  <2> QED
    BY <1>8
<1> HIDE DEF after
<1>10. \A k \in 0 .. N - 1 : <<after[k], k>> \in J => <<after[k + 1], k + 1>> \in J
  <2> SUFFICES ASSUME NEW k \in 0 .. N - 1, <<after[k], k>> \in J
               PROVE  <<after[k + 1], k + 1>> \in J
    OBVIOUS
  <2>1. k + 1 \in 0 .. N /\ k + 1 # 0 /\ (k + 1) - 1 = k
    BY <1>0
  <2>2. after[k + 1] = PartitionStep(after[k], pivot)
    BY <1>9, <2>1
  <2> QED
    BY <1>6, <2>2
<1>11. after[0] = start
  BY <1>0, <1>9
<1>12. <<after[N], N>> \in J
  <2>1. \A k \in 0 .. N : <<after[k], k>> \in J
    BY <1>0, <1>5, <1>10, <1>11, LoopKeeps
  <2> QED
    BY <1>0, <2>1
<1> DEFINE s == Partition(x, first, last)
<1>13. PartitionInv(s, x, n, first, last, pivot, N)
  BY <1>1, <1>12 DEF J
<1> HIDE DEF s
<1>14. Splits3(s, x, n, first, last, pivot) /\ s.i \in Int /\ s.j \in Int
  BY <1>13 DEF PartitionInv, Splits3
<1>15. s.i > s.j
  BY <1>13, <1>14 DEF PartitionInv, N
<1>16. first < s.i /\ s.j < last
  BY <1>13, <1>14, <1>15 DEF PartitionInv
<1> QED
  BY <1>14, <1>15, <1>16 DEF s, pivot

RangesOf(n) == {r \in [x : IntArrays(n), first : 0 .. n - 1, last : 0 .. n - 1] :
                    r.first <= r.last}

SortsUpTo(F, n, d) ==
    /\ F \in [RangesOf(n) -> IntArrays(n)]
    /\ \A r \in RangesOf(n) : r.last - r.first < d =>
            Sorts(F[r], r.x, n, r.first, r.last)

\* A part, of a range whose other part may have been sorted.
LEMMA SortPartSorts ==
    ASSUME NEW n \in Nat, NEW d \in Nat, NEW F, SortsUpTo(F, n, d),
           NEW x \in IntArrays(n), NEW first \in Nat, NEW last \in -1 .. n - 1
    PROVE  /\ SortPart(F, x, first, last) \in IntArrays(n)
           /\ last - first < d => Sorts(SortPart(F, x, first, last), x, n, first, last)
<1>1. CASE first >= last
  <2>1. SortPart(F, x, first, last) = x
    BY <1>1 DEF SortPart
  <2>2. Rearranges(x, x, n, first, last)
    BY RearrangesSame
  <2>3. InOrder(x, first, last)
    BY <1>1 DEF InOrder
  <2> QED
    BY <2>1, <2>2, <2>3 DEF Sorts
<1>2. CASE ~(first >= last) /\ last - first > RangeCutoff
  <2> DEFINE r == [x |-> x, first |-> first, last |-> last]
  <2>1. SortPart(F, x, first, last) = F[r]
    BY <1>2 DEF SortPart
  <2>2. r \in RangesOf(n)
    BY <1>2 DEF RangesOf
  <2>3. r.x = x /\ r.first = first /\ r.last = last
    OBVIOUS
  <2> HIDE DEF r
  <2> QED
    BY <2>1, <2>2, <2>3 DEF SortsUpTo
<1>3. CASE ~(first >= last) /\ ~(last - first > RangeCutoff)
  <2>1. SortPart(F, x, first, last) = Insertsort(x, first, last)
    BY <1>3 DEF SortPart
  <2>2. Sorts(Insertsort(x, first, last), x, n, first, last)
    BY InsertsortSorts
  <2> QED
    BY <2>1, <2>2 DEF Sorts, Rearranges
<1> QED
  BY <1>1, <1>2, <1>3

\* A range is in order when both its parts are.
LEMMA BothPartsSorted ==
    ASSUME NEW n \in Nat, NEW d \in Nat, NEW F, SortsUpTo(F, n, d),
           NEW r \in RangesOf(n)
    PROVE  /\ SortBothParts(F, r) \in IntArrays(n)
           /\ r.last - r.first < d + 1 => Sorts(SortBothParts(F, r), r.x, n, r.first, r.last)
<1> DEFINE x == r.x
           first == r.first
           last == r.last
           s == Partition(x, first, last)
           v == s.v
           i == s.i
           j == s.j
           pivot == x[(first + last) \div 2]
           y == SortPart(F, v, first, j)
           z == SortPart(F, y, i, last)
<1>1. SortBothParts(F, r) = z
  BY DEF SortBothParts
<1>2. x \in IntArrays(n) /\ first \in 0 .. n - 1 /\ last \in 0 .. n - 1 /\ first <= last
  BY DEF RangesOf
<1> HIDE DEF x, first, last
<1>3. Splits3(s, x, n, first, last, pivot) /\ first < i /\ j < last /\ i > j
  BY <1>2, PartitionSplits, first \in Nat
<1> HIDE DEF s
<1>4. (first + last) \div 2 \in 0 .. n - 1
  BY <1>2
<1>5. pivot \in Int
  BY <1>2, <1>4 DEF IntArrays
<1> HIDE DEF pivot
<1>6. /\ v \in IntArrays(n) /\ i \in Int /\ j \in Int
      /\ Rearranges(v, x, n, first, last)
      /\ i <= last + 1 /\ first - 1 <= j
      /\ \A m \in first .. i - 1 : v[m] <= pivot
      /\ \A m \in j + 1 .. last : v[m] >= pivot
  BY <1>3 DEF Splits3
<1> HIDE DEF v, i, j
<1>7. j \in -1 .. n - 1 /\ first \in Nat /\ i \in Nat /\ last \in -1 .. n - 1
      /\ first \in Int /\ last \in Int
  BY <1>2, <1>3, <1>6
<1>8. y \in IntArrays(n) /\ (j - first < d => Sorts(y, v, n, first, j))
  BY <1>6, <1>7, SortPartSorts
<1> HIDE DEF y
<1>9. z \in IntArrays(n) /\ (last - i < d => Sorts(z, y, n, i, last))
  BY <1>7, <1>8, SortPartSorts
<1> HIDE DEF z
<1>10. ASSUME last - first < d + 1 PROVE Sorts(z, x, n, first, last)
  <2>1. Sorts(y, v, n, first, j) /\ Sorts(z, y, n, i, last)
    BY <1>2, <1>3, <1>6, <1>8, <1>9, <1>10
  <2>2. Rearranges(y, v, n, first, j) /\ Rearranges(z, y, n, i, last)
    BY <2>1 DEF Sorts
  <2>3. Rearranges(z, x, n, first, last)
    <3>1. Rearranges(y, v, n, first, last)
      BY <1>3, <1>6, <1>7, <2>2, RearrangesWider, first <= first, j <= last
    <3>2. Rearranges(z, y, n, first, last)
      BY <1>3, <1>6, <1>7, <2>2, RearrangesWider, first <= i, last <= last
    <3>3. Rearranges(y, x, n, first, last)
      BY <1>6, <3>1, RearrangesTrans
    <3> QED
      BY <3>2, <3>3, RearrangesTrans
  <2>4. /\ \A k \in (0 .. n - 1) \ (first .. j) : y[k] = v[k]
        /\ \A k \in 0 .. n - 1 : k \in first .. j =>
                \E m \in 0 .. n - 1 : m \in first .. j /\ y[k] = v[m]
    BY <1>6, <1>7, <2>2, RearrangesKeeps
  <2>5. /\ \A k \in (0 .. n - 1) \ (i .. last) : z[k] = y[k]
        /\ \A k \in 0 .. n - 1 : k \in i .. last =>
                \E m \in 0 .. n - 1 : m \in i .. last /\ z[k] = y[m]
    BY <1>7, <2>2, RearrangesKeeps
  <2>6. \A k \in 0 .. n - 1 : v[k] \in Int /\ y[k] \in Int /\ z[k] \in Int
    BY <1>6, <1>8, <1>9 DEF IntArrays
  <2>7. ASSUME NEW k \in first .. j PROVE z[k] = y[k] /\ z[k] <= pivot
    <3>1. k \in 0 .. n - 1 /\ k \notin i .. last
      BY <1>2, <1>3, <1>6
    <3>2. z[k] = y[k]
      BY <2>5, <3>1
    <3>3. PICK m \in 0 .. n - 1 : m \in first .. j /\ y[k] = v[m]
      BY <2>4, <3>1
    <3>4. m \in first .. i - 1
      BY <1>3, <1>6, <3>3
    <3> QED
      BY <1>6, <3>2, <3>3, <3>4
  <2>8. ASSUME NEW k \in j + 1 .. i - 1 PROVE z[k] = pivot
    <3>1. k \in 0 .. n - 1 /\ k \notin i .. last /\ k \notin first .. j
          /\ k \in first .. i - 1 /\ k \in j + 1 .. last
      BY <1>2, <1>3, <1>6, <1>7
    <3>2. z[k] = v[k] /\ v[k] <= pivot /\ v[k] >= pivot
      BY <1>6, <2>4, <2>5, <3>1
    <3> QED
      BY <1>5, <2>6, <3>1, <3>2
  <2>9. ASSUME NEW k \in i .. last PROVE z[k] >= pivot
    <3>1. k \in 0 .. n - 1
      BY <1>2, <1>3, <1>6
    <3>2. PICK m \in 0 .. n - 1 : m \in i .. last /\ z[k] = y[m]
      BY <2>5, <3>1
    <3>3. m \notin first .. j /\ m \in j + 1 .. last
      BY <1>3, <1>6, <3>2
    <3>4. y[m] = v[m]
      BY <2>4, <3>2, <3>3
    <3> QED
      BY <1>6, <3>2, <3>3, <3>4
  <2>10. InOrder(z, first, last)
    <3> SUFFICES ASSUME NEW k \in first .. last, NEW m \in first .. last, k < m
                 PROVE  z[k] <= z[m]
      BY DEF InOrder
    <3>1. k \in 0 .. n - 1 /\ m \in 0 .. n - 1
      BY <1>2
    <3>2. CASE k \in first .. j /\ m \in first .. j
      <4>1. y[k] <= y[m]
        BY <2>1, <3>2 DEF Sorts, InOrder
      <4> QED
        BY <2>7, <3>2, <4>1
    <3>3. CASE k \in i .. last /\ m \in i .. last
      BY <2>1, <3>3 DEF Sorts, InOrder
    <3>4. CASE k \in first .. i - 1 /\ m \in j + 1 .. last
      <4>1. z[k] <= pivot
        <5>1. k \in first .. j \/ k \in j + 1 .. i - 1
          BY <1>6, <3>4
        <5> QED
          BY <1>5, <2>7, <2>8, <5>1
      <4>2. z[m] >= pivot
        <5>1. m \in i .. last \/ m \in j + 1 .. i - 1
          BY <1>6, <3>4
        <5> QED
          BY <1>5, <2>8, <2>9, <5>1
      <4> QED
        BY <1>5, <2>6, <3>1, <4>1, <4>2
    <3> QED
      BY <1>3, <1>6, <3>2, <3>3, <3>4
  <2> QED
    BY <2>3, <2>10 DEF Sorts
<1> QED
  BY <1>1, <1>9, <1>10 DEF x, first, last

\* quicksort_range sorts its range, and leaves the rest alone.
LEMMA QuicksortRangeSorts ==
    ASSUME NEW n \in Nat, NEW first \in 0 .. n - 1, NEW last \in 0 .. n - 1, first <= last,
           NEW v \in IntArrays(n)
    PROVE  Sorts(QuicksortRange(v, first, last), v, n, first, last)
<1> DEFINE R == Ranges(v)
           N == last - first + 1
           start == [r \in R |-> r.x]
           Next(F) == [r \in R |-> SortBothParts(F, r)]
           Is(g) == g = [d \in 0 .. N |-> IF d = 0 THEN start ELSE Next(g[d - 1])]
           Sorter == CHOOSE g : Is(g)
           J == {s \in [RangesOf(n) -> IntArrays(n)] \X Nat : SortsUpTo(s[1], n, s[2])}
           F == [s \in J |-> Next(s[1])]
           whole == [x |-> v, first |-> first, last |-> last]
<1>0. N \in Nat
  OBVIOUS
<1>1. QuicksortRange(v, first, last) = Sorter[N][whole]
  BY DEF QuicksortRange
<1>2. R = RangesOf(n)
  BY DEF Ranges, RangesOf, IntArrays
<1>3. whole \in RangesOf(n) /\ whole.x = v /\ whole.first = first /\ whole.last = last
  BY DEF RangesOf
<1>4. SortsUpTo(start, n, 0) /\ start \in [RangesOf(n) -> IntArrays(n)]
  BY <1>2 DEF SortsUpTo, RangesOf
<1> HIDE DEF R, start, whole
<1>5. <<start, 0>> \in J
  BY <1>4
<1>6. ASSUME NEW s, NEW k, k \in 0 .. N - 1, <<s, k>> \in J
      PROVE  F[<<s, k>>] = Next(s) /\ <<F[<<s, k>>], k + 1>> \in J
  <2>1. F[<<s, k>>] = Next(s)
    BY <1>6
  <2>2. SortsUpTo(s, n, k) /\ k \in Nat
    BY <1>6
  <2>3. ASSUME NEW r \in RangesOf(n)
        PROVE  /\ Next(s)[r] \in IntArrays(n)
               /\ r.last - r.first < k + 1 => Sorts(Next(s)[r], r.x, n, r.first, r.last)
    <3>1. Next(s)[r] = SortBothParts(s, r)
      BY <1>2
    <3> QED
      BY <2>2, <3>1, BothPartsSorted
  <2>4. Next(s) \in [RangesOf(n) -> IntArrays(n)]
    BY <1>2, <2>3
  <2> HIDE DEF Next
  <2>5. SortsUpTo(Next(s), n, k + 1)
    BY <2>3, <2>4 DEF SortsUpTo
  <2>6. <<Next(s), k + 1>> \in J
    BY <2>2, <2>4, <2>5
  <2> HIDE DEF J, F
  <2> QED
    BY <2>1, <2>6
<1> HIDE DEF J, F, N, Next
<1>7. PICK g : LoopOf(g, F, start, N) /\ \A k \in 0 .. N : <<g[k], k>> \in J
  BY <1>0, <1>5, <1>6, LoopExists
<1>8. Is(g)
  <2>1. \A k \in 0 .. N : k # 0 => F[<<g[k - 1], k - 1>>] = Next(g[k - 1])
    <3> SUFFICES ASSUME NEW k \in 0 .. N, k # 0
                 PROVE  F[<<g[k - 1], k - 1>>] = Next(g[k - 1])
      OBVIOUS
    <3>1. k - 1 \in 0 .. N - 1 /\ k - 1 \in 0 .. N
      BY <1>0
    <3>2. <<g[k - 1], k - 1>> \in J
      BY <1>7, <3>1
    <3> QED
      BY <1>6, <3>1, <3>2
  <2>2. g = [k \in 0 .. N |-> IF k = 0 THEN start ELSE F[<<g[k - 1], k - 1>>]]
    BY <1>7 DEF LoopOf
  <2> QED
    BY <2>1, <2>2
<1>9. Is(Sorter)
  <2> HIDE DEF Is
  <2> QED
    BY <1>8
<1> HIDE DEF Sorter
<1>10. \A k \in 0 .. N - 1 : <<Sorter[k], k>> \in J => <<Sorter[k + 1], k + 1>> \in J
  <2> SUFFICES ASSUME NEW k \in 0 .. N - 1, <<Sorter[k], k>> \in J
               PROVE  <<Sorter[k + 1], k + 1>> \in J
    OBVIOUS
  <2>1. k + 1 \in 0 .. N /\ k + 1 # 0 /\ (k + 1) - 1 = k
    BY <1>0
  <2>2. Sorter[k + 1] = Next(Sorter[k])
    BY <1>9, <2>1
  <2> QED
    BY <1>6, <2>2
<1>11. Sorter[0] = start
  BY <1>0, <1>9
<1>12. SortsUpTo(Sorter[N], n, N)
  <2>1. \A k \in 0 .. N : <<Sorter[k], k>> \in J
    BY <1>0, <1>5, <1>10, <1>11, LoopKeeps
  <2>2. <<Sorter[N], N>> \in J
    BY <1>0, <2>1
  <2> QED
    BY <2>2 DEF J
<1>13. whole.last - whole.first < N
  BY <1>3 DEF N
<1>14. Sorts(Sorter[N][whole], whole.x, n, whole.first, whole.last)
  BY <1>3, <1>12, <1>13 DEF SortsUpTo
<1> QED
  BY <1>1, <1>3, <1>14

\* So does the choice between it and insertsort for a part ...
LEMMA QuicksortPartSorts ==
    ASSUME NEW n \in Nat, NEW first \in Nat, NEW len \in Nat, first + len <= n,
           NEW x \in IntArrays(n)
    PROVE  Sorts(QuicksortPart(x, first, len), x, n, first, first + len - 1)
<1> DEFINE last == first + len - 1
<1>1. last \in -1 .. n - 1
  OBVIOUS
<1>2. CASE len > QuickCutoff
  <2>1. QuicksortPart(x, first, len) = QuicksortRange(x, first, last)
    BY <1>2 DEF QuicksortPart
  <2>2. first \in 0 .. n - 1 /\ last \in 0 .. n - 1 /\ first <= last
    BY <1>2, SortingAssumption
  <2> HIDE DEF last
  <2>3. Sorts(QuicksortRange(x, first, last), x, n, first, last)
    BY <2>2, QuicksortRangeSorts
  <2> QED
    BY <2>1, <2>3 DEF last
<1>3. CASE ~(len > QuickCutoff)
  <2>1. QuicksortPart(x, first, len) = Insertsort(x, first, last)
    BY <1>3 DEF QuicksortPart
  <2> HIDE DEF last
  <2>2. Sorts(Insertsort(x, first, last), x, n, first, last)
    BY <1>1, InsertsortSorts
  <2> QED
    BY <2>1, <2>2 DEF last
<1> QED
  BY <1>2, <1>3

\* ... and for the array as a whole.
LEMMA QuicksortSorts ==
    ASSUME NEW n \in Nat, NEW x \in IntArrays(n)
    PROVE  Sorts(Quicksort(x), x, n, 0, n - 1)
<1>1. Length(x) = n
  <2>1. DOMAIN x = 0 .. n - 1
    BY DEF IntArrays
  <2>2. Cardinality(0 .. n - 1) = n
    BY FS_Interval
  <2> QED
    BY <2>1, <2>2 DEF Length
<1>2. Sorts(QuicksortPart(x, 0, n), x, n, 0, 0 + n - 1)
  BY QuicksortPartSorts
<1>3. 0 + n - 1 = n - 1
  OBVIOUS
<1> QED
  BY <1>1, <1>2, <1>3 DEF Quicksort

-----------------------------------------------------------------------------
(***************************************************************************)
(* Digits of numbers.                                                      *)
(***************************************************************************)

\* RadixPower is what its recursion says.
LEMMA RadixPowerIs ==
    /\ RadixPower[0] = 1
    /\ \A k \in 0 .. Digits : RadixPower[k] \in Nat \ {0}
    /\ \A k \in 0 .. Digits - 1 : RadixPower[k + 1] = Radix * RadixPower[k]
<1> DEFINE Is(g) == g = [k \in 0 .. Digits |-> IF k = 0 THEN 1 ELSE Radix * g[k - 1]]
           J == (Nat \ {0}) \X Nat
           F == [s \in J |-> Radix * s[1]]
<1>0. Digits \in Nat /\ Radix \in Nat \ {0}
  BY SortingAssumption
<1>1. RadixPower = CHOOSE g : Is(g)
  BY DEF RadixPower
<1>2. <<1, 0>> \in J
  OBVIOUS
<1>3. ASSUME NEW s, NEW k, k \in 0 .. Digits - 1, <<s, k>> \in J
      PROVE  F[<<s, k>>] = Radix * s /\ <<F[<<s, k>>], k + 1>> \in J
  <2>1. F[<<s, k>>] = Radix * s
    BY <1>3
  <2>2. Radix * s \in Nat \ {0}
    BY <1>0, <1>3
  <2> QED
    BY <1>3, <2>1, <2>2
<1> HIDE DEF J, F
<1>4. PICK g : LoopOf(g, F, 1, Digits) /\ \A k \in 0 .. Digits : <<g[k], k>> \in J
  BY <1>0, <1>2, <1>3, LoopExists
<1>5. Is(g)
  <2>1. \A k \in 0 .. Digits : k # 0 => F[<<g[k - 1], k - 1>>] = Radix * g[k - 1]
    <3> SUFFICES ASSUME NEW k \in 0 .. Digits, k # 0
                 PROVE  F[<<g[k - 1], k - 1>>] = Radix * g[k - 1]
      OBVIOUS
    <3>1. k - 1 \in 0 .. Digits - 1 /\ k - 1 \in 0 .. Digits
      BY <1>0
    <3>2. <<g[k - 1], k - 1>> \in J
      BY <1>4, <3>1
    <3> QED
      BY <1>3, <3>1, <3>2
  <2>2. g = [k \in 0 .. Digits |-> IF k = 0 THEN 1 ELSE F[<<g[k - 1], k - 1>>]]
    BY <1>4 DEF LoopOf
  <2> QED
    BY <2>1, <2>2
<1>6. Is(RadixPower)
  <2> HIDE DEF Is
  <2> QED
    BY <1>1, <1>5
<1>7. RadixPower[0] = 1
  BY <1>0, <1>6
<1>8. \A k \in 0 .. Digits - 1 : RadixPower[k + 1] = Radix * RadixPower[k]
  <2> SUFFICES ASSUME NEW k \in 0 .. Digits - 1
               PROVE  RadixPower[k + 1] = Radix * RadixPower[k]
    OBVIOUS
  <2>1. k + 1 \in 0 .. Digits /\ k + 1 # 0 /\ (k + 1) - 1 = k
    BY <1>0
  <2> QED
    BY <1>6, <2>1
<1>9. \A k \in 0 .. Digits - 1 : <<RadixPower[k], k>> \in J => <<RadixPower[k + 1], k + 1>> \in J
  BY <1>3, <1>8
<1>10. \A k \in 0 .. Digits : <<RadixPower[k], k>> \in J
  BY <1>0, <1>2, <1>7, <1>9, LoopKeeps
<1> QED
  BY <1>7, <1>8, <1>10 DEF J

\* A number by its part below a digit, the digit, and its part above it.
LEMMA DivModTwice ==
    ASSUME NEW P \in Nat \ {0}, NEW R \in Nat \ {0}, NEW u \in Nat
    PROVE  /\ u \div P = (u \div (R * P)) * R + ((u \div P) % R)
           /\ u % (R * P) = ((u \div P) % R) * P + (u % P)
<1>1. PICK q \in Nat, r \in 0 .. P - 1 : u = q * P + r /\ u \div P = q /\ u % P = r
  BY DivModOf
<1>2. PICK h \in Nat, d \in 0 .. R - 1 : q = h * R + d /\ q \div R = h /\ q % R = d
  BY DivModOf
<1>3. R * P \in Nat \ {0}
  OBVIOUS
<1>4. d * P + r \in 0 .. R * P - 1
  <2>1. d * P <= (R - 1) * P
    OBVIOUS
  <2>2. (R - 1) * P = R * P - P
    OBVIOUS
  <2>3. d * P \in Nat
    OBVIOUS
  <2> QED
    BY <2>1, <2>2, <2>3, <1>3
<1>5. u = h * (R * P) + (d * P + r)
  <2>1. (h * R + d) * P = h * (R * P) + d * P
    OBVIOUS
  <2> QED
    BY <1>1, <1>2, <2>1
<1>6. u \div (R * P) = h /\ u % (R * P) = d * P + r
  <2> DEFINE N == R * P
             e == d * P + r
  <2>1. N \in Nat \ {0} /\ e \in 0 .. N - 1 /\ u = h * N + e
    BY <1>3, <1>4, <1>5
  <2> HIDE DEF N, e
  <2>2. (h * N + e) \div N = h /\ (h * N + e) % N = e
    BY <2>1, DivModIs
  <2> QED
    BY <2>1, <2>2 DEF N, e
<1> QED
  BY <1>1, <1>2, <1>6

High(u, k) == u \div RadixPower[k]
Low(u, k)  == u % RadixPower[k]

\* One digit of a number, the digits above it and those below.
LEMMA DigitSplits ==
    ASSUME NEW u \in Nat, NEW k \in 0 .. Digits - 1
    PROVE  /\ Digit(u, k) \in 0 .. Radix - 1
           /\ High(u, k) = High(u, k + 1) * Radix + Digit(u, k)
           /\ Low(u, k + 1) = Digit(u, k) * RadixPower[k] + Low(u, k)
           /\ Low(u, k) \in 0 .. RadixPower[k] - 1
           /\ High(u, k) \in Nat
<1> DEFINE P == RadixPower[k]
<1>0. Digits \in Nat /\ Radix \in Nat \ {0} /\ k \in 0 .. Digits
  BY SortingAssumption
<1>1. P \in Nat \ {0} /\ RadixPower[k + 1] = Radix * P
  BY <1>0, RadixPowerIs
<1>2. /\ u \div P = (u \div (Radix * P)) * Radix + ((u \div P) % Radix)
      /\ u % (Radix * P) = ((u \div P) % Radix) * P + (u % P)
  <2> HIDE DEF P
  <2> QED
    BY <1>0, <1>1, DivModTwice
<1>3. PICK q \in Nat, r \in 0 .. P - 1 : u = q * P + r /\ u \div P = q /\ u % P = r
  <2> HIDE DEF P
  <2> QED
    BY <1>1, DivModOf
<1>4. PICK h \in Nat, d \in 0 .. Radix - 1 : q = h * Radix + d /\ q \div Radix = h /\ q % Radix = d
  BY <1>0, DivModOf
<1>5. /\ Digit(u, k) = (u \div P) % Radix
      /\ High(u, k) = u \div P /\ High(u, k + 1) = u \div (Radix * P)
      /\ Low(u, k) = u % P /\ Low(u, k + 1) = u % (Radix * P)
  BY <1>1 DEF Digit, High, Low
<1> HIDE DEF P
<1>6. Digit(u, k) = d /\ High(u, k) = q /\ Low(u, k) = r
  BY <1>3, <1>4, <1>5
<1>7. High(u, k) = High(u, k + 1) * Radix + Digit(u, k)
  BY <1>2, <1>5
<1>8. Low(u, k + 1) = Digit(u, k) * P + Low(u, k)
  BY <1>2, <1>5
<1> QED
  BY <1>3, <1>4, <1>6, <1>7, <1>8 DEF P

-----------------------------------------------------------------------------
(***************************************************************************)
(* countsort32 and radixsort32.                                            *)
(***************************************************************************)

(***************************************************************************)
(* Where an element stands once all are ordered by their digit D, those of *)
(* one digit as they were.                                                 *)
(***************************************************************************)
Before(D, n, j) == {i \in 0 .. n - 1 : D[i] < D[j] \/ (D[i] = D[j] /\ i < j)}
Rank(D, n, j) == Cardinality(Before(D, n, j))

\* Ranks follow the order of the digits and, for one digit, of the places.
LEMMA RankOrders ==
    ASSUME NEW n \in Nat, NEW D \in [0 .. n - 1 -> Int], NEW i \in 0 .. n - 1, NEW j \in 0 .. n - 1
    PROVE  /\ Rank(D, n, i) \in 0 .. n - 1
           /\ Rank(D, n, i) < Rank(D, n, j) <=> D[i] < D[j] \/ (D[i] = D[j] /\ i < j)
           /\ Rank(D, n, i) = Rank(D, n, j) <=> i = j
<1>1. \A k \in 0 .. n - 1 : D[k] \in Int
  OBVIOUS
<1>2. \A k \in 0 .. n - 1 : IsFiniteSet(Before(D, n, k)) /\ Rank(D, n, k) \in 0 .. n - 1
  <2> SUFFICES ASSUME NEW k \in 0 .. n - 1
               PROVE  IsFiniteSet(Before(D, n, k)) /\ Rank(D, n, k) \in 0 .. n - 1
    OBVIOUS
  <2>1. Before(D, n, k) \in SUBSET ((0 .. n - 1) \ {k})
    BY <1>1 DEF Before
  <2>2. IsFiniteSet(0 .. n - 1) /\ Cardinality(0 .. n - 1) = n
    BY FS_Interval
  <2>3. IsFiniteSet((0 .. n - 1) \ {k}) /\ Cardinality((0 .. n - 1) \ {k}) = n - 1
    <3> DEFINE I == 0 .. n - 1
    <3>1. IsFiniteSet(I) /\ Cardinality(I) = n /\ k \in I
      BY <2>2
    <3> HIDE DEF I
    <3>2. IsFiniteSet(I \ {k}) /\ Cardinality(I \ {k}) = Cardinality(I) - 1
      BY <3>1, FS_RemoveElement
    <3> QED
      BY <3>1, <3>2 DEF I
  <2>4. IsFiniteSet(Before(D, n, k)) /\ Cardinality(Before(D, n, k)) <= n - 1
    BY <2>1, <2>3, FS_Subset
  <2>5. Cardinality(Before(D, n, k)) \in Nat
    BY <2>4, FS_CardinalityType
  <2> QED
    BY <2>4, <2>5 DEF Rank
<1>3. \A k, m \in 0 .. n - 1 : D[k] < D[m] \/ (D[k] = D[m] /\ k < m) => Rank(D, n, k) < Rank(D, n, m)
  <2> SUFFICES ASSUME NEW k \in 0 .. n - 1, NEW m \in 0 .. n - 1,
                      D[k] < D[m] \/ (D[k] = D[m] /\ k < m)
               PROVE  Rank(D, n, k) < Rank(D, n, m)
    OBVIOUS
  <2>1. k \in Before(D, n, m) /\ k \notin Before(D, n, k)
    BY <1>1 DEF Before
  <2>2. Before(D, n, k) \in SUBSET Before(D, n, m)
    BY <1>1 DEF Before
  <2>3. IsFiniteSet(Before(D, n, m)) /\ Rank(D, n, k) \in Nat /\ Rank(D, n, m) \in Nat
    <3>1. IsFiniteSet(Before(D, n, m))
      BY <1>2
    <3>2. Rank(D, n, k) \in 0 .. n - 1 /\ Rank(D, n, m) \in 0 .. n - 1
      BY <1>2
    <3> QED
      BY <3>1, <3>2
  <2>4. /\ Cardinality(Before(D, n, k)) <= Cardinality(Before(D, n, m))
        /\ Cardinality(Before(D, n, m)) # Cardinality(Before(D, n, k))
    BY <2>1, <2>2, <2>3, FS_Subset
  <2> QED
    BY <2>3, <2>4 DEF Rank
<1>4. D[i] < D[j] \/ (D[i] = D[j] /\ i < j) \/ D[j] < D[i] \/ (D[j] = D[i] /\ j < i) \/ i = j
  BY <1>1
<1>5. Rank(D, n, i) \in Int /\ Rank(D, n, j) \in Int
  BY <1>2
<1>6. i = j => ~(D[i] < D[j] \/ (D[i] = D[j] /\ i < j))
  BY <1>1
<1>7. D[i] < D[j] \/ (D[i] = D[j] /\ i < j) => Rank(D, n, i) < Rank(D, n, j)
  BY <1>3
<1>8. D[j] < D[i] \/ (D[j] = D[i] /\ j < i) => Rank(D, n, j) < Rank(D, n, i)
  BY <1>3
<1>9. i = j => Rank(D, n, i) = Rank(D, n, j)
  OBVIOUS
<1>10. D[j] < D[i] \/ (D[j] = D[i] /\ j < i) => ~(D[i] < D[j] \/ (D[i] = D[j] /\ i < j)) /\ i # j
  BY <1>1
<1>11. D[i] < D[j] \/ (D[i] = D[j] /\ i < j) => i # j
  BY <1>1
<1>12. Rank(D, n, i) \in 0 .. n - 1
  BY <1>2
<1> QED
  BY <1>4, <1>5, <1>6, <1>7, <1>8, <1>9, <1>10, <1>11, <1>12

\* Every place is the place of one element.
LEMMA RankFills ==
    ASSUME NEW n \in Nat, NEW D \in [0 .. n - 1 -> Int]
    PROVE  \E p \in Perms(n) : \A k \in 0 .. n - 1 : Rank(D, n, p[k]) = k
<1> DEFINE I == 0 .. n - 1
           f == [j \in I |-> Rank(D, n, j)]
           p == [k \in I |-> CHOOSE j \in I : f[j] = k]
<1>1. \A i, j \in I : f[i] \in I /\ (f[i] = f[j] => i = j)
  BY RankOrders
<1>2. \A j \in I : f[j] = Rank(D, n, j)
  OBVIOUS
<1>3. f \in Injection(I, I)
  <2>1. f \in [I -> I]
    BY <1>1
  <2> HIDE DEF f
  <2> QED
    BY <1>1, <2>1 DEF Injection, IsInjective
<1>4. IsFiniteSet(I)
  BY FS_Interval
<1> HIDE DEF f
<1>5. f \in Surjection(I, I)
  BY <1>3, <1>4, FS_Injection
<1>6. \A k \in I : \E j \in I : f[j] = k
  BY <1>5 DEF Surjection
<1>7. \A k \in I : p[k] \in I /\ f[p[k]] = k
  BY <1>6
<1>8. p \in [I -> I]
  BY <1>7
<1> HIDE DEF p
<1>9. \A i, j \in I : p[i] = p[j] => i = j
  BY <1>7
<1>10. \A j \in I : p[f[j]] = j /\ f[j] \in I
  BY <1>1, <1>7
<1>11. p \in Perms(n)
  BY <1>8, <1>9, <1>10 DEF Perms
<1> QED
  BY <1>2, <1>7, <1>11

\* No two elements have one rank.
LEMMA RanksDiffer ==
    ASSUME NEW n \in Nat, NEW D \in [0 .. n - 1 -> Int]
    PROVE  \A i, j \in 0 .. n - 1 : Rank(D, n, i) = Rank(D, n, j) => i = j
BY RankOrders

\* Elements whose digit is d or less, those of digit d only before place m.
UpTo(D, n, d, m) == {i \in 0 .. n - 1 : D[i] < d \/ (D[i] = d /\ i < m)}

\* After k steps of countsort32: the last k elements stand at their rank.
CountInv(s, x, D, n, k) ==
    /\ s.offsets \in [0 .. Radix - 1 -> Int]
    /\ s.out \in [0 .. n - 1 -> Int]
    /\ \A d \in 0 .. Radix - 1 : s.offsets[d] = Cardinality(UpTo(D, n, d, n - k))
    /\ \A i \in n - k .. n - 1 : s.out[Rank(D, n, i)] = x[i]

\* The offsets that countsort32 begins with.
LEMMA CountStarts ==
    ASSUME NEW n \in Nat, NEW x \in [0 .. n - 1 -> Nat], NEW shr \in 0 .. Digits - 1,
           NEW D, D = [i \in 0 .. n - 1 |-> Digit(x[i], shr)]
    PROVE  /\ D \in [0 .. n - 1 -> 0 .. Radix - 1]
           /\ CountInv([offsets |-> Offsets(x, shr), out |-> x], x, D, n, 0)
<1> DEFINE s == [offsets |-> Offsets(x, shr), out |-> x]
<1>1. D \in [0 .. n - 1 -> 0 .. Radix - 1]
  <2>1. \A i \in 0 .. n - 1 : Digit(x[i], shr) \in 0 .. Radix - 1
    BY DigitSplits
  <2> QED
    BY <2>1
<1>2. \A d \in 0 .. Radix - 1 : {i \in DOMAIN x : Digit(x[i], shr) <= d} = UpTo(D, n, d, n - 0)
  <2> SUFFICES ASSUME NEW d \in 0 .. Radix - 1
               PROVE  {i \in DOMAIN x : Digit(x[i], shr) <= d} = UpTo(D, n, d, n - 0)
    OBVIOUS
  <2>1. DOMAIN x = 0 .. n - 1 /\ d \in Int
    BY SortingAssumption
  <2>2. \A i \in 0 .. n - 1 : D[i] = Digit(x[i], shr) /\ D[i] \in Int
    BY <1>1
  <2>3. \A i \in 0 .. n - 1 : Digit(x[i], shr) <= d <=> D[i] < d \/ (D[i] = d /\ i < n - 0)
    BY <2>1, <2>2
  <2> QED
    BY <2>1, <2>3 DEF UpTo
<1>3. \A d \in 0 .. Radix - 1 : IsFiniteSet(UpTo(D, n, d, n - 0)) /\ Cardinality(UpTo(D, n, d, n - 0)) \in Nat
  <2>1. \A d \in 0 .. Radix - 1 : UpTo(D, n, d, n - 0) \in SUBSET (0 .. n - 1)
    BY DEF UpTo
  <2>2. IsFiniteSet(0 .. n - 1)
    BY FS_Interval
  <2>3. \A d \in 0 .. Radix - 1 : IsFiniteSet(UpTo(D, n, d, n - 0))
    BY <2>1, <2>2, FS_Subset
  <2> QED
    BY <2>3, FS_CardinalityType
<1>4. s.offsets \in [0 .. Radix - 1 -> Int]
      /\ \A d \in 0 .. Radix - 1 : s.offsets[d] = Cardinality(UpTo(D, n, d, n - 0))
  <2>1. s.offsets = [d \in 0 .. Radix - 1 |-> Cardinality({i \in DOMAIN x : Digit(x[i], shr) <= d})]
    BY DEF Offsets
  <2>2. \A d \in 0 .. Radix - 1 : s.offsets[d] = Cardinality(UpTo(D, n, d, n - 0))
    BY <1>2, <2>1
  <2>3. \A d \in 0 .. Radix - 1 : s.offsets[d] \in Int
    <3> HIDE DEF s
    <3> SUFFICES ASSUME NEW d \in 0 .. Radix - 1 PROVE s.offsets[d] \in Int
      OBVIOUS
    <3>1. s.offsets[d] = Cardinality(UpTo(D, n, d, n - 0))
      BY <2>2
    <3>2. Cardinality(UpTo(D, n, d, n - 0)) \in Nat
      BY <1>3
    <3>3. \A c \in Nat : c \in Int
      OBVIOUS
    <3> QED
      BY <3>1, <3>2, <3>3, Zenon
  <2> QED
    BY <2>1, <2>2, <2>3
<1>5. s.out \in [0 .. n - 1 -> Int] /\ s.out = x
  OBVIOUS
<1>6. \A i \in n - 0 .. n - 1 : s.out[Rank(D, n, i)] = x[i]
  OBVIOUS
<1> QED
  BY <1>1, <1>4, <1>5, <1>6 DEF CountInv

\* A step of countsort32 puts its element at its rank.
LEMMA CountStepKeeps ==
    ASSUME NEW n \in Nat, NEW x \in [0 .. n - 1 -> Nat], NEW shr \in 0 .. Digits - 1,
           NEW D \in [0 .. n - 1 -> 0 .. Radix - 1], D = [i \in 0 .. n - 1 |-> Digit(x[i], shr)],
           NEW k \in 0 .. n - 1, NEW s, CountInv(s, x, D, n, k)
    PROVE  CountInv(CountStep(s, x, shr, n - (k + 1)), x, D, n, k + 1)
<1> DEFINE i == n - (k + 1)
           d == Digit(x[i], shr)
           offsets == [s.offsets EXCEPT ![d] = @ - 1]
           out == [s.out EXCEPT ![s.offsets[d] - 1] = x[i]]
           t == CountStep(s, x, shr, i)
<1>0. i \in 0 .. n - 1 /\ i < n - k /\ n - k \in Int /\ n - (k + 1) = i /\ Radix \in Nat
  <2>1. Radix \in Nat
    BY SortingAssumption
  <2>2. i \in 0 .. n - 1 /\ i < n - k /\ n - k \in Int /\ n - (k + 1) = i
    OBVIOUS
  <2> QED
    BY <2>1, <2>2
<1>1. t.offsets = offsets /\ t.out = out
  BY DEF CountStep
<1>2. D[i] = d /\ d \in 0 .. Radix - 1
  BY <1>0
<1>3. /\ s.offsets \in [0 .. Radix - 1 -> Int] /\ s.out \in [0 .. n - 1 -> Int]
      /\ \A e \in 0 .. Radix - 1 : s.offsets[e] = Cardinality(UpTo(D, n, e, n - k))
      /\ \A j \in n - k .. n - 1 : s.out[Rank(D, n, j)] = x[j]
  BY DEF CountInv
<1> HIDE DEF i, d, t
<1>4. \A j \in 0 .. n - 1 : D[j] \in Int
  BY <1>0
<1>5. UpTo(D, n, d, i) = Before(D, n, i)
  BY <1>2 DEF UpTo, Before
<1>6. UpTo(D, n, d, n - k) = Before(D, n, i) \cup {i} /\ i \notin Before(D, n, i)
  <2>1. \A j \in 0 .. n - 1 : j < n - k <=> j < i \/ j = i
    BY <1>0 DEF i
  <2>2. i \in 0 .. n - 1 /\ D[i] = d
    BY <1>0, <1>2
  <2>3. \A j \in 0 .. n - 1 : D[j] < d \/ (D[j] = d /\ j < n - k)
                              <=> (D[j] < D[i] \/ (D[j] = D[i] /\ j < i)) \/ j = i
    BY <2>1, <2>2
  <2>4. UpTo(D, n, d, n - k) = Before(D, n, i) \cup {i}
    BY <2>2, <2>3 DEF UpTo, Before
  <2>5. ~(D[i] < D[i]) /\ ~(i < i)
    BY <1>4, <2>2
  <2>6. i \notin Before(D, n, i)
    BY <2>5 DEF Before
  <2> QED
    BY <2>4, <2>6
<1>7. IsFiniteSet(Before(D, n, i)) /\ Cardinality(Before(D, n, i)) \in Nat
  <2>1. Before(D, n, i) \in SUBSET (0 .. n - 1)
    BY DEF Before
  <2>2. IsFiniteSet(0 .. n - 1)
    BY FS_Interval
  <2>3. IsFiniteSet(Before(D, n, i))
    BY <2>1, <2>2, FS_Subset
  <2> QED
    BY <2>3, FS_CardinalityType
<1>8. s.offsets[d] - 1 = Rank(D, n, i)
  <2>1. Cardinality(UpTo(D, n, d, n - k)) = Cardinality(Before(D, n, i)) + 1
    BY <1>6, <1>7, FS_AddElement
  <2>2. s.offsets[d] = Cardinality(Before(D, n, i)) + 1
    BY <1>2, <1>3, <2>1
  <2> QED
    BY <1>7, <2>2 DEF Rank
<1>9. Rank(D, n, i) \in 0 .. n - 1
  <2>1. D \in [0 .. n - 1 -> Int]
    BY <1>4
  <2> QED
    BY <1>0, <2>1, RankOrders
<1>10. offsets \in [0 .. Radix - 1 -> Int]
      /\ \A e \in 0 .. Radix - 1 : offsets[e] = Cardinality(UpTo(D, n, e, i))
  <2>1. \A e \in 0 .. Radix - 1 : e # d => UpTo(D, n, e, i) = UpTo(D, n, e, n - k)
    <3> SUFFICES ASSUME NEW e \in 0 .. Radix - 1, e # d
                 PROVE  UpTo(D, n, e, i) = UpTo(D, n, e, n - k)
      OBVIOUS
    <3>1. \A j \in 0 .. n - 1 : j # i => (j < n - k <=> j < i)
      BY <1>0 DEF i
    <3>2. \A j \in 0 .. n - 1 : D[j] = e => j # i
      BY <1>2
    <3> QED
      BY <3>1, <3>2 DEF UpTo
  <2>2. offsets[d] = Cardinality(UpTo(D, n, d, i))
    BY <1>2, <1>3, <1>5, <1>8 DEF Rank
  <2>3. \A e \in 0 .. Radix - 1 : e # d => offsets[e] = s.offsets[e]
    BY <1>2, <1>3
  <2>4. offsets \in [0 .. Radix - 1 -> Int]
    <3>1. s.offsets[d] - 1 \in Int
      <4> HIDE DEF offsets
      <4>1. s.offsets[d] \in Int
        BY <1>2, <1>3
      <4> QED
        BY <4>1
    <3> QED
      BY <1>2, <1>3, <3>1
  <2> QED
    BY <1>3, <2>1, <2>2, <2>3, <2>4
<1>11. out = [s.out EXCEPT ![Rank(D, n, i)] = x[i]]
  BY <1>8
<1>12. out \in [0 .. n - 1 -> Int]
  <2>1. x[i] \in Int
    BY <1>0
  <2> HIDE DEF out
  <2> QED
    BY <1>3, <1>9, <1>11, <2>1
<1> HIDE DEF offsets, out
<1>13. \A j \in i .. n - 1 : out[Rank(D, n, j)] = x[j]
  <2> SUFFICES ASSUME NEW j \in i .. n - 1
               PROVE  out[Rank(D, n, j)] = x[j]
    OBVIOUS
  <2>1. j \in 0 .. n - 1 /\ (j = i \/ j \in n - k .. n - 1)
    BY <1>0 DEF i
  <2>2. D \in [0 .. n - 1 -> Int]
    BY <1>4
  <2>3. Rank(D, n, j) \in 0 .. n - 1 /\ (Rank(D, n, j) = Rank(D, n, i) <=> j = i)
    <3>1. j \in 0 .. n - 1 /\ i \in 0 .. n - 1
      BY <1>0, <2>1
    <3>2. \A a, b \in 0 .. n - 1 : Rank(D, n, a) = Rank(D, n, b) => a = b
      BY <2>2, RanksDiffer
    <3>3. Rank(D, n, j) \in 0 .. n - 1
      BY <2>2, <3>1, RankOrders
    <3> QED
      BY <3>1, <3>2, <3>3
  <2>4. CASE j = i
    BY <1>3, <1>9, <1>11, <2>4
  <2>5. CASE j # i
    BY <1>3, <1>11, <2>1, <2>3, <2>5
  <2> QED
    BY <2>4, <2>5
<1>14. CountInv(t, x, D, n, k + 1)
  <2>1. n - (k + 1) = i
    BY <1>0
  <2> QED
    BY <1>1, <1>10, <1>12, <1>13, <2>1 DEF CountInv
<1> QED
  BY <1>14 DEF t, i

\* countsort32 orders by one digit, and keeps the order within a digit.
LEMMA CountsortOrders ==
    ASSUME NEW n \in Nat, NEW x \in [0 .. n - 1 -> Nat], NEW shr \in 0 .. Digits - 1
    PROVE  /\ Countsort(x, shr) \in [0 .. n - 1 -> Int]
           /\ \E p \in Perms(n) :
                /\ \A i \in 0 .. n - 1 : Countsort(x, shr)[i] = x[p[i]]
                /\ \A i, j \in 0 .. n - 1 : i < j =>
                        \/ Digit(x[p[i]], shr) < Digit(x[p[j]], shr)
                        \/ Digit(x[p[i]], shr) = Digit(x[p[j]], shr) /\ p[i] < p[j]
<1> DEFINE x0 == [offsets |-> Offsets(x, shr), out |-> x]
           Next(s, k) == CountStep(s, x, shr, n - k)
           Is(g) == g = [k \in 0 .. n |-> IF k = 0 THEN x0 ELSE Next(g[k - 1], k)]
           after == CHOOSE g : Is(g)
           D == [i \in 0 .. n - 1 |-> Digit(x[i], shr)]
           T == [offsets : [0 .. Radix - 1 -> Int], out : [0 .. n - 1 -> Int]]
           J == {s \in T \X Nat : CountInv(s[1], x, D, n, s[2])}
           F == [s \in J |-> Next(s[1], s[2] + 1)]
<1>0. n \in Nat
  OBVIOUS
<1>1. Length(x) = n
  <2>1. DOMAIN x = 0 .. n - 1
    OBVIOUS
  <2>2. Cardinality(0 .. n - 1) = n
    BY FS_Interval
  <2> QED
    BY <2>1, <2>2 DEF Length
<1>2. Countsort(x, shr) = after[n].out
  BY <1>1 DEF Countsort
<1>3. D \in [0 .. n - 1 -> 0 .. Radix - 1] /\ CountInv(x0, x, D, n, 0)
  BY CountStarts
<1>4. \A i \in 0 .. n - 1 : D[i] = Digit(x[i], shr)
  OBVIOUS
<1>5. x0 \in T
  BY <1>3 DEF CountInv
<1> HIDE DEF x0
<1>6. <<x0, 0>> \in J
  BY <1>3, <1>5
<1>7. ASSUME NEW s, NEW k, k \in 0 .. n - 1, <<s, k>> \in J
      PROVE  F[<<s, k>>] = Next(s, k + 1) /\ <<F[<<s, k>>], k + 1>> \in J
  <2>1. F[<<s, k>>] = Next(s, k + 1)
    BY <1>7
  <2>2. CountInv(s, x, D, n, k) /\ k + 1 \in Nat
    BY <1>7
  <2>3. CountInv(Next(s, k + 1), x, D, n, k + 1)
    <3>1. D = [i \in 0 .. n - 1 |-> Digit(x[i], shr)]
      OBVIOUS
    <3> HIDE DEF D
    <3> QED
      BY <1>3, <1>7, <2>2, <3>1, CountStepKeeps
  <2>4. Next(s, k + 1) \in T
    <3>1. Next(s, k + 1) = [offsets |-> Next(s, k + 1).offsets, out |-> Next(s, k + 1).out]
      BY DEF CountStep
    <3> HIDE DEF Next
    <3> QED
      BY <2>3, <3>1 DEF CountInv
  <2> HIDE DEF Next, F
  <2>5. <<Next(s, k + 1), k + 1>> \in J
    BY <2>2, <2>3, <2>4
  <2> HIDE DEF J
  <2> QED
    BY <2>1, <2>5
<1> HIDE DEF J, F, Next, D
<1>8. PICK g : LoopOf(g, F, x0, n) /\ \A k \in 0 .. n : <<g[k], k>> \in J
  BY <1>0, <1>6, <1>7, LoopExists
<1>9. Is(g)
  <2>1. \A k \in 0 .. n : k # 0 => F[<<g[k - 1], k - 1>>] = Next(g[k - 1], k)
    <3> SUFFICES ASSUME NEW k \in 0 .. n, k # 0
                 PROVE  F[<<g[k - 1], k - 1>>] = Next(g[k - 1], k)
      OBVIOUS
    <3>1. k - 1 \in 0 .. n - 1 /\ k - 1 \in 0 .. n /\ (k - 1) + 1 = k
      BY <1>0
    <3>2. <<g[k - 1], k - 1>> \in J
      BY <1>8, <3>1
    <3> QED
      BY <1>7, <3>1, <3>2
  <2>2. g = [k \in 0 .. n |-> IF k = 0 THEN x0 ELSE F[<<g[k - 1], k - 1>>]]
    BY <1>8 DEF LoopOf
  <2> QED
    BY <2>1, <2>2
<1>10. Is(after)
  <2> HIDE DEF Is
  <2> QED
    BY <1>9
<1> HIDE DEF after
<1>11. /\ after[0] = x0
      /\ \A k \in 0 .. n - 1 : after[k + 1] = Next(after[k], k + 1)
  <2>1. after[0] = x0
    BY <1>0, <1>10
  <2>2. ASSUME NEW k \in 0 .. n - 1 PROVE after[k + 1] = Next(after[k], k + 1)
    <3>1. k + 1 \in 0 .. n /\ k + 1 # 0 /\ (k + 1) - 1 = k
      BY <1>0
    <3> QED
      BY <1>10, <3>1
  <2> QED
    BY <2>1, <2>2
<1>12. \A k \in 0 .. n - 1 : <<after[k], k>> \in J => <<after[k + 1], k + 1>> \in J
  BY <1>7, <1>11
<1>13. \A k \in 0 .. n : <<after[k], k>> \in J
  BY <1>0, <1>6, <1>11, <1>12, LoopKeeps
<1>14. CountInv(after[n], x, D, n, n)
  <2>1. n \in 0 .. n
    OBVIOUS
  <2>2. <<after[n], n>> \in J
    BY <1>13, <2>1
  <2> QED
    BY <2>2 DEF J
<1>15. /\ after[n].out \in [0 .. n - 1 -> Int]
       /\ \A i \in 0 .. n - 1 : after[n].out[Rank(D, n, i)] = x[i]
  <2>1. n - n = 0
    OBVIOUS
  <2> QED
    BY <1>14, <2>1 DEF CountInv
<1>16. D \in [0 .. n - 1 -> Int]
  <2>1. 0 .. Radix - 1 \subseteq Int
    BY SortingAssumption
  <2> QED
    BY <1>3, <2>1
<1>17. PICK p \in Perms(n) : \A k \in 0 .. n - 1 : Rank(D, n, p[k]) = k
  BY <1>16, RankFills
<1>18. \A k \in 0 .. n - 1 : p[k] \in 0 .. n - 1
  BY DEF Perms
<1>19. \A k \in 0 .. n - 1 : after[n].out[k] = x[p[k]]
  <2> SUFFICES ASSUME NEW k \in 0 .. n - 1 PROVE after[n].out[k] = x[p[k]]
    OBVIOUS
  <2> QED
    BY <1>15, <1>17, <1>18
<1>20. ASSUME NEW i \in 0 .. n - 1, NEW j \in 0 .. n - 1, i < j
       PROVE  \/ Digit(x[p[i]], shr) < Digit(x[p[j]], shr)
              \/ Digit(x[p[i]], shr) = Digit(x[p[j]], shr) /\ p[i] < p[j]
  <2> DEFINE a == p[i]
             b == p[j]
  <2>1. a \in 0 .. n - 1 /\ b \in 0 .. n - 1 /\ Rank(D, n, a) = i /\ Rank(D, n, b) = j
    BY <1>17, <1>18
  <2> HIDE DEF a, b
  <2>2. Rank(D, n, a) < Rank(D, n, b) <=> D[a] < D[b] \/ (D[a] = D[b] /\ a < b)
    BY <1>16, <2>1, RankOrders
  <2>3. D[a] < D[b] \/ (D[a] = D[b] /\ a < b)
    BY <1>20, <2>1, <2>2
  <2>4. D[a] = Digit(x[a], shr) /\ D[b] = Digit(x[b], shr)
    BY <1>4, <2>1
  <2> QED
    BY <2>3, <2>4 DEF a, b
<1>21. Countsort(x, shr) \in [0 .. n - 1 -> Int]
  BY <1>2, <1>15
<1>22. \A k \in 0 .. n - 1 : Countsort(x, shr)[k] = x[p[k]]
  BY <1>2, <1>19
<1> QED
  BY <1>20, <1>21, <1>22

\* A greater digit outweighs the digits below it.
LEMMA DigitLeads ==
    ASSUME NEW u \in Nat, NEW v \in Nat, NEW k \in 0 .. Digits - 1,
           \/ Digit(u, k) < Digit(v, k)
           \/ Digit(u, k) = Digit(v, k) /\ Low(u, k) <= Low(v, k)
    PROVE  Low(u, k + 1) <= Low(v, k + 1)
<1> DEFINE P == RadixPower[k]
           c == Digit(u, k)
           d == Digit(v, k)
           a == Low(u, k)
           b == Low(v, k)
<1>1. P \in Nat \ {0}
  <2>1. k \in 0 .. Digits
    BY SortingAssumption
  <2> QED
    BY <2>1, RadixPowerIs
<1>2. c \in Nat /\ d \in Nat /\ a \in 0 .. P - 1 /\ b \in 0 .. P - 1
      /\ Low(u, k + 1) = c * P + a /\ Low(v, k + 1) = d * P + b
  <2>1. Radix \in Nat
    BY SortingAssumption
  <2>2. Digit(u, k) \in 0 .. Radix - 1 /\ Digit(v, k) \in 0 .. Radix - 1
        /\ Low(u, k + 1) = c * P + a /\ Low(v, k + 1) = d * P + b
        /\ a \in 0 .. P - 1 /\ b \in 0 .. P - 1
    BY DigitSplits
  <2> QED
    BY <2>1, <2>2
<1> HIDE DEF P, a, b, c, d
<1>3. CASE c < d
  <2>1. PICK e \in Nat : d = c + 1 + e
    <3>1. d = c + 1 + (d - c - 1) /\ d - c - 1 \in Nat
      BY <1>2, <1>3
    <3> QED
      BY <3>1
  <2>2. d * P = c * P + P + e * P
    BY <1>1, <1>2, <2>1
  <2>3. e * P \in Nat /\ c * P \in Nat /\ d * P \in Nat
    BY <1>1, <1>2, <2>1
  <2> QED
    BY <1>1, <1>2, <2>2, <2>3
<1>4. CASE c = d /\ a <= b
  <2>1. c * P \in Nat
    BY <1>1, <1>2
  <2> QED
    BY <1>1, <1>2, <1>4, <2>1
<1> QED
  BY <1>3, <1>4 DEF a, b, c, d

Numbers == 0 .. RadixPower[Digits] - 1

\* A number has no more digits than Digits.
LEMMA NumbersAre ==
    /\ Numbers \subseteq Nat
    /\ \A u \in Numbers : Low(u, Digits) = u
    /\ \A u \in Numbers : Low(u, 0) = 0
<1>0. Digits \in Nat
  BY SortingAssumption
<1>1. RadixPower[Digits] \in Nat \ {0}
  <2>1. Digits \in 0 .. Digits
    BY <1>0
  <2> QED
    BY <2>1, RadixPowerIs
<1>2. Numbers \subseteq Nat
  BY <1>1 DEF Numbers
<1>3. \A u \in Numbers : Low(u, Digits) = u
  <2> SUFFICES ASSUME NEW u \in Numbers PROVE Low(u, Digits) = u
    OBVIOUS
  <2> DEFINE P == RadixPower[Digits]
  <2>1. P \in Nat \ {0} /\ u \in 0 .. P - 1
    BY <1>1 DEF Numbers
  <2> HIDE DEF P
  <2>2. u % P = u
    BY <2>1, DivModSmall
  <2> QED
    BY <2>2 DEF Low, P
<1>4. \A u \in Numbers : Low(u, 0) = 0
  <2> SUFFICES ASSUME NEW u \in Numbers PROVE Low(u, 0) = 0
    OBVIOUS
  <2>1. u % 1 = 0
    BY <1>2
  <2> QED
    BY <2>1, RadixPowerIs DEF Low
<1> QED
  BY <1>2, <1>3, <1>4

\* The lower k digits of what the array holds are in order.
LowInOrder(a, x, n, k) ==
    /\ a \in [0 .. n - 1 -> Numbers]
    /\ Rearranges(a, x, n, 0, n - 1)
    /\ \A i, j \in 0 .. n - 1 : i < j => Low(a[i], k) <= Low(a[j], k)

\* Ordered by one more digit, the array is in order up to this digit.
LEMMA RadixStepKeeps ==
    ASSUME NEW n \in Nat, NEW x \in [0 .. n - 1 -> Numbers], NEW k \in 0 .. Digits - 1,
           NEW a, LowInOrder(a, x, n, k)
    PROVE  LowInOrder(Countsort(a, k), x, n, k + 1)
<1> DEFINE b == Countsort(a, k)
<1>1. a \in [0 .. n - 1 -> Numbers] /\ Rearranges(a, x, n, 0, n - 1)
      /\ \A i, j \in 0 .. n - 1 : i < j => Low(a[i], k) <= Low(a[j], k)
  BY DEF LowInOrder
<1>2. a \in [0 .. n - 1 -> Nat]
  BY <1>1, NumbersAre
<1>3. b \in [0 .. n - 1 -> Int]
  BY <1>2, CountsortOrders
<1>4. PICK p \in Perms(n) :
        /\ \A i \in 0 .. n - 1 : b[i] = a[p[i]]
        /\ \A i, j \in 0 .. n - 1 : i < j =>
                \/ Digit(a[p[i]], k) < Digit(a[p[j]], k)
                \/ Digit(a[p[i]], k) = Digit(a[p[j]], k) /\ p[i] < p[j]
  BY <1>2, CountsortOrders
<1> HIDE DEF b
<1>5. \A i \in 0 .. n - 1 : p[i] \in 0 .. n - 1
  BY DEF Perms
<1>6. \A i \in 0 .. n - 1 : b[i] \in Numbers
  BY <1>1, <1>4, <1>5
<1>7. b \in [0 .. n - 1 -> Numbers]
  BY <1>3, <1>6
<1>8. Rearranges(b, x, n, 0, n - 1)
  <2>1. ComesFrom(p, b, a, n, 0, n - 1)
    BY <1>4, <1>5 DEF ComesFrom
  <2>2. Rearranges(b, a, n, 0, n - 1)
    BY <1>3, <2>1 DEF Rearranges, IntArrays
  <2> QED
    BY <1>1, <2>2, RearrangesTrans
<1>9. ASSUME NEW i \in 0 .. n - 1, NEW j \in 0 .. n - 1, i < j
      PROVE  Low(b[i], k + 1) <= Low(b[j], k + 1)
  <2> DEFINE u == a[p[i]]
             v == a[p[j]]
  <2>1. b[i] = u /\ b[j] = v /\ u \in Nat /\ v \in Nat
    BY <1>2, <1>4, <1>5
  <2>2. \/ Digit(u, k) < Digit(v, k)
        \/ Digit(u, k) = Digit(v, k) /\ p[i] < p[j]
    BY <1>4, <1>9
  <2>3. p[i] < p[j] => Low(u, k) <= Low(v, k)
    BY <1>1, <1>5
  <2> HIDE DEF u, v
  <2>4. Low(u, k + 1) <= Low(v, k + 1)
    BY <2>1, <2>2, <2>3, DigitLeads
  <2> QED
    BY <2>1, <2>4
<1>10. LowInOrder(b, x, n, k + 1)
  BY <1>7, <1>8, <1>9 DEF LowInOrder
<1> QED
  BY <1>10 DEF b

\* radixsort32 sorts.
LEMMA RadixsortSorts ==
    ASSUME NEW n \in Nat, NEW x \in [0 .. n - 1 -> Numbers]
    PROVE  Sorts(Radixsort(x), x, n, 0, n - 1)
<1> DEFINE Next(s, k) == Countsort(s, k - 1)
           Is(g) == g = [k \in 0 .. Digits |-> IF k = 0 THEN x ELSE Next(g[k - 1], k)]
           after == CHOOSE g : Is(g)
           J == {s \in [0 .. n - 1 -> Numbers] \X Nat : LowInOrder(s[1], x, n, s[2])}
           F == [s \in J |-> Next(s[1], s[2] + 1)]
<1>0. Digits \in Nat
  BY SortingAssumption
<1>1. Radixsort(x) = after[Digits]
  BY DEF Radixsort
<1>2. x \in IntArrays(n)
  <2>1. \A i \in 0 .. n - 1 : x[i] \in Int
    <3>1. Numbers \subseteq Nat
      BY NumbersAre
    <3>2. \A i \in 0 .. n - 1 : x[i] \in Numbers
      OBVIOUS
    <3> HIDE DEF Next, Is, J, F
    <3>3. \A u \in Numbers : u \in Int
      BY <3>1
    <3> QED
      BY <3>2, <3>3, Zenon
  <2>2. x = [i \in 0 .. n - 1 |-> x[i]]
    OBVIOUS
  <2> HIDE DEF Next
  <2> QED
    BY <2>1, <2>2 DEF IntArrays
<1>3. <<x, 0>> \in J
  <2>1. Rearranges(x, x, n, 0, n - 1)
    BY <1>2, RearrangesSame
  <2>2. \A i, j \in 0 .. n - 1 : i < j => Low(x[i], 0) <= Low(x[j], 0)
    <3>1. \A i \in 0 .. n - 1 : Low(x[i], 0) = 0
      BY NumbersAre
    <3> QED
      BY <3>1
  <2> QED
    BY <2>1, <2>2 DEF LowInOrder
<1>4. ASSUME NEW s, NEW k, k \in 0 .. Digits - 1, <<s, k>> \in J
      PROVE  F[<<s, k>>] = Next(s, k + 1) /\ <<F[<<s, k>>], k + 1>> \in J
  <2>1. F[<<s, k>>] = Next(s, k + 1)
    BY <1>4
  <2>2. LowInOrder(s, x, n, k) /\ k + 1 \in Nat /\ (k + 1) - 1 = k
    BY <1>4
  <2>3. LowInOrder(Next(s, k + 1), x, n, k + 1)
    <3>1. Next(s, k + 1) = Countsort(s, k)
      BY <2>2
    <3> HIDE DEF Next
    <3> QED
      BY <1>4, <2>2, <3>1, RadixStepKeeps
  <2>4. Next(s, k + 1) \in [0 .. n - 1 -> Numbers]
    BY <2>3 DEF LowInOrder
  <2> HIDE DEF Next, F
  <2>5. <<Next(s, k + 1), k + 1>> \in J
    BY <2>2, <2>3, <2>4
  <2> HIDE DEF J
  <2> QED
    BY <2>1, <2>5
<1> HIDE DEF J, F, Next
<1>5. PICK g : LoopOf(g, F, x, Digits) /\ \A k \in 0 .. Digits : <<g[k], k>> \in J
  BY <1>0, <1>3, <1>4, LoopExists
<1>6. Is(g)
  <2>1. \A k \in 0 .. Digits : k # 0 => F[<<g[k - 1], k - 1>>] = Next(g[k - 1], k)
    <3> SUFFICES ASSUME NEW k \in 0 .. Digits, k # 0
                 PROVE  F[<<g[k - 1], k - 1>>] = Next(g[k - 1], k)
      OBVIOUS
    <3>1. k - 1 \in 0 .. Digits - 1 /\ k - 1 \in 0 .. Digits /\ (k - 1) + 1 = k
      BY <1>0
    <3>2. <<g[k - 1], k - 1>> \in J
      BY <1>5, <3>1
    <3> QED
      BY <1>4, <3>1, <3>2
  <2>2. g = [k \in 0 .. Digits |-> IF k = 0 THEN x ELSE F[<<g[k - 1], k - 1>>]]
    BY <1>5 DEF LoopOf
  <2> QED
    BY <2>1, <2>2
<1>7. Is(after)
  <2> HIDE DEF Is
  <2> QED
    BY <1>6
<1> HIDE DEF after
<1>8. /\ after[0] = x
      /\ \A k \in 0 .. Digits - 1 : after[k + 1] = Next(after[k], k + 1)
  <2>1. after[0] = x
    BY <1>0, <1>7
  <2>2. ASSUME NEW k \in 0 .. Digits - 1 PROVE after[k + 1] = Next(after[k], k + 1)
    <3>1. k + 1 \in 0 .. Digits /\ k + 1 # 0 /\ (k + 1) - 1 = k
      BY <1>0
    <3> QED
      BY <1>7, <3>1
  <2> QED
    BY <2>1, <2>2
<1>9. \A k \in 0 .. Digits - 1 : <<after[k], k>> \in J => <<after[k + 1], k + 1>> \in J
  BY <1>4, <1>8
<1>10. \A k \in 0 .. Digits : <<after[k], k>> \in J
  BY <1>0, <1>3, <1>8, <1>9, LoopKeeps
<1>11. LowInOrder(after[Digits], x, n, Digits)
  <2>1. Digits \in 0 .. Digits
    BY <1>0
  <2>2. <<after[Digits], Digits>> \in J
    BY <1>10, <2>1
  <2> QED
    BY <2>2 DEF J
<1>12. InOrder(after[Digits], 0, n - 1)
  <2>1. \A i \in 0 .. n - 1 : Low(after[Digits][i], Digits) = after[Digits][i]
    BY <1>11, NumbersAre DEF LowInOrder
  <2> QED
    BY <1>11, <2>1 DEF LowInOrder, InOrder
<1> QED
  BY <1>1, <1>11, <1>12 DEF Sorts, LowInOrder

-----------------------------------------------------------------------------
(***************************************************************************)
(* The buckets of one level of countsort_inplace.                          *)
(***************************************************************************)

Keys == [Nat -> 0 .. Radix - 1]

KeyOf(level, wild) == [u \in Nat |-> LevelDigit(u, level, wild)]

\* The digit of a level is a digit, also where the shift is undefined.
LEMMA KeyIs ==
    ASSUME NEW level \in Nat, NEW wild \in 0 .. Digits - 1
    PROVE  KeyOf(level, wild) \in Keys
<1>1. ASSUME NEW u \in Nat PROVE LevelDigit(u, level, wild) \in 0 .. Radix - 1
  <2> DEFINE shr == IF level < Digits THEN Digits - 1 - level ELSE wild
  <2>1. shr \in 0 .. Digits - 1 /\ u \in Nat
    BY SortingAssumption
  <2> HIDE DEF shr
  <2>2. Digit(u, shr) \in 0 .. Radix - 1
    BY <2>1, DigitSplits
  <2> QED
    BY <2>2 DEF LevelDigit, shr
<1> QED
  BY <1>1 DEF KeyOf, Keys

With(key, x, first, len, d) == {k \in first .. first + len - 1 : key[x[k]] = d}

(***************************************************************************)
(* The places st[d] .. ub[d] - 1 of the digits d fill the part, and each   *)
(* digit has as many as elements have it.                                  *)
(***************************************************************************)
Buckets(st, ub, key, x, first, len) ==
    /\ st \in [0 .. Radix - 1 -> Int] /\ ub \in [0 .. Radix - 1 -> Int]
    /\ st[0] = first /\ ub[Radix - 1] = first + len
    /\ \A d \in 0 .. Radix - 1 :
            /\ first <= st[d] /\ st[d] <= ub[d] /\ ub[d] <= first + len
            /\ ub[d] - st[d] = Cardinality(With(key, x, first, len, d))
            /\ d # 0 => st[d] = ub[d - 1]
    /\ \A d, e \in 0 .. Radix - 1 : d < e => ub[d] <= st[e]

\* The limits that countsort_inplace counts are those of the buckets.
LEMMA UpperIs ==
    ASSUME NEW n \in Nat, NEW x \in [0 .. n - 1 -> Nat], NEW first \in Nat, NEW len \in Nat,
           first + len <= n, NEW level \in Nat, NEW wild \in 0 .. Digits - 1,
           NEW ub, ub = Upper(x, first, len, level, wild)
    PROVE  Buckets(Lower(ub, first), ub, KeyOf(level, wild), x, first, len)
<1> DEFINE key == KeyOf(level, wild)
           I == first .. first + len - 1
           R == 0 .. Radix - 1
           st == Lower(ub, first)
           Le(d) == {k \in I : key[x[k]] <= d}
           Is(d) == With(key, x, first, len, d)
<1>0. Radix \in Nat \ {0} /\ 0 \in R /\ Radix - 1 \in R /\ \A d \in R : d \in Int
  BY SortingAssumption
<1>1. key \in Keys
  BY KeyIs
<1>2. \A k \in I : k \in 0 .. n - 1 /\ x[k] \in Nat
  OBVIOUS
<1>3. \A k \in I : key[x[k]] \in R /\ key[x[k]] = LevelDigit(x[k], level, wild)
  BY <1>1, <1>2 DEF KeyOf, Keys
<1> HIDE DEF key
<1>4. IsFiniteSet(I) /\ Cardinality(I) = len
  <2> DEFINE last == first + len - 1
  <2>1. last \in Int /\ first \in Int
    OBVIOUS
  <2> HIDE DEF last, I, R, Le, Is
  <2>2. IsFiniteSet(first .. last)
        /\ Cardinality(first .. last) = IF first > last THEN 0 ELSE last - first + 1
    BY <2>1, FS_Interval
  <2>3. (IF first > last THEN 0 ELSE last - first + 1) = len
    BY DEF last
  <2>4. IsFiniteSet(first .. last) /\ Cardinality(first .. last) = len
    BY <2>2, <2>3
  <2> QED
    BY <2>4 DEF last, I
<1>5. \A d \in Int : IsFiniteSet(Le(d)) /\ Cardinality(Le(d)) \in Nat /\ Cardinality(Le(d)) <= len
  <2> SUFFICES ASSUME NEW d \in Int
               PROVE  IsFiniteSet(Le(d)) /\ Cardinality(Le(d)) \in Nat /\ Cardinality(Le(d)) <= len
    OBVIOUS
  <2>1. Le(d) \in SUBSET I
    OBVIOUS
  <2> HIDE DEF Le, I
  <2> QED
    BY <1>4, <2>1, FS_Subset, FS_CardinalityType
<1>6. \A d \in R : IsFiniteSet(Is(d)) /\ Cardinality(Is(d)) \in Nat
  <2> SUFFICES ASSUME NEW d \in R PROVE IsFiniteSet(Is(d)) /\ Cardinality(Is(d)) \in Nat
    OBVIOUS
  <2>1. Is(d) \in SUBSET I
    BY DEF With
  <2> HIDE DEF Is, I
  <2> QED
    BY <1>4, <2>1, FS_Subset, FS_CardinalityType
<1>7. ub = [d \in R |-> first + Cardinality(Le(d))]
  <2>1. \A d : {k \in I : LevelDigit(x[k], level, wild) <= d} = Le(d)
    BY <1>3
  <2> QED
    BY <2>1 DEF Upper
<1>8. st = [d \in R |-> IF d = 0 THEN first ELSE ub[d - 1]]
  BY DEF Lower
<1> HIDE DEF st
<1>9. \A d \in R : ub[d] = first + Cardinality(Le(d)) /\ ub[d] \in Int
                   /\ first <= ub[d] /\ ub[d] <= first + len
  <2> SUFFICES ASSUME NEW d \in R
               PROVE  ub[d] = first + Cardinality(Le(d)) /\ ub[d] \in Int
                      /\ first <= ub[d] /\ ub[d] <= first + len
    OBVIOUS
  <2>1. ub[d] = first + Cardinality(Le(d))
    BY <1>7
  <2>2. Cardinality(Le(d)) \in Nat /\ Cardinality(Le(d)) <= len
    BY <1>0, <1>5
  <2> HIDE DEF Le
  <2> QED
    BY <2>1, <2>2
<1>10. ub[Radix - 1] = first + len
  <2>1. Le(Radix - 1) = I
    BY <1>0, <1>3
  <2>2. Radix - 1 \in R
    BY <1>0
  <2> HIDE DEF Le, I
  <2> QED
    BY <1>4, <1>9, <2>1, <2>2
<1>11. \A d \in R : d # 0 => Cardinality(Le(d)) = Cardinality(Le(d - 1)) + Cardinality(Is(d))
  <2> SUFFICES ASSUME NEW d \in R, d # 0
               PROVE  Cardinality(Le(d)) = Cardinality(Le(d - 1)) + Cardinality(Is(d))
    OBVIOUS
  <2>1. \A k \in I : key[x[k]] <= d <=> key[x[k]] <= d - 1 \/ key[x[k]] = d
    BY <1>0, <1>3
  <2>2. \A k \in I : ~(key[x[k]] <= d - 1 /\ key[x[k]] = d)
    BY <1>0, <1>3
  <2>3. Le(d) = Le(d - 1) \cup Is(d) /\ Le(d - 1) \cap Is(d) = {}
    BY <2>1, <2>2 DEF With
  <2>4. d - 1 \in Int
    BY <1>0
  <2>5. /\ IsFiniteSet(Le(d - 1)) /\ Cardinality(Le(d - 1)) \in Nat
        /\ IsFiniteSet(Is(d)) /\ Cardinality(Is(d)) \in Nat
    BY <1>5, <1>6, <2>4
  <2> DEFINE A == Le(d - 1)
             B == Is(d)
             C == Le(d)
  <2>6. C = A \cup B /\ A \cap B = {} /\ IsFiniteSet(A) /\ IsFiniteSet(B)
        /\ Cardinality(A) \in Nat /\ Cardinality(B) \in Nat
    BY <2>3, <2>5
  <2> HIDE DEF A, B, C
  <2>7. Cardinality(C) = Cardinality(A) + Cardinality(B)
    <3>1. Cardinality(A \cap B) = 0
      BY <2>6, FS_EmptySet
    <3>2. Cardinality(A \cup B) = Cardinality(A) + Cardinality(B) - Cardinality(A \cap B)
      BY <2>6, FS_Union
    <3> QED
      BY <2>6, <3>1, <3>2
  <2> QED
    BY <2>7 DEF A, B, C
<1>12. Cardinality(Le(0)) = Cardinality(Is(0))
  <2>1. \A k \in I : key[x[k]] <= 0 <=> key[x[k]] = 0
    BY <1>0, <1>3
  <2>2. Le(0) = Is(0)
    BY <2>1 DEF With
  <2> QED
    BY <2>2
<1> HIDE DEF Le, Is, I
<1>13. ASSUME NEW d \in R
       PROVE  /\ st[d] \in Int /\ first <= st[d] /\ st[d] <= ub[d] /\ ub[d] - st[d] = Cardinality(Is(d))
              /\ d # 0 => st[d] = ub[d - 1] /\ d - 1 \in R
  <2>1. CASE d = 0
    BY <1>0, <1>6, <1>8, <1>9, <1>12, <2>1
  <2>2. CASE d # 0
    <3>1. d - 1 \in R /\ d - 1 \in Int
      BY <1>0, <2>2
    <3>2. st[d] = ub[d - 1]
      BY <1>8, <2>2
    <3>3. ub[d - 1] = first + Cardinality(Le(d - 1)) /\ ub[d - 1] \in Int /\ first <= ub[d - 1]
      BY <1>9, <3>1
    <3>4. ub[d] = first + Cardinality(Le(d)) /\ ub[d] \in Int
      BY <1>9
    <3>5. /\ Cardinality(Le(d)) = Cardinality(Le(d - 1)) + Cardinality(Is(d))
          /\ Cardinality(Le(d - 1)) \in Nat /\ Cardinality(Is(d)) \in Nat
      BY <1>5, <1>6, <1>11, <2>2, <3>1
    <3> QED
      BY <3>1, <3>2, <3>3, <3>4, <3>5
  <2> QED
    BY <2>1, <2>2
<1>14. \A d, e \in R : d <= e => ub[d] <= ub[e]
  <2> SUFFICES ASSUME NEW d \in R, NEW e \in R, d <= e PROVE ub[d] <= ub[e]
    OBVIOUS
  <2>0. d \in Int /\ e \in Int
    BY <1>0
  <2>1. \A k \in I : key[x[k]] <= d => key[x[k]] <= e
    <3>1. \A k \in I : key[x[k]] \in Int
      BY <1>0, <1>3
    <3> QED
      BY <2>0, <3>1
  <2>2. Le(d) \in SUBSET Le(e)
    BY <2>1 DEF Le
  <2>3. IsFiniteSet(Le(e)) /\ Cardinality(Le(e)) \in Nat /\ Cardinality(Le(d)) \in Nat
    BY <1>5, <2>0
  <2>4. Cardinality(Le(d)) <= Cardinality(Le(e))
    BY <2>2, <2>3, FS_Subset
  <2>5. ub[d] = first + Cardinality(Le(d)) /\ ub[e] = first + Cardinality(Le(e))
    BY <1>9
  <2> QED
    BY <2>3, <2>4, <2>5
<1>15. ASSUME NEW d \in R, NEW e \in R, d < e PROVE ub[d] <= st[e]
  <2>1. e # 0 /\ e - 1 \in R /\ d <= e - 1
    BY <1>0, <1>15
  <2>2. st[e] = ub[e - 1]
    BY <1>13, <2>1
  <2> QED
    BY <1>14, <2>1, <2>2
<1>16. st \in [R -> Int] /\ ub \in [R -> Int] /\ st[0] = first
  <2>1. \A d \in R : st[d] \in Int
    BY <1>13
  <2>2. \A d \in R : ub[d] \in Int
    BY <1>9
  <2> HIDE DEF R
  <2>3. st \in [R -> Int]
    BY <1>8, <2>1
  <2>4. ub \in [R -> Int]
    BY <1>7, <2>2
  <2> QED
    BY <1>0, <1>8, <2>3, <2>4
<1> HIDE DEF key
<1>17. Buckets(st, ub, key, x, first, len)
  BY <1>9, <1>10, <1>13, <1>15, <1>16 DEF Buckets, Is
<1> QED
  BY <1>17 DEF st, key

NatArrays(n) == [0 .. n - 1 -> Nat]

\* An array of natural numbers is one of integers.
LEMMA NatArraysAreInt ==
    ASSUME NEW n, NEW x \in NatArrays(n)
    PROVE  x \in IntArrays(n)
<1>1. \A u \in Nat : u \in Int
  OBVIOUS
<1> QED
  BY <1>1 DEF NatArrays, IntArrays

\* The number of places from a to before b.
LEMMA SizeOfInterval ==
    ASSUME NEW a \in Int, NEW b \in Int, a <= b
    PROVE  IsFiniteSet(a .. b - 1) /\ Cardinality(a .. b - 1) = b - a
<1> DEFINE c == b - 1
<1>1. c \in Int
  OBVIOUS
<1> HIDE DEF c
<1>2. IsFiniteSet(a .. c) /\ Cardinality(a .. c) = IF a > c THEN 0 ELSE c - a + 1
  BY <1>1, FS_Interval
<1>3. (IF a > c THEN 0 ELSE c - a + 1) = b - a
  BY DEF c
<1>4. IsFiniteSet(a .. c) /\ Cardinality(a .. c) = b - a
  BY <1>2, <1>3
<1> QED
  BY <1>4 DEF c

\* Rearranged, a part has as many elements of a digit as before.
LEMMA WithSame ==
    ASSUME NEW n \in Nat, NEW first \in Nat, NEW len \in Nat, first + len <= n,
           NEW x \in NatArrays(n), NEW y \in NatArrays(n),
           NEW key \in Keys, Rearranges(y, x, n, first, first + len - 1), NEW d
    PROVE  Cardinality(With(key, y, first, len, d)) = Cardinality(With(key, x, first, len, d))
<1> DEFINE last == first + len - 1
           U == {u \in Nat : key[u] = d}
<1>1. first \in Int /\ last \in Int /\ first .. last \subseteq 0 .. n - 1
  OBVIOUS
<1>2. Rearranges(y, x, n, first, last)
  OBVIOUS
<1>3. \A k \in first .. last : x[k] \in Nat /\ y[k] \in Nat
  BY <1>1 DEF NatArrays
<1>4. With(key, x, first, len, d) = Holding(x, first, last, U)
      /\ With(key, y, first, len, d) = Holding(y, first, last, U)
  BY <1>3 DEF With, Holding
<1> HIDE DEF last, U
<1>5. Cardinality(Holding(y, first, last, U)) = Cardinality(Holding(x, first, last, U))
  BY <1>1, <1>2, RearrangesCounts
<1> QED
  BY <1>4, <1>5

\* The places of digit d all hold it.
Full(y, st, ub, key, d) == \A m \in st[d] .. ub[d] - 1 : key[y[m]] = d

\* A full bucket has all elements of its digit.
LEMMA RoomInBucket ==
    ASSUME NEW n \in Nat, NEW first \in Nat, NEW len \in Nat, first + len <= n,
           NEW x \in NatArrays(n), NEW y \in NatArrays(n),
           NEW key \in Keys, Rearranges(y, x, n, first, first + len - 1),
           NEW st, NEW ub, Buckets(st, ub, key, x, first, len),
           NEW d \in 0 .. Radix - 1, Full(y, st, ub, key, d),
           NEW j \in first .. first + len - 1, key[y[j]] = d
    PROVE  j \in st[d] .. ub[d] - 1
<1> SUFFICES ASSUME j \notin st[d] .. ub[d] - 1 PROVE FALSE
  OBVIOUS
<1> DEFINE A == st[d] .. ub[d] - 1
           W == With(key, y, first, len, d)
           c == ub[d] - st[d]
<1>1. /\ st[d] \in Int /\ ub[d] \in Int /\ first <= st[d] /\ st[d] <= ub[d] /\ ub[d] <= first + len
      /\ c = Cardinality(With(key, x, first, len, d))
  BY DEF Buckets
<1>2. Cardinality(W) = c
  <2>1. Cardinality(With(key, y, first, len, d)) = Cardinality(With(key, x, first, len, d))
    BY WithSame
  <2> QED
    BY <1>1, <2>1
<1>3. IsFiniteSet(A) /\ Cardinality(A) = c
  BY <1>1, SizeOfInterval
<1>4. A \cup {j} \in SUBSET W
  <2>1. A \subseteq first .. first + len - 1
    BY <1>1
  <2> QED
    BY <2>1 DEF With, Full
<1>5. IsFiniteSet(W)
  <2> DEFINE I == first .. first + len - 1
  <2>1. W \in SUBSET I
    BY DEF With
  <2>2. first \in Int /\ first + len - 1 \in Int
    OBVIOUS
  <2>3. IsFiniteSet(I)
    BY <2>2, FS_Interval
  <2> HIDE DEF I, W
  <2> QED
    BY <2>1, <2>3, FS_Subset
<1>6. c \in Nat
  BY <1>1
<1>7. j \notin A
  OBVIOUS
<1> HIDE DEF A, W, c
<1>8. Cardinality(A \cup {j}) = c + 1
  BY <1>3, <1>7, FS_AddElement
<1>9. Cardinality(A \cup {j}) <= Cardinality(W)
  BY <1>4, <1>5, FS_Subset
<1> QED
  BY <1>2, <1>6, <1>8, <1>9

Placed(st, lb, first, len) ==
    {m \in first .. first + len - 1 : \E d \in 0 .. Radix - 1 : st[d] <= m /\ m < lb[d]}

(***************************************************************************)
(* After k steps of the scan: the places before lb[d] hold the digit d,    *)
(* the buckets before i are full, and each step filled a place or ended    *)
(* with a bucket.                                                          *)
(***************************************************************************)
ScanInv(s, k, st, ub, key, x, n, first, len) ==
    /\ s.x \in NatArrays(n)
    /\ Rearranges(s.x, x, n, first, first + len - 1)
    /\ s.lb \in [0 .. Radix - 1 -> Int] /\ s.i \in 0 .. Radix /\ s.j \in Int
    /\ \A d \in 0 .. Radix - 1 : st[d] <= s.lb[d] /\ s.lb[d] <= ub[d]
    /\ \A d \in 0 .. Radix - 1 : \A m \in st[d] .. s.lb[d] - 1 : key[s.x[m]] = d
    /\ \A d \in 0 .. Radix - 1 : d < s.i => s.lb[d] = ub[d]
    /\ s.i # Radix => /\ s.j = s.lb[s.i]
                      /\ k <= s.i + Cardinality(Placed(st, s.lb, first, len))

\* No more elements are placed than there are.
LEMMA PlacedIs ==
    ASSUME NEW first \in Nat, NEW len \in Nat, NEW st, NEW lb
    PROVE  /\ IsFiniteSet(Placed(st, lb, first, len))
           /\ Cardinality(Placed(st, lb, first, len)) \in 0 .. len
<1> DEFINE b == first + len
           P == Placed(st, lb, first, len)
<1>1. P \in SUBSET (first .. b - 1)
  BY DEF Placed
<1>2. first \in Int /\ b \in Int /\ first <= b /\ b - first = len
  OBVIOUS
<1> HIDE DEF b, P
<1>3. IsFiniteSet(first .. b - 1) /\ Cardinality(first .. b - 1) = len
  BY <1>2, SizeOfInterval
<1>4. IsFiniteSet(P) /\ Cardinality(P) <= len
  BY <1>1, <1>3, FS_Subset
<1>5. Cardinality(P) \in Nat
  BY <1>4, FS_CardinalityType
<1> QED
  BY <1>4, <1>5 DEF P

\* The scan begins with empty buckets.
LEMMA ScanStarts ==
    ASSUME NEW n \in Nat, NEW first \in Nat, NEW len \in Nat, first + len <= n,
           NEW x \in NatArrays(n), NEW key \in Keys,
           NEW st, NEW ub, Buckets(st, ub, key, x, first, len)
    PROVE  ScanInv([x |-> x, lb |-> st, i |-> 0, j |-> st[0]], 0, st, ub, key, x, n, first, len)
<1> DEFINE s == [x |-> x, lb |-> st, i |-> 0, j |-> st[0]]
<1>0. Radix \in Nat \ {0} /\ 0 \in 0 .. Radix /\ 0 \in 0 .. Radix - 1
  BY SortingAssumption
<1>1. s.x = x /\ s.lb = st /\ s.i = 0 /\ s.j = st[0]
  OBVIOUS
<1> HIDE DEF s
<1>2. Rearranges(x, x, n, first, first + len - 1)
  <2>1. x \in IntArrays(n)
    BY NatArraysAreInt
  <2> QED
    BY <2>1, RearrangesSame
<1>3. \A d \in 0 .. Radix - 1 : st[d] \in Int /\ st[d] <= ub[d] /\ d \in Int
  BY <1>0 DEF Buckets
<1>4. Cardinality(Placed(st, st, first, len)) \in Nat
  BY PlacedIs
<1>5. st \in [0 .. Radix - 1 -> Int] /\ st[0] \in Int
  BY <1>0 DEF Buckets
<1>6. \A d \in 0 .. Radix - 1 : \A m \in st[d] .. st[d] - 1 : key[x[m]] = d
  BY <1>3
<1>7. \A d \in 0 .. Radix - 1 : ~(d < 0)
  BY <1>0
<1>8. \A d \in 0 .. Radix - 1 : st[d] <= st[d]
  BY <1>3
<1>9. ScanInv(s, 0, st, ub, key, x, n, first, len)
  BY <1>0, <1>1, <1>2, <1>3, <1>4, <1>5, <1>6, <1>7, <1>8 DEF ScanInv
<1> QED
  BY <1>9 DEF s

\* The step that leaves a full bucket for the next.
LEMMA NextBucket ==
    ASSUME NEW n \in Nat, NEW first \in Nat, NEW len \in Nat, first + len <= n,
           NEW x \in NatArrays(n), NEW key \in Keys,
           NEW st, NEW ub, Buckets(st, ub, key, x, first, len),
           NEW s, NEW k \in Nat, ScanInv(s, k, st, ub, key, x, n, first, len),
           s.i # Radix, s.j >= ub[s.i],
           NEW t, t.x = s.x, t.lb = s.lb, t.i = s.i + 1,
           t.j = IF s.i + 1 < Radix THEN s.lb[s.i + 1] ELSE s.j
    PROVE  ScanInv(t, k + 1, st, ub, key, x, n, first, len)
<1>0. Radix \in Nat \ {0}
  BY SortingAssumption
<1>1. /\ s.lb \in [0 .. Radix - 1 -> Int] /\ s.i \in 0 .. Radix /\ s.j \in Int
      /\ \A d \in 0 .. Radix - 1 : st[d] <= s.lb[d] /\ s.lb[d] <= ub[d]
      /\ \A d \in 0 .. Radix - 1 : d < s.i => s.lb[d] = ub[d]
      /\ s.j = s.lb[s.i]
      /\ k <= s.i + Cardinality(Placed(st, s.lb, first, len))
  BY DEF ScanInv
<1>2. s.i \in 0 .. Radix - 1 /\ s.i + 1 \in 0 .. Radix /\ ub[s.i] \in Int
  <2>1. ub \in [0 .. Radix - 1 -> Int]
    BY DEF Buckets
  <2>2. s.i \in 0 .. Radix - 1 /\ s.i + 1 \in 0 .. Radix
    <3> HIDE DEF ScanInv
    <3>1. s.i # Radix
      OBVIOUS
    <3> QED
      <4>1. \A a \in 0 .. Radix : a # Radix => a \in 0 .. Radix - 1 /\ a + 1 \in 0 .. Radix
        BY <1>0
      <4> QED
        BY <1>1, <3>1, <4>1
  <2> QED
    BY <2>1, <2>2
<1>3. s.lb[s.i] = ub[s.i]
  BY <1>1, <1>2
<1>4. \A d \in 0 .. Radix - 1 : d < s.i + 1 => d < s.i \/ d = s.i
  BY <1>0, <1>2
<1>5. \A d \in 0 .. Radix - 1 : d < t.i => t.lb[d] = ub[d]
  BY <1>1, <1>3, <1>4
<1>6. t.i # Radix => t.i \in 0 .. Radix - 1 /\ t.j = t.lb[t.i]
  BY <1>0, <1>2
<1>7. t.j \in Int
  BY <1>0, <1>1, <1>2
<1>8. k + 1 <= t.i + Cardinality(Placed(st, t.lb, first, len))
  <2>1. Cardinality(Placed(st, s.lb, first, len)) \in Nat
    BY PlacedIs
  <2> QED
    BY <1>1, <1>2, <2>1
<1> QED
  BY <1>1, <1>2, <1>5, <1>6, <1>7, <1>8 DEF ScanInv

\* t is s after an element of digit pos was brought to the next place of its
\* bucket.
Puts(t, s, pos) ==
    /\ t.x = Swapped(s.x, s.j, s.lb[pos])
    /\ t.lb = [s.lb EXCEPT ![pos] = @ + 1]
    /\ t.i = s.i
    /\ t.j = IF pos = s.i THEN s.j + 1 ELSE s.j

\* The step that does so.
LEMMA PutInBucket ==
    ASSUME NEW n \in Nat, NEW first \in Nat, NEW len \in Nat, first + len <= n,
           NEW x \in NatArrays(n), NEW key \in Keys,
           NEW st, NEW ub, Buckets(st, ub, key, x, first, len),
           NEW s, NEW k \in Nat, ScanInv(s, k, st, ub, key, x, n, first, len),
           s.i # Radix, s.j < ub[s.i],
           NEW pos, pos = key[s.x[s.j]], NEW t, Puts(t, s, pos)
    PROVE  ScanInv(t, k + 1, st, ub, key, x, n, first, len)
<1> DEFINE R == 0 .. Radix - 1
           i == s.i
           j == s.j
           lb == s.lb
           y == s.x
           h == lb[pos]
           last == first + len - 1
<1>0. Radix \in Nat \ {0} /\ (\A d \in R : d \in Int) /\ first \in Int /\ last \in Int
  BY SortingAssumption
<1>1. /\ lb \in [R -> Int] /\ i \in 0 .. Radix /\ j \in Int
      /\ \A d \in R : st[d] <= lb[d] /\ lb[d] <= ub[d]
      /\ \A d \in R : \A m \in st[d] .. lb[d] - 1 : key[y[m]] = d
      /\ \A d \in R : d < i => lb[d] = ub[d]
      /\ j = lb[i]
      /\ k <= i + Cardinality(Placed(st, lb, first, len))
      /\ y \in NatArrays(n)
      /\ Rearranges(y, x, n, first, last)
  BY DEF ScanInv
<1>2. /\ \A d \in R : /\ st[d] \in Int /\ ub[d] \in Int
                      /\ first <= st[d] /\ st[d] <= ub[d] /\ ub[d] <= first + len
      /\ \A d, e \in R : d < e => ub[d] <= st[e]
  BY DEF Buckets
<1> HIDE DEF lb, y, last
<1>3. i \in R /\ i # Radix /\ j < ub[i]
  <2>1. i # Radix /\ j < ub[i]
    OBVIOUS
  <2> HIDE DEF i, j
  <2> QED
    BY <1>0, <1>1, <2>1
<1> HIDE DEF i
<1>4. j \in st[i] .. ub[i] - 1 /\ j \in first .. last /\ j \in 0 .. n - 1
  <2>1. st[i] <= j /\ first <= j /\ j < first + len
    BY <1>1, <1>2, <1>3
  <2> QED
    BY <1>1, <1>2, <1>3, <2>1 DEF last
<1> HIDE DEF j
<1>5. pos = key[y[j]] /\ pos \in R
  <2>1. pos = key[y[j]]
    BY DEF y, j
  <2>2. y[j] \in Nat
    BY <1>1, <1>4 DEF NatArrays
  <2> QED
    BY <2>1, <2>2 DEF Keys
\* Buckets do not overlap.
<1>6. ASSUME NEW d \in R, NEW e \in R, NEW m \in Int,
             st[d] <= m, m < ub[d], st[e] <= m, m < ub[e]
      PROVE  d = e
  BY <1>0, <1>2, <1>6
<1>7. h \in Int /\ st[pos] <= h /\ h < ub[pos]
  <2>1. h \in Int /\ st[pos] <= h /\ h <= ub[pos]
    BY <1>1, <1>5
  <2>2. CASE h # ub[pos]
    BY <1>2, <1>5, <2>1, <2>2
  <2>3. CASE h = ub[pos]
    <3>1. \A m \in st[pos] .. ub[pos] - 1 : key[y[m]] = pos
      BY <1>1, <1>5, <2>3
    <3>2. j \in st[pos] .. ub[pos] - 1
      <4>1. key[y[j]] = pos /\ Rearranges(y, x, n, first, first + len - 1) /\ j \in first .. first + len - 1
        BY <1>1, <1>4, <1>5 DEF last
      <4> HIDE DEF h
      <4>2. y \in NatArrays(n) /\ pos \in 0 .. Radix - 1
        BY <1>1, <1>5
      <4>3. Full(y, st, ub, key, pos)
        BY <3>1 DEF Full
      <4>4. first + len <= n /\ Buckets(st, ub, key, x, first, len)
        OBVIOUS
      <4> QED
        BY ONLY <4>1, <4>2, <4>3, <4>4, n \in Nat, first \in Nat, len \in Nat,
                x \in NatArrays(n), key \in Keys, RoomInBucket
    <3>3. pos = i
      <4>1. st[pos] <= j /\ j < ub[pos] /\ st[i] <= j /\ j < ub[i] /\ j \in Int
        BY <1>2, <1>3, <1>4, <1>5, <3>2
      <4> QED
        BY <1>3, <1>5, <1>6, <4>1
    <3> QED
      BY <1>1, <1>2, <1>3, <1>4, <2>3, <3>3
  <2> QED
    BY <2>2, <2>3
<1>8. h \in first .. last /\ h \in 0 .. n - 1
  BY <1>2, <1>5, <1>7 DEF last
<1>9. t.x = Swapped(y, j, h) /\ t.lb = [lb EXCEPT ![pos] = h + 1] /\ t.i = i
      /\ t.j = IF pos = i THEN j + 1 ELSE j
  BY DEF y, j, h, lb, i, Puts
<1> HIDE DEF h
<1> DEFINE z == Swapped(y, j, h)
           up == [lb EXCEPT ![pos] = h + 1]
<1>10. /\ Rearranges(z, y, n, first, last)
       /\ \A m \in 0 .. n - 1 : z[m] = IF m = j THEN y[h] ELSE IF m = h THEN y[j] ELSE y[m]
       /\ z \in NatArrays(n)
  <2>1. y \in IntArrays(n)
    BY <1>1, NatArraysAreInt
  <2>2. /\ Rearranges(z, y, n, first, last)
        /\ \A m \in 0 .. n - 1 : z[m] = IF m = j THEN y[h] ELSE IF m = h THEN y[j] ELSE y[m]
    <3>1. first \in Int /\ last \in Int /\ j \in 0 .. n - 1 /\ h \in 0 .. n - 1
          /\ j \in first .. last /\ h \in first .. last
      BY <1>0, <1>4, <1>8
    <3> QED
      BY <2>1, <3>1, RearrangesSwap
  <2>3. z \in NatArrays(n)
    BY <1>1, <1>4, <1>8 DEF NatArrays, Swapped
  <2> QED
    BY <2>2, <2>3
<1> HIDE DEF z
<1>11. Rearranges(z, x, n, first, last)
  BY <1>1, <1>10, RearrangesTrans
<1>12. /\ up \in [R -> Int]
       /\ \A d \in R : up[d] = IF d = pos THEN h + 1 ELSE lb[d]
  BY <1>1, <1>5, <1>7
<1> HIDE DEF up
<1>13. \A d \in R : st[d] <= up[d] /\ up[d] <= ub[d]
  <2> SUFFICES ASSUME NEW d \in R PROVE st[d] <= up[d] /\ up[d] <= ub[d]
    OBVIOUS
  <2>1. CASE d = pos
    <3>1. up[d] = h + 1 /\ st[d] \in Int /\ ub[d] \in Int /\ st[d] <= h /\ h < ub[d]
      BY <1>2, <1>7, <1>12, <2>1
    <3> QED
      BY <1>7, <3>1
  <2>2. CASE d # pos
    BY <1>1, <1>12, <2>2
  <2> QED
    BY <2>1, <2>2
<1>14. h = lb[pos] /\ j = lb[i]
  BY <1>1 DEF h
<1>15. ASSUME NEW d \in R, NEW m \in st[d] .. up[d] - 1 PROVE key[z[m]] = d
  <2>0. m \in Int /\ st[d] <= m /\ m < up[d] /\ m < ub[d] /\ m \in 0 .. n - 1
    BY <1>2, <1>12, <1>13
  <2>1. CASE m = h
    <3>1. d = pos
      BY <1>2, <1>5, <1>6, <1>7, <2>0, <2>1
    <3>2. z[m] = y[j]
      BY <1>8, <1>10, <2>1
    <3> QED
      BY <1>5, <3>1, <3>2
  <2>2. CASE m # h
    <3>1. m < lb[d]
      <4>1. CASE d = pos
        <5>1. up[d] = h + 1 /\ lb[d] = h
          BY <1>12, <1>14, <4>1
        <5> QED
          BY <1>7, <2>0, <2>2, <5>1
      <4>2. CASE d # pos
        BY <1>12, <2>0, <4>2
      <4> QED
        BY <4>1, <4>2
    <3>2. m # j
      <4> SUFFICES ASSUME m = j PROVE FALSE
        OBVIOUS
      <4>1. d = i
        BY <1>1, <1>2, <1>3, <1>4, <1>6, <2>0
      <4> QED
        BY <1>1, <1>3, <1>14, <3>1, <4>1
    <3>3. z[m] = y[m]
      BY <1>10, <2>0, <2>2, <3>2
    <3>4. m \in st[d] .. lb[d] - 1
      <4>1. st[d] \in Int /\ lb[d] \in Int /\ m \in Int /\ st[d] <= m /\ m < lb[d]
        BY <1>1, <1>2, <2>0, <3>1
      <4> QED
        BY <4>1
    <3> QED
      BY <1>1, <3>3, <3>4
  <2> QED
    BY <2>1, <2>2
<1>16. \A d \in R : d < i => up[d] = ub[d]
  <2>1. \A d \in R : d < i => d # pos
    BY <1>1, <1>2, <1>5, <1>7, <1>14
  <2> QED
    BY <1>1, <1>12, <2>1
<1>17. t.j = up[i] /\ t.j \in Int
  BY <1>1, <1>3, <1>5, <1>7, <1>9, <1>12, <1>14
<1>18. k + 1 <= i + Cardinality(Placed(st, up, first, len))
  <2> DEFINE A == Placed(st, lb, first, len)
             B == Placed(st, up, first, len)
  <2>1. h \notin A
    <3> SUFFICES ASSUME NEW d \in R, st[d] <= h, h < lb[d] PROVE FALSE
      BY DEF Placed
    <3>1. h < ub[d] /\ lb[d] \in Int
      BY <1>1, <1>2, <1>7
    <3>2. d = pos
      BY <1>2, <1>5, <1>6, <1>7, <3>1
    <3> QED
      BY <1>7, <1>14, <3>1, <3>2
  <2>2. A \cup {h} \in SUBSET B
    <3>1. h \in B
      <4>1. st[pos] <= h /\ h < up[pos]
        BY <1>5, <1>7, <1>12
      <4>2. h \in first .. first + len - 1
        BY <1>8 DEF last
      <4> QED
        BY <1>5, <4>1, <4>2 DEF Placed
    <3>2. \A m \in Int, d \in R : m < lb[d] => m < up[d]
      <4> SUFFICES ASSUME NEW m \in Int, NEW d \in R, m < lb[d] PROVE m < up[d]
        OBVIOUS
      <4>1. CASE d = pos
        <5>1. up[d] = h + 1 /\ lb[d] = h
          BY <1>12, <1>14, <4>1
        <5> QED
          BY <1>7, <5>1
      <4>2. CASE d # pos
        BY <1>12, <4>2
      <4> QED
        BY <4>1, <4>2
    <3>3. A \subseteq B
      BY <3>2 DEF Placed
    <3> QED
      BY <3>1, <3>3
  <2>3. IsFiniteSet(A) /\ Cardinality(A) \in Nat /\ IsFiniteSet(B) /\ Cardinality(B) \in Nat
    <3>1. \A c \in 0 .. len : c \in Nat
      OBVIOUS
    <3> QED
      BY <3>1, PlacedIs
  <2>4. k <= i + Cardinality(A)
    BY <1>1
  <2> HIDE DEF A, B
  <2>5. Cardinality(A \cup {h}) = Cardinality(A) + 1
    BY <2>1, <2>3, FS_AddElement
  <2>6. Cardinality(A \cup {h}) <= Cardinality(B)
    BY <2>2, <2>3, FS_Subset
  <2>7. k + 1 <= i + Cardinality(B)
    BY <1>1, <2>3, <2>4, <2>5, <2>6
  <2> QED
    BY <2>7 DEF B
<1>19. t.x = z /\ t.lb = up /\ t.i = i
  BY <1>9 DEF z, up
<1>20. ScanInv(t, k + 1, st, ub, key, x, n, first, len)
  <2>1. /\ t.x \in NatArrays(n)
        /\ Rearranges(t.x, x, n, first, first + len - 1)
        /\ t.lb \in [0 .. Radix - 1 -> Int] /\ t.i \in 0 .. Radix /\ t.j \in Int
    BY <1>1, <1>10, <1>11, <1>12, <1>17, <1>19 DEF last
  <2>2. \A d \in 0 .. Radix - 1 : st[d] <= t.lb[d] /\ t.lb[d] <= ub[d]
    BY <1>13, <1>19
  <2>3. \A d \in 0 .. Radix - 1 : \A m \in st[d] .. t.lb[d] - 1 : key[t.x[m]] = d
    BY <1>15, <1>19
  <2>4. \A d \in 0 .. Radix - 1 : d < t.i => t.lb[d] = ub[d]
    BY <1>16, <1>19
  <2>5. t.j = t.lb[t.i] /\ k + 1 <= t.i + Cardinality(Placed(st, t.lb, first, len))
    BY <1>17, <1>18, <1>19
  <2> QED
    BY <2>1, <2>2, <2>3, <2>4, <2>5 DEF ScanInv
<1> QED
  BY <1>20

\* A step of the scan, of either kind or past the end.
LEMMA ScanStepKeeps ==
    ASSUME NEW n \in Nat, NEW first \in Nat, NEW len \in Nat, first + len <= n,
           NEW level \in Nat, NEW wild \in 0 .. Digits - 1,
           NEW x \in NatArrays(n), NEW key \in Keys, key = KeyOf(level, wild),
           NEW st, NEW ub, Buckets(st, ub, key, x, first, len),
           NEW s, NEW k \in Nat, ScanInv(s, k, st, ub, key, x, n, first, len)
    PROVE  ScanInv(ScanStep(s, ub, level, wild), k + 1, st, ub, key, x, n, first, len)
<1> DEFINE pos == LevelDigit(s.x[s.j], level, wild)
           over == [s EXCEPT !.i = @ + 1, !.j = IF s.i + 1 < Radix THEN s.lb[s.i + 1] ELSE @]
           put == [x  |-> Swapped(s.x, s.j, s.lb[pos]),
                   lb |-> [s.lb EXCEPT ![pos] = @ + 1],
                   i  |-> s.i,
                   j  |-> IF Advances(pos, s.i) THEN s.j + 1 ELSE s.j]
           t == ScanStep(s, ub, level, wild)
<1>1. t = IF s.i = Radix THEN s ELSE IF s.j >= ub[s.i] THEN over ELSE put
  BY DEF ScanStep
<1>2. CASE s.i = Radix
  <2>1. t = s
    BY <1>1, <1>2
  <2>2. ScanInv(s, k + 1, st, ub, key, x, n, first, len)
    BY <1>2 DEF ScanInv
  <2> QED
    BY <2>1, <2>2
<1>3. CASE s.i # Radix /\ s.j >= ub[s.i]
  <2>1. t = over
    BY <1>1, <1>3
  <2>2. over.x = s.x /\ over.lb = s.lb /\ over.i = s.i + 1
        /\ over.j = IF s.i + 1 < Radix THEN s.lb[s.i + 1] ELSE s.j
    OBVIOUS
  <2> HIDE DEF over, t
  <2>3. ScanInv(over, k + 1, st, ub, key, x, n, first, len)
    BY <1>3, <2>2, NextBucket
  <2> QED
    BY <2>1, <2>3 DEF t
<1>4. CASE s.i # Radix /\ ~(s.j >= ub[s.i])
  <2>1. t = put
    BY <1>1, <1>4
  <2>2. s.j < ub[s.i] /\ s.x[s.j] \in Nat
    <3>1. s.i \in 0 .. Radix - 1
      <4>1. \A a \in 0 .. Radix : a # Radix => a \in 0 .. Radix - 1
        BY SortingAssumption
      <4>2. s.i \in 0 .. Radix
        BY DEF ScanInv
      <4> QED
        BY <1>4, <4>1, <4>2
    <3>2. ub[s.i] \in Int /\ st[s.i] \in Int /\ first <= st[s.i] /\ ub[s.i] <= first + len
      BY <3>1 DEF Buckets
    <3>3. s.j \in Int /\ st[s.i] <= s.j /\ s.x \in [0 .. n - 1 -> Nat]
      BY <1>4, <3>1 DEF ScanInv, NatArrays
    <3>4. s.j < ub[s.i] /\ s.j \in 0 .. n - 1
      BY <1>4, <3>2, <3>3
    <3> QED
      BY <3>3, <3>4
  <2>3. pos = key[s.x[s.j]]
    BY <2>2 DEF KeyOf
  <2>4. Puts(put, s, pos)
    BY DEF Advances, Puts
  <2> HIDE DEF put, t, pos
  <2>5. ScanInv(put, k + 1, st, ub, key, x, n, first, len)
    BY <1>4, <2>2, <2>3, <2>4, PutInBucket
  <2> QED
    BY <2>1, <2>5 DEF t
<1> HIDE DEF t
<1>5. ScanInv(t, k + 1, st, ub, key, x, n, first, len)
  BY <1>2, <1>3, <1>4 DEF t
<1> QED
  BY <1>5 DEF t

\* Each place of the part holds an element of the bucket the place is in.
InBuckets(y, st, ub, key) ==
    \A d \in 0 .. Radix - 1 : \A m \in st[d] .. ub[d] - 1 : key[y[m]] = d

\* The scan brings every element into its bucket.
LEMMA ScanSorts ==
    ASSUME NEW n \in Nat, NEW first \in Nat, NEW len \in Nat, first + len <= n,
           NEW level \in Nat, NEW wild \in 0 .. Digits - 1, NEW x \in NatArrays(n),
           NEW key, key = KeyOf(level, wild),
           NEW ub, ub = Upper(x, first, len, level, wild),
           NEW st, st = Lower(ub, first)
    PROVE  /\ Buckets(st, ub, key, x, first, len)
           /\ Scan(x, first, len, level, wild) \in NatArrays(n)
           /\ Rearranges(Scan(x, first, len, level, wild), x, n, first, first + len - 1)
           /\ InBuckets(Scan(x, first, len, level, wild), st, ub, key)
<1> DEFINE N == len + Radix
           x0 == [x |-> x, lb |-> st, i |-> 0, j |-> st[0]]
           Next(s, k) == ScanStep(s, ub, level, wild)
           Is(g) == g = [k \in 0 .. N |-> IF k = 0 THEN x0 ELSE Next(g[k - 1], k)]
           after == CHOOSE g : Is(g)
           T == [x : NatArrays(n), lb : [0 .. Radix - 1 -> Int], i : 0 .. Radix, j : Int]
           J == {s \in T \X Nat : ScanInv(s[1], s[2], st, ub, key, x, n, first, len)}
           F == [s \in J |-> Next(s[1], s[2] + 1)]
<1>0. N \in Nat
  BY SortingAssumption
<1>1. Scan(x, first, len, level, wild) = after[N].x
  BY DEF Scan
<1>2. key \in Keys /\ Buckets(st, ub, key, x, first, len)
  <2>1. x \in [0 .. n - 1 -> Nat]
    BY DEF NatArrays
  <2>2. KeyOf(level, wild) \in Keys /\ Buckets(Lower(ub, first), ub, KeyOf(level, wild), x, first, len)
    BY <2>1, KeyIs, UpperIs
  <2> QED
    BY <2>2
<1>3. ScanInv(x0, 0, st, ub, key, x, n, first, len)
  BY <1>2, ScanStarts
<1>4. \A s, k : ScanInv(s, k, st, ub, key, x, n, first, len)
                => [x |-> s.x, lb |-> s.lb, i |-> s.i, j |-> s.j] \in T
  BY DEF ScanInv
<1>5. <<x0, 0>> \in J
  <2>1. x0 = [x |-> x0.x, lb |-> x0.lb, i |-> x0.i, j |-> x0.j]
    OBVIOUS
  <2> HIDE DEF x0
  <2>2. x0 \in T
    BY <1>3, <1>4, <2>1
  <2> QED
    BY <1>3, <2>2
<1> HIDE DEF x0
<1>6. ASSUME NEW s, NEW k, k \in 0 .. N - 1, <<s, k>> \in J
      PROVE  F[<<s, k>>] = Next(s, k + 1) /\ <<F[<<s, k>>], k + 1>> \in J
  <2>1. F[<<s, k>>] = Next(s, k + 1)
    BY <1>6
  <2>2. ScanInv(s, k, st, ub, key, x, n, first, len) /\ k \in Nat /\ k + 1 \in Nat /\ s \in T
    BY <1>6
  <2>3. ScanInv(Next(s, k + 1), k + 1, st, ub, key, x, n, first, len)
    <3> HIDE DEF J, F, T
    <3> QED
      BY <1>2, <2>2, ScanStepKeeps
  <2>4. Next(s, k + 1) = [x |-> Next(s, k + 1).x, lb |-> Next(s, k + 1).lb,
                          i |-> Next(s, k + 1).i, j |-> Next(s, k + 1).j]
    BY <2>2 DEF ScanStep
  <2> HIDE DEF Next, F
  <2>5. Next(s, k + 1) \in T
    BY <1>4, <2>3, <2>4
  <2>6. <<Next(s, k + 1), k + 1>> \in J
    BY <2>2, <2>3, <2>5
  <2> HIDE DEF J
  <2> QED
    BY <2>1, <2>6
<1> HIDE DEF J, F, Next, N
<1>7. PICK g : LoopOf(g, F, x0, N) /\ \A k \in 0 .. N : <<g[k], k>> \in J
  BY <1>0, <1>5, <1>6, LoopExists
<1>8. Is(g)
  <2>1. \A k \in 0 .. N : k # 0 => F[<<g[k - 1], k - 1>>] = Next(g[k - 1], k)
    <3> SUFFICES ASSUME NEW k \in 0 .. N, k # 0
                 PROVE  F[<<g[k - 1], k - 1>>] = Next(g[k - 1], k)
      OBVIOUS
    <3>1. k - 1 \in 0 .. N - 1 /\ k - 1 \in 0 .. N /\ (k - 1) + 1 = k
      BY <1>0
    <3>2. <<g[k - 1], k - 1>> \in J
      BY <1>7, <3>1
    <3> QED
      BY <1>6, <3>1, <3>2
  <2>2. g = [k \in 0 .. N |-> IF k = 0 THEN x0 ELSE F[<<g[k - 1], k - 1>>]]
    BY <1>7 DEF LoopOf
  <2> QED
    BY <2>1, <2>2
<1>9. Is(after)
  <2> HIDE DEF Is
  <2> QED
    BY <1>8
<1> HIDE DEF after
<1>10. /\ after[0] = x0
      /\ \A k \in 0 .. N - 1 : after[k + 1] = Next(after[k], k + 1)
  <2>1. after[0] = x0
    BY <1>0, <1>9
  <2>2. ASSUME NEW k \in 0 .. N - 1 PROVE after[k + 1] = Next(after[k], k + 1)
    <3>1. k + 1 \in 0 .. N /\ k + 1 # 0 /\ (k + 1) - 1 = k
      BY <1>0
    <3> QED
      BY <1>9, <3>1
  <2> QED
    BY <2>1, <2>2
<1>11. \A k \in 0 .. N - 1 : <<after[k], k>> \in J => <<after[k + 1], k + 1>> \in J
  BY <1>6, <1>10
<1>12. \A k \in 0 .. N : <<after[k], k>> \in J
  BY <1>0, <1>5, <1>10, <1>11, LoopKeeps
<1>13. ScanInv(after[N], N, st, ub, key, x, n, first, len)
  <2>1. N \in 0 .. N
    BY <1>0
  <2>2. <<after[N], N>> \in J
    BY <1>12, <2>1
  <2> QED
    BY <2>2 DEF J
<1> DEFINE y == after[N]
<1> HIDE DEF y
<1>14. ScanInv(y, N, st, ub, key, x, n, first, len)
  BY <1>13 DEF y
<1>15. y.i = Radix
  <2>1. Cardinality(Placed(st, y.lb, first, len)) \in 0 .. len
    BY PlacedIs
  <2>2. y.i \in 0 .. Radix /\ (y.i # Radix => N <= y.i + Cardinality(Placed(st, y.lb, first, len)))
    BY <1>14 DEF ScanInv
  <2>3. Radix \in Nat
    BY SortingAssumption
  <2> QED
    BY <2>1, <2>2, <2>3 DEF N
<1>16. InBuckets(y.x, st, ub, key)
  <2>1. \A d \in 0 .. Radix - 1 : d < Radix
    BY SortingAssumption
  <2>2. \A d \in 0 .. Radix - 1 : y.lb[d] = ub[d]
    BY <1>14, <1>15, <2>1 DEF ScanInv
  <2> QED
    BY <1>14, <2>2 DEF ScanInv, InBuckets
<1>17. y.x \in NatArrays(n) /\ Rearranges(y.x, x, n, first, first + len - 1)
  BY <1>14 DEF ScanInv
<1>18. Scan(x, first, len, level, wild) = y.x
  BY <1>1 DEF y
<1> QED
  BY <1>2, <1>16, <1>17, <1>18

-----------------------------------------------------------------------------
(***************************************************************************)
(* The levels of countsort_inplace.                                        *)
(***************************************************************************)

\* Of a number, the digits that the levels before this one have looked at.
Top(u, level) == IF level <= Digits THEN High(u, Digits - level) ELSE u

\* Before the first level nothing was looked at, after Digits levels all was.
LEMMA TopIs ==
    ASSUME NEW u \in Nat
    PROVE  (u \in Numbers => Top(u, 0) = 0) /\ (\A level \in Nat : level >= Digits => Top(u, level) = u)
<1>0. Digits \in Nat /\ u \in Nat
  BY SortingAssumption
<1>1. Top(u, 0) = u \div RadixPower[Digits]
  BY <1>0 DEF Top, High
<1> DEFINE P == RadixPower[Digits]
<1>2. P \in Nat \ {0} /\ (u \in Numbers <=> u \in 0 .. P - 1)
  <2>1. Digits \in 0 .. Digits
    BY <1>0
  <2> QED
    BY <2>1, RadixPowerIs DEF Numbers
<1> HIDE DEF P
<1>3. u \in Numbers => u \div P = 0
  BY <1>2, DivModSmall
<1>4. u \div 1 = u
  BY <1>0
<1>5. ASSUME NEW level \in Nat, level >= Digits PROVE Top(u, level) = u
  <2>1. CASE level = Digits
    <3>1. Digits - level = 0
      BY <1>0, <2>1
    <3>2. Top(u, level) = u \div RadixPower[0]
      BY <1>0, <2>1, <3>1 DEF Top, High
    <3> QED
      BY <1>4, <3>2, RadixPowerIs
  <2>2. CASE level # Digits
    <3>1. ~(level <= Digits)
      BY <1>0, <1>5, <2>2
    <3> QED
      BY <3>1 DEF Top
  <2> QED
    BY <2>1, <2>2
<1> QED
  BY <1>1, <1>3, <1>5 DEF P

\* A greater quotient is that of a greater number.
LEMMA DivOrders ==
    ASSUME NEW u \in Nat, NEW v \in Nat, NEW P \in Nat \ {0}, u \div P < v \div P
    PROVE  u < v
<1>1. PICK q \in Nat, r \in 0 .. P - 1 : u = q * P + r /\ u \div P = q
  BY DivModOf
<1>2. PICK h \in Nat, s \in 0 .. P - 1 : v = h * P + s /\ v \div P = h
  BY DivModOf
<1>3. PICK e \in Nat : h = q + 1 + e
  <2>1. h = q + 1 + (h - q - 1) /\ h - q - 1 \in Nat
    BY <1>1, <1>2
  <2> QED
    BY <2>1
<1>4. h * P = q * P + P + e * P
  BY <1>3
<1>5. e * P \in Nat /\ q * P \in Nat
  OBVIOUS
<1> QED
  BY <1>1, <1>2, <1>4, <1>5

\* Nat that agree so far are ordered by the digit of this level.
LEMMA LevelOrders ==
    ASSUME NEW u \in Nat, NEW v \in Nat, NEW level \in Nat, NEW wild \in 0 .. Digits - 1,
           NEW key, key = KeyOf(level, wild), Top(u, level) = Top(v, level)
    PROVE  /\ key[u] = key[v] => Top(u, level + 1) = Top(v, level + 1)
           /\ key[u] < key[v] => u <= v
<1>0. Digits \in Nat /\ Radix \in Nat \ {0} /\ u \in Nat /\ v \in Nat
  BY SortingAssumption
<1>1. CASE level >= Digits
  <2>1. u = v
    BY <1>1, TopIs
  <2> QED
    BY <1>0, <2>1
<1>2. CASE ~(level >= Digits)
  <2> DEFINE k == Digits - 1 - level
  <2>1. k \in 0 .. Digits - 1 /\ k + 1 = Digits - level /\ k = Digits - (level + 1)
        /\ level < Digits /\ level <= Digits /\ level + 1 <= Digits /\ k \in 0 .. Digits
    BY <1>0, <1>2
  <2>2. key[u] = Digit(u, k) /\ key[v] = Digit(v, k)
    BY <2>1 DEF KeyOf, LevelDigit
  <2> HIDE DEF k
  <2>3. Top(u, level) = High(u, k + 1) /\ Top(v, level) = High(v, k + 1)
        /\ Top(u, level + 1) = High(u, k) /\ Top(v, level + 1) = High(v, k)
    BY <2>1 DEF Top
  <2>4. /\ High(u, k) = High(u, k + 1) * Radix + Digit(u, k)
        /\ High(v, k) = High(v, k + 1) * Radix + Digit(v, k)
        /\ Digit(u, k) \in 0 .. Radix - 1 /\ Digit(v, k) \in 0 .. Radix - 1
        /\ High(u, k) \in Nat /\ High(v, k) \in Nat
    BY <1>0, <2>1, DigitSplits
  <2>5. High(u, k + 1) = High(v, k + 1)
    BY <2>3
  <2>6. key[u] = key[v] => Top(u, level + 1) = Top(v, level + 1)
    BY <2>2, <2>3, <2>4, <2>5
  <2>7. ASSUME key[u] < key[v] PROVE u <= v
    <3> DEFINE h == High(u, k + 1) * Radix
               P == RadixPower[k]
    <3>1. Digit(u, k) \in Int /\ Digit(v, k) \in Int /\ Digit(u, k) < Digit(v, k)
      BY <1>0, <2>2, <2>4, <2>7
    <3>2. High(u, k) = h + Digit(u, k) /\ High(v, k) = h + Digit(v, k)
      BY <2>4, <2>5
    <3>3. h \in Int
      <4>1. h = High(v, k + 1) * Radix
        BY <2>5
      <4>2. High(u, k + 1) \in Int
        <5>1. RadixPower[k + 1] \in Nat \ {0}
          <6>1. k + 1 \in 0 .. Digits
            BY <1>0, <2>1
          <6> QED
            BY <6>1, RadixPowerIs
        <5> QED
          BY <1>0, <5>1 DEF High
      <4> QED
        BY <1>0, <4>2
    <3> HIDE DEF h
    <3>4. High(u, k) < High(v, k)
      BY <3>1, <3>2, <3>3
    <3>5. P \in Nat \ {0}
      BY <2>1, RadixPowerIs
    <3>6. u \div P < v \div P
      BY <3>4 DEF High
    <3> HIDE DEF P
    <3>7. u < v
      BY <1>0, <3>5, <3>6, DivOrders
    <3> QED
      BY <1>0, <3>7
  <2> QED
    BY <2>6, <2>7
<1> QED
  BY <1>1, <1>2

\* Every place of the part is in a bucket.
LEMMA BucketsCover ==
    ASSUME NEW first \in Nat, NEW len \in Nat, NEW key, NEW x, NEW st, NEW ub,
           Buckets(st, ub, key, x, first, len), NEW m \in first .. first + len - 1
    PROVE  \E d \in 0 .. Radix - 1 : m \in st[d] .. ub[d] - 1
<1> DEFINE R == 0 .. Radix - 1
           S == {d \in R : ub[d] <= m}
<1>0. Radix \in Nat \ {0} /\ 0 \in R /\ Radix - 1 \in R
  BY SortingAssumption
<1>1. /\ st[0] = first /\ ub[Radix - 1] = first + len
      /\ \A d \in R : st[d] \in Int /\ ub[d] \in Int /\ (d # 0 => st[d] = ub[d - 1])
  BY DEF Buckets
<1>2. CASE S = {}
  <2>1. ~(ub[0] <= m)
    BY <1>0, <1>2
  <2>2. m \in st[0] .. ub[0] - 1
    BY <1>0, <1>1, <2>1
  <2> QED
    BY <1>0, <2>2
<1>3. CASE S # {}
  <2>1. PICK d \in R : d \in S /\ \A e \in d + 1 .. Radix - 1 : e \notin S
    <3>1. \E e \in R : e \in S
      BY <1>3
    <3>2. 0 \in Int /\ Radix - 1 \in Int
      BY <1>0
    <3> HIDE DEF S
    <3> QED
      BY <3>1, <3>2, LastOne
  <2>2. d # Radix - 1
    BY <1>0, <1>1, <2>1
  <2>3. d + 1 \in R /\ d + 1 \in d + 1 .. Radix - 1 /\ d + 1 # 0 /\ (d + 1) - 1 = d
    BY <1>0, <2>2
  <2>4. d + 1 \notin S
    BY <2>1, <2>3
  <2>5. st[d + 1] <= m /\ m < ub[d + 1]
    BY <1>1, <2>1, <2>3, <2>4
  <2>6. m \in st[d + 1] .. ub[d + 1] - 1
    BY <1>1, <2>3, <2>5
  <2> QED
    BY <2>3, <2>6
<1> QED
  BY <1>2, <1>3

\* Rearranged natural numbers are natural numbers.
LEMMA RearrangesNumbers ==
    ASSUME NEW n \in Nat, NEW a, NEW b, NEW x \in NatArrays(n), NEW y, Rearranges(y, x, n, a, b)
    PROVE  y \in NatArrays(n)
<1>1. y \in IntArrays(n)
  BY DEF Rearranges
<1>2. PICK p : ComesFrom(p, y, x, n, a, b)
  BY DEF Rearranges
<1>3. \A k \in 0 .. n - 1 : y[k] = x[p[k]] /\ p[k] \in 0 .. n - 1
  BY <1>2 DEF ComesFrom, Perms
<1>4. \A k \in 0 .. n - 1 : y[k] \in Nat
  BY <1>3 DEF NatArrays
<1> QED
  BY <1>1, <1>4 DEF IntArrays, NatArrays

PartsOf(n) == {r \in [x : NatArrays(n), first : Nat, len : Nat] : r.first + r.len <= n}

\* The elements of the part agree in the digits of the levels before this.
Agree(x, first, len, level) ==
    \A i, j \in first .. first + len - 1 : Top(x[i], level) = Top(x[j], level)

SortsParts(F, n, level) ==
    /\ F \in [PartsOf(n) -> NatArrays(n)]
    /\ \A r \in PartsOf(n) :
            /\ Rearranges(F[r], r.x, n, r.first, r.first + r.len - 1)
            /\ level <= MaxLevel /\ Agree(r.x, r.first, r.len, level)
                    => InOrder(F[r], r.first, r.first + r.len - 1)

\* A bucket is sorted by the next level or by quicksort.
LEMMA SortBucketSorts ==
    ASSUME NEW n \in Nat, NEW level \in Nat, NEW F, SortsParts(F, n, level + 1),
           NEW x \in NatArrays(n), NEW first \in Nat, NEW len \in Nat, first + len <= n,
           NEW last, last = first + len - 1
    PROVE  /\ SortBucket(F, x, first, len, level) \in NatArrays(n)
           /\ Rearranges(SortBucket(F, x, first, len, level), x, n, first, last)
           /\ Agree(x, first, len, level + 1) => InOrder(SortBucket(F, x, first, len, level), first, last)
<1>1. CASE len > FlagCutoff /\ level < MaxLevel
  <2> DEFINE r == [x |-> x, first |-> first, len |-> len]
  <2>1. SortBucket(F, x, first, len, level) = F[r]
    BY <1>1 DEF SortBucket
  <2>2. r \in PartsOf(n) /\ r.x = x /\ r.first = first /\ r.len = len
    BY DEF PartsOf
  <2>3. level + 1 <= MaxLevel
    BY <1>1, SortingAssumption
  <2> HIDE DEF r
  <2> QED
    BY <2>1, <2>2, <2>3 DEF SortsParts
<1>2. CASE ~(len > FlagCutoff /\ level < MaxLevel)
  <2> DEFINE y == QuicksortPart(x, first, len)
  <2>1. SortBucket(F, x, first, len, level) = y
    BY <1>2 DEF SortBucket
  <2>2. Sorts(y, x, n, first, last)
    <3>1. x \in IntArrays(n)
      BY NatArraysAreInt
    <3>2. Sorts(y, x, n, first, first + len - 1)
      BY <3>1, QuicksortPartSorts
    <3> QED
      BY <3>2
  <2> HIDE DEF y
  <2>3. Rearranges(y, x, n, first, last) /\ InOrder(y, first, last)
    BY <2>2 DEF Sorts
  <2>4. y \in NatArrays(n)
    BY <2>3, RearrangesNumbers
  <2> QED
    BY <2>1, <2>3, <2>4
<1> QED
  BY <1>1, <1>2

(***************************************************************************)
(* After the first k buckets of a part: every bucket still has its         *)
(* elements, and those before k are in order.                              *)
(***************************************************************************)
BucketInv(a, k, r, n, level, st, ub, key) ==
    /\ a \in NatArrays(n)
    /\ Rearranges(a, r.x, n, r.first, r.first + r.len - 1)
    /\ InBuckets(a, st, ub, key)
    /\ Agree(r.x, r.first, r.len, level) =>
            \A d \in 0 .. Radix - 1 : d < k => InOrder(a, st[d], ub[d] - 1)

\* Rearranged elements agree where they agreed before.
LEMMA AgreeKept ==
    ASSUME NEW n \in Nat, NEW level, NEW r \in PartsOf(n), NEW a \in NatArrays(n),
           Rearranges(a, r.x, n, r.first, r.first + r.len - 1),
           Agree(r.x, r.first, r.len, level)
    PROVE  Agree(a, r.first, r.len, level)
<1> DEFINE first == r.first
           last == r.first + r.len - 1
           x == r.x
<1>1. first \in Int /\ last \in Int /\ first .. last \subseteq 0 .. n - 1 /\ x \in NatArrays(n)
  BY DEF PartsOf
<1>2. Rearranges(a, x, n, first, last)
  OBVIOUS
<1>3. \A i, j \in first .. last : Top(x[i], level) = Top(x[j], level)
  BY DEF Agree
<1> HIDE DEF first, last, x
<1>4. \A k \in 0 .. n - 1 : k \in first .. last =>
                    \E m \in 0 .. n - 1 : m \in first .. last /\ a[k] = x[m]
  <2>1. first \in Int /\ last \in Int
    BY <1>1
  <2> QED
    BY <1>2, <2>1, RearrangesKeeps
<1>5. ASSUME NEW i \in first .. last, NEW j \in first .. last
      PROVE  Top(a[i], level) = Top(a[j], level)
  <2>1. PICK k \in first .. last : a[i] = x[k]
    BY <1>1, <1>4
  <2>2. PICK m \in first .. last : a[j] = x[m]
    BY <1>1, <1>4
  <2> QED
    BY <1>3, <2>1, <2>2
<1> QED
  BY <1>5 DEF Agree, first, last

\* One more bucket is put in order.
LEMMA BucketStep ==
    ASSUME NEW n \in Nat, NEW level \in Nat, NEW wild \in 0 .. Digits - 1,
           NEW F, SortsParts(F, n, level + 1), NEW r \in PartsOf(n),
           NEW key \in Keys, key = KeyOf(level, wild),
           NEW st, NEW ub, Buckets(st, ub, key, r.x, r.first, r.len),
           NEW k \in 0 .. Radix - 1, NEW a, BucketInv(a, k, r, n, level, st, ub, key)
    PROVE  BucketInv(SortBucket(F, a, st[k], ub[k] - st[k], level), k + 1, r, n, level, st, ub, key)
<1> DEFINE R == 0 .. Radix - 1
           first == r.first
           last == r.first + r.len - 1
           f == st[k]
           l == ub[k] - 1
           len == ub[k] - st[k]
           b == SortBucket(F, a, f, len, level)
<1>0. Radix \in Nat \ {0} /\ \A d \in R : d \in Int
  BY SortingAssumption
<1>1. /\ first \in Nat /\ r.len \in Nat /\ first + r.len <= n /\ first \in Int /\ last \in Int
      /\ r.x \in NatArrays(n) /\ first .. last \subseteq 0 .. n - 1
  BY DEF PartsOf
<1>2. /\ \A d \in R : /\ st[d] \in Int /\ ub[d] \in Int
                      /\ first <= st[d] /\ st[d] <= ub[d] /\ ub[d] <= first + r.len
      /\ \A d, e \in R : d < e => ub[d] <= st[e]
  BY DEF Buckets
<1>3. /\ f \in Nat /\ len \in Nat /\ f + len <= n /\ l = f + len - 1
      /\ f \in Int /\ l \in Int /\ first <= f /\ l <= last /\ f + len = ub[k]
      /\ f .. l \subseteq 0 .. n - 1
  <2>1. first <= st[k] /\ st[k] <= ub[k] /\ ub[k] <= first + r.len /\ st[k] \in Int /\ ub[k] \in Int
    BY <1>2
  <2> QED
    BY <1>1, <2>1
<1>4. /\ a \in NatArrays(n) /\ Rearranges(a, r.x, n, first, last)
      /\ InBuckets(a, st, ub, key)
      /\ Agree(r.x, r.first, r.len, level) => \A d \in R : d < k => InOrder(a, st[d], ub[d] - 1)
  BY DEF BucketInv
<1> HIDE DEF last, len, l, f, first
<1>5. /\ b \in NatArrays(n) /\ Rearranges(b, a, n, f, l)
      /\ Agree(a, f, len, level + 1) => InOrder(b, f, l)
  BY <1>3, <1>4, SortBucketSorts
<1>6. b = SortBucket(F, a, st[k], ub[k] - st[k], level)
  BY DEF f, len
<1> HIDE DEF b
<1>7. Rearranges(b, r.x, n, first, last)
  <2>1. Rearranges(b, a, n, first, last)
    <3>1. f \in Int /\ l \in Int /\ first \in Int /\ last \in Int /\ first <= f /\ l <= last
      BY <1>1, <1>3
    <3>2. Rearranges(b, a, n, f, l)
      BY <1>5
    <3> QED
      BY ONLY <3>1, <3>2, n \in Nat, RearrangesWider
  <2> QED
    BY <1>4, <2>1, RearrangesTrans
<1>8. /\ \A m \in (0 .. n - 1) \ (f .. l) : b[m] = a[m]
      /\ \A m \in 0 .. n - 1 : m \in f .. l =>
                    \E i \in 0 .. n - 1 : i \in f .. l /\ b[m] = a[i]
  <2>1. f \in Int /\ l \in Int
    BY <1>3
  <2>2. Rearranges(b, a, n, f, l)
    BY <1>5
  <2> QED
    BY <2>1, <2>2, RearrangesKeeps
<1>9. \A i \in f .. l : key[a[i]] = k
  <2>1. \A i \in f .. l : i \in st[k] .. ub[k] - 1
    BY DEF f, l
  <2> QED
    BY <1>4, <2>1 DEF InBuckets
<1>10. InBuckets(b, st, ub, key)
  <2> SUFFICES ASSUME NEW d \in R, NEW m \in st[d] .. ub[d] - 1 PROVE key[b[m]] = d
    BY DEF InBuckets
  <2>1. m \in 0 .. n - 1
    <3>1. st[d] \in Int /\ ub[d] \in Int /\ first <= st[d] /\ ub[d] <= first + r.len
      BY <1>2
    <3> QED
      BY <1>1, <3>1
  <2>2. CASE m \in f .. l
    <3>1. d = k
      <4>1. st[d] <= m /\ m < ub[d] /\ st[k] <= m /\ m < ub[k] /\ m \in Int
            /\ st[d] \in Int /\ ub[d] \in Int /\ st[k] \in Int /\ ub[k] \in Int
        BY <1>2, <2>1, <2>2 DEF f, l
      <4>2. ~(d < k) /\ ~(k < d)
        BY <1>2, <4>1
      <4> QED
        BY <1>0, <4>2
    <3>2. PICK i \in 0 .. n - 1 : i \in f .. l /\ b[m] = a[i]
      BY <1>8, <2>1, <2>2
    <3> QED
      BY <1>9, <3>1, <3>2
  <2>3. CASE m \notin f .. l
    <3>1. b[m] = a[m]
      BY <1>8, <2>1, <2>3
    <3> QED
      BY <1>4, <3>1 DEF InBuckets
  <2> QED
    BY <2>2, <2>3
<1>11. ASSUME Agree(r.x, r.first, r.len, level), NEW d \in R, d < k + 1
       PROVE  InOrder(b, st[d], ub[d] - 1)
  <2>1. CASE d = k
    <3>1. Agree(a, r.first, r.len, level)
      <4>1. Rearranges(a, r.x, n, r.first, r.first + r.len - 1)
        BY <1>4 DEF first, last
      <4> QED
        BY <1>4, <1>11, <4>1, AgreeKept
    <3>2. \A i \in f .. l : i \in r.first .. r.first + r.len - 1 /\ a[i] \in Nat
      <4>1. \A i \in f .. l : i \in first .. last
        BY <1>1, <1>3
      <4>2. \A i \in f .. l : a[i] \in Nat
        BY <1>3, <1>4 DEF NatArrays
      <4> QED
        BY <4>1, <4>2 DEF first, last
    <3>3. ASSUME NEW i \in f .. l, NEW j \in f .. l
          PROVE  Top(a[i], level + 1) = Top(a[j], level + 1)
      <4>1. a[i] \in Nat /\ a[j] \in Nat
            /\ i \in r.first .. r.first + r.len - 1 /\ j \in r.first .. r.first + r.len - 1
        BY <3>2
      <4>2. Top(a[i], level) = Top(a[j], level)
        BY <3>1, <4>1 DEF Agree
      <4>3. key[a[i]] = key[a[j]]
        BY <1>9
      <4> QED
        BY <4>1, <4>2, <4>3, LevelOrders
    <3>4. Agree(a, f, len, level + 1)
      BY <1>3, <3>3 DEF Agree
    <3> QED
      BY <1>5, <2>1, <3>4 DEF f, l
  <2>2. CASE d # k
    <3>1. d < k
      BY <1>0, <1>11, <2>2
    <3>2. InOrder(a, st[d], ub[d] - 1)
      BY <1>4, <1>11, <3>1
    <3>3. \A m \in st[d] .. ub[d] - 1 : b[m] = a[m]
      <4> SUFFICES ASSUME NEW m \in st[d] .. ub[d] - 1 PROVE b[m] = a[m]
        OBVIOUS
      <4>1. m < f /\ m \in 0 .. n - 1
        <5>1. st[d] \in Int /\ ub[d] \in Int /\ first <= st[d] /\ ub[d] <= first + r.len /\ ub[d] <= st[k]
          BY <1>2, <3>1
        <5> QED
          BY <1>1, <1>3, <5>1 DEF f
      <4> QED
        BY <1>3, <1>8, <4>1
    <3> QED
      BY <3>2, <3>3 DEF InOrder
  <2> QED
    BY <2>1, <2>2
<1>12. BucketInv(b, k + 1, r, n, level, st, ub, key)
  <2>1. Rearranges(b, r.x, n, r.first, r.first + r.len - 1)
    BY <1>7 DEF first, last
  <2> QED
    BY <1>5, <1>10, <1>11, <2>1 DEF BucketInv
<1> QED
  BY <1>6, <1>12

\* A level puts in order a part whose elements agreed before it.
LEMMA SortBucketsSorts ==
    ASSUME NEW n \in Nat, NEW level \in Nat, NEW wild \in 0 .. Digits - 1,
           NEW deeper, SortsParts(deeper, n, level + 1), NEW r \in PartsOf(n)
    PROVE  /\ SortBuckets(deeper, r, level, wild) \in NatArrays(n)
           /\ Rearranges(SortBuckets(deeper, r, level, wild), r.x, n, r.first, r.first + r.len - 1)
           /\ Agree(r.x, r.first, r.len, level)
                => InOrder(SortBuckets(deeper, r, level, wild), r.first, r.first + r.len - 1)
<1> DEFINE ub == Upper(r.x, r.first, r.len, level, wild)
           st == Lower(ub, r.first)
           key == KeyOf(level, wild)
           x0 == Scan(r.x, r.first, r.len, level, wild)
           Next(a, k) == SortBucket(deeper, a, st[k - 1], ub[k - 1] - st[k - 1], level)
           Is(g) == g = [k \in 0 .. Radix |-> IF k = 0 THEN x0 ELSE Next(g[k - 1], k)]
           after == CHOOSE g : Is(g)
           J == {s \in NatArrays(n) \X Nat : BucketInv(s[1], s[2], r, n, level, st, ub, key)}
           F == [s \in J |-> Next(s[1], s[2] + 1)]
<1>0. Radix \in Nat \ {0}
  BY SortingAssumption
<1>1. SortBuckets(deeper, r, level, wild) = after[Radix]
  BY DEF SortBuckets
<1>2. r.x \in NatArrays(n) /\ r.first \in Nat /\ r.len \in Nat /\ r.first + r.len <= n
  BY DEF PartsOf
<1>3. key \in Keys
  BY KeyIs
<1>4. /\ Buckets(st, ub, key, r.x, r.first, r.len)
      /\ x0 \in NatArrays(n)
      /\ Rearranges(x0, r.x, n, r.first, r.first + r.len - 1)
      /\ InBuckets(x0, st, ub, key)
  <2> DEFINE x == r.x
             first == r.first
             len == r.len
  <2>1. x \in NatArrays(n) /\ first \in Nat /\ len \in Nat /\ first + len <= n
    BY <1>2
  <2>2. ub = Upper(x, first, len, level, wild) /\ st = Lower(ub, first) /\ key = KeyOf(level, wild)
        /\ x0 = Scan(x, first, len, level, wild)
    OBVIOUS
  <2> HIDE DEF x, first, len, ub, st, key, x0
  <2>3. /\ Buckets(st, ub, key, x, first, len)
        /\ x0 \in NatArrays(n)
        /\ Rearranges(x0, x, n, first, first + len - 1)
        /\ InBuckets(x0, st, ub, key)
    BY <2>1, <2>2, ScanSorts
  <2> QED
    BY <2>3 DEF x, first, len
<1> HIDE DEF ub, st, x0
<1>5. <<x0, 0>> \in J
  <2>1. \A d \in 0 .. Radix - 1 : ~(d < 0)
    BY <1>0
  <2>2. BucketInv(x0, 0, r, n, level, st, ub, key)
    BY <1>4, <2>1 DEF BucketInv
  <2> QED
    BY <1>4, <2>2
<1>6. ASSUME NEW a, NEW k, k \in 0 .. Radix - 1, <<a, k>> \in J
      PROVE  F[<<a, k>>] = Next(a, k + 1) /\ <<F[<<a, k>>], k + 1>> \in J
  <2>1. F[<<a, k>>] = Next(a, k + 1)
    BY <1>6
  <2>2. BucketInv(a, k, r, n, level, st, ub, key) /\ k + 1 \in Nat /\ (k + 1) - 1 = k
    BY <1>0, <1>6
  <2>3. Next(a, k + 1) = SortBucket(deeper, a, st[k], ub[k] - st[k], level)
    BY <2>2
  <2>4. key = KeyOf(level, wild)
    OBVIOUS
  <2> HIDE DEF Next, key, J, F
  <2>5. BucketInv(Next(a, k + 1), k + 1, r, n, level, st, ub, key)
    BY <1>3, <1>4, <1>6, <2>2, <2>3, <2>4, BucketStep
  <2>6. Next(a, k + 1) \in NatArrays(n)
    BY <2>5 DEF BucketInv
  <2>7. <<Next(a, k + 1), k + 1>> \in J
    BY <2>2, <2>5, <2>6 DEF J
  <2> QED
    BY <2>1, <2>7
<1>7. key = KeyOf(level, wild)
  OBVIOUS
<1> HIDE DEF J, F, Next, key
<1>8. PICK g : LoopOf(g, F, x0, Radix) /\ \A k \in 0 .. Radix : <<g[k], k>> \in J
  BY <1>0, <1>5, <1>6, LoopExists
<1>9. Is(g)
  <2>1. \A k \in 0 .. Radix : k # 0 => F[<<g[k - 1], k - 1>>] = Next(g[k - 1], k)
    <3> SUFFICES ASSUME NEW k \in 0 .. Radix, k # 0
                 PROVE  F[<<g[k - 1], k - 1>>] = Next(g[k - 1], k)
      OBVIOUS
    <3>1. k - 1 \in 0 .. Radix - 1 /\ k - 1 \in 0 .. Radix /\ (k - 1) + 1 = k
      BY <1>0
    <3>2. <<g[k - 1], k - 1>> \in J
      BY <1>8, <3>1
    <3> QED
      BY <1>6, <3>1, <3>2
  <2>2. g = [k \in 0 .. Radix |-> IF k = 0 THEN x0 ELSE F[<<g[k - 1], k - 1>>]]
    BY <1>8 DEF LoopOf
  <2> QED
    BY <2>1, <2>2
<1>10. Is(after)
  <2> HIDE DEF Is
  <2> QED
    BY <1>9
<1> HIDE DEF after
<1>11. /\ after[0] = x0
      /\ \A k \in 0 .. Radix - 1 : after[k + 1] = Next(after[k], k + 1)
  <2>1. after[0] = x0
    BY <1>0, <1>10
  <2>2. ASSUME NEW k \in 0 .. Radix - 1 PROVE after[k + 1] = Next(after[k], k + 1)
    <3>1. k + 1 \in 0 .. Radix /\ k + 1 # 0 /\ (k + 1) - 1 = k
      BY <1>0
    <3> QED
      BY <1>10, <3>1
  <2> QED
    BY <2>1, <2>2
<1>12. \A k \in 0 .. Radix - 1 : <<after[k], k>> \in J => <<after[k + 1], k + 1>> \in J
  BY <1>6, <1>11
<1>13. \A k \in 0 .. Radix : <<after[k], k>> \in J
  BY <1>0, <1>5, <1>11, <1>12, LoopKeeps
<1>14. BucketInv(after[Radix], Radix, r, n, level, st, ub, key)
  <2>1. Radix \in 0 .. Radix
    BY <1>0
  <2>2. <<after[Radix], Radix>> \in J
    BY <1>13, <2>1
  <2> QED
    BY <2>2 DEF J
<1> DEFINE y == after[Radix]
<1> HIDE DEF y
<1>15. BucketInv(y, Radix, r, n, level, st, ub, key)
  BY <1>14 DEF y
<1>16. y \in NatArrays(n) /\ Rearranges(y, r.x, n, r.first, r.first + r.len - 1)
       /\ InBuckets(y, st, ub, key)
  BY <1>15 DEF BucketInv
<1>17. ASSUME Agree(r.x, r.first, r.len, level)
       PROVE  InOrder(y, r.first, r.first + r.len - 1)
  <2>1. \A d \in 0 .. Radix - 1 : d \in Int /\ d < Radix
    BY <1>0
  <2>2. \A d \in 0 .. Radix - 1 : InOrder(y, st[d], ub[d] - 1)
    BY <1>15, <1>17, <2>1 DEF BucketInv
  <2>3. Agree(y, r.first, r.len, level)
    BY <1>16, <1>17, AgreeKept
  <2>4. /\ \A d \in 0 .. Radix - 1 : st[d] \in Int /\ ub[d] \in Int
        /\ \A d, e \in 0 .. Radix - 1 : d < e => ub[d] <= st[e]
    BY <1>4 DEF Buckets
  <2> SUFFICES ASSUME NEW i \in r.first .. r.first + r.len - 1,
                      NEW j \in r.first .. r.first + r.len - 1, i < j
               PROVE  y[i] <= y[j]
    BY DEF InOrder
  <2>5. i \in Int /\ j \in Int /\ i \in 0 .. n - 1 /\ j \in 0 .. n - 1
    BY <1>2
  <2>6. y[i] \in Nat /\ y[j] \in Nat
    BY <1>16, <2>5 DEF NatArrays
  <2>7. \A m \in r.first .. r.first + r.len - 1 : \E d \in 0 .. Radix - 1 : m \in st[d] .. ub[d] - 1
    BY <1>2, <1>4, BucketsCover
  <2>8. PICK d \in 0 .. Radix - 1 : i \in st[d] .. ub[d] - 1
    BY <2>7
  <2>9. PICK e \in 0 .. Radix - 1 : j \in st[e] .. ub[e] - 1
    BY <2>7
  <2>10. key[y[i]] = d /\ key[y[j]] = e
    BY <1>16, <2>8, <2>9 DEF InBuckets
  <2>11. CASE d = e
    BY <2>2, <2>8, <2>9, <2>11 DEF InOrder
  <2>12. CASE d < e
    <3>1. Top(y[i], level) = Top(y[j], level)
      BY <2>3 DEF Agree
    <3>2. key[y[i]] < key[y[j]]
      BY <2>10, <2>12
    <3> QED
      BY <1>7, <2>6, <3>1, <3>2, LevelOrders
  <2>13. CASE e < d
    <3>1. ub[e] <= st[d] /\ st[d] <= i /\ j < ub[e] /\ ub[e] \in Int /\ st[d] \in Int
      BY <2>4, <2>8, <2>9, <2>13
    <3> QED
      BY <2>5, <3>1
  <2> QED
    BY <2>1, <2>11, <2>12, <2>13
<1>18. SortBuckets(deeper, r, level, wild) = y
  BY <1>1 DEF y
<1> QED
  BY <1>16, <1>17, <1>18

\* countsort_inplace sorts.
LEMMA CountsortInplaceSorts ==
    ASSUME NEW n \in Nat, NEW wild \in 0 .. Digits - 1,
           NEW x \in NatArrays(n), \A i \in 0 .. n - 1 : x[i] \in Numbers
    PROVE  Sorts(CountsortInplace(x, wild), x, n, 0, n - 1)
<1> DEFINE N == MaxLevel + 1
           P == Parts(x)
           x0 == [r \in P |-> r.x]
           Next(f, m) == [r \in P |-> SortBuckets(f, r, MaxLevel + 1 - m, wild)]
           Is(g) == g = [m \in 0 .. N |-> IF m = 0 THEN x0 ELSE Next(g[m - 1], m)]
           after == CHOOSE g : Is(g)
           J == {s \in [PartsOf(n) -> NatArrays(n)] \X (0 .. N) : SortsParts(s[1], n, N - s[2])}
           F == [s \in J |-> Next(s[1], s[2] + 1)]
           whole == [x |-> x, first |-> 0, len |-> n]
<1>0. N \in Nat /\ MaxLevel \in Nat
  BY SortingAssumption
<1>1. Length(x) = n
  <2>1. DOMAIN x = 0 .. n - 1
    BY DEF NatArrays
  <2>2. Cardinality(0 .. n - 1) = n
    BY FS_Interval
  <2> QED
    BY <2>1, <2>2 DEF Length
<1>2. CountsortInplace(x, wild) = after[N][whole]
  BY <1>1 DEF CountsortInplace
<1>3. P = PartsOf(n)
  <2>1. [DOMAIN x -> Nat] = NatArrays(n)
    BY DEF NatArrays
  <2> QED
    BY <1>1, <2>1 DEF Parts, PartsOf
<1>4. whole \in PartsOf(n) /\ whole.x = x /\ whole.first = 0 /\ whole.len = n
  BY DEF PartsOf
<1> HIDE DEF P, whole
<1>5. <<x0, 0>> \in J
  <2>1. \A r \in PartsOf(n) : x0[r] = r.x /\ r.x \in NatArrays(n)
    BY <1>3 DEF PartsOf
  <2>2. x0 \in [PartsOf(n) -> NatArrays(n)]
    BY <1>3, <2>1
  <2>3. ~(N - 0 <= MaxLevel)
    BY <1>0
  <2>4. \A r \in PartsOf(n) : Rearranges(r.x, r.x, n, r.first, r.first + r.len - 1)
    BY <2>1, NatArraysAreInt, RearrangesSame
  <2> HIDE DEF x0, N
  <2>5. SortsParts(x0, n, N - 0)
    BY <2>1, <2>2, <2>3, <2>4 DEF SortsParts
  <2> QED
    BY <1>0, <2>2, <2>5
<1>6. ASSUME NEW f, NEW k, k \in 0 .. N - 1, <<f, k>> \in J
      PROVE  F[<<f, k>>] = Next(f, k + 1) /\ <<F[<<f, k>>], k + 1>> \in J
  <2>1. F[<<f, k>>] = Next(f, k + 1)
    BY <1>6
  <2> DEFINE level == MaxLevel + 1 - (k + 1)
  <2>2. level \in Nat /\ level + 1 = N - k /\ level = N - (k + 1) /\ k + 1 \in 0 .. N
    BY <1>0, <1>6
  <2>3. SortsParts(f, n, level + 1)
    BY <1>6, <2>2
  <2>4. Next(f, k + 1) = [r \in PartsOf(n) |-> SortBuckets(f, r, level, wild)]
    BY <1>3
  <2> HIDE DEF level, Next, F, J, N
  <2>5. \A r \in PartsOf(n) :
            /\ SortBuckets(f, r, level, wild) \in NatArrays(n)
            /\ Rearranges(SortBuckets(f, r, level, wild), r.x, n, r.first, r.first + r.len - 1)
            /\ Agree(r.x, r.first, r.len, level)
                 => InOrder(SortBuckets(f, r, level, wild), r.first, r.first + r.len - 1)
    BY <2>2, <2>3, SortBucketsSorts
  <2>6. Next(f, k + 1) \in [PartsOf(n) -> NatArrays(n)]
    BY <2>4, <2>5
  <2>7. \A r \in PartsOf(n) : Next(f, k + 1)[r] = SortBuckets(f, r, level, wild)
    BY <2>4
  <2>8. SortsParts(Next(f, k + 1), n, level)
    BY <2>5, <2>6, <2>7 DEF SortsParts
  <2>9. <<Next(f, k + 1), k + 1>> \in J
    BY <2>2, <2>6, <2>8 DEF J
  <2> QED
    BY <2>1, <2>9
<1> HIDE DEF J, F, Next, N, x0
<1>7. PICK g : LoopOf(g, F, x0, N) /\ \A k \in 0 .. N : <<g[k], k>> \in J
  BY <1>0, <1>5, <1>6, LoopExists
<1>8. Is(g)
  <2>1. \A k \in 0 .. N : k # 0 => F[<<g[k - 1], k - 1>>] = Next(g[k - 1], k)
    <3> SUFFICES ASSUME NEW k \in 0 .. N, k # 0
                 PROVE  F[<<g[k - 1], k - 1>>] = Next(g[k - 1], k)
      OBVIOUS
    <3>1. k - 1 \in 0 .. N - 1 /\ k - 1 \in 0 .. N /\ (k - 1) + 1 = k
      BY <1>0
    <3>2. <<g[k - 1], k - 1>> \in J
      BY <1>7, <3>1
    <3> QED
      BY <1>6, <3>1, <3>2
  <2>2. g = [k \in 0 .. N |-> IF k = 0 THEN x0 ELSE F[<<g[k - 1], k - 1>>]]
    BY <1>7 DEF LoopOf
  <2> QED
    BY <2>1, <2>2
<1>9. Is(after)
  <2> HIDE DEF Is
  <2> QED
    BY <1>8
<1> HIDE DEF after
<1>10. /\ after[0] = x0
      /\ \A k \in 0 .. N - 1 : after[k + 1] = Next(after[k], k + 1)
  <2>1. after[0] = x0
    BY <1>0, <1>9
  <2>2. ASSUME NEW k \in 0 .. N - 1 PROVE after[k + 1] = Next(after[k], k + 1)
    <3>1. k + 1 \in 0 .. N /\ k + 1 # 0 /\ (k + 1) - 1 = k
      BY <1>0
    <3> QED
      BY <1>9, <3>1
  <2> QED
    BY <2>1, <2>2
<1>11. \A k \in 0 .. N - 1 : <<after[k], k>> \in J => <<after[k + 1], k + 1>> \in J
  BY <1>6, <1>10
<1>12. \A k \in 0 .. N : <<after[k], k>> \in J
  BY <1>0, <1>5, <1>10, <1>11, LoopKeeps
<1>13. SortsParts(after[N], n, 0)
  <2>1. N \in 0 .. N /\ N - N = 0
    BY <1>0
  <2>2. <<after[N], N>> \in J
    BY <1>12, <2>1
  <2>3. SortsParts(after[N], n, N - N)
    BY <2>2 DEF J
  <2> QED
    BY <2>1, <2>3
<1> DEFINE y == after[N][whole]
<1>14. Agree(x, 0, n, 0)
  <2>1. \A i \in 0 .. n - 1 : Top(x[i], 0) = 0
    BY TopIs DEF NatArrays
  <2>2. 0 + n - 1 = n - 1
    OBVIOUS
  <2> QED
    BY <2>1, <2>2 DEF Agree
<1>15. Rearranges(y, x, n, 0, 0 + n - 1) /\ InOrder(y, 0, 0 + n - 1)
  <2>1. 0 <= MaxLevel
    BY <1>0
  <2> QED
    BY <1>4, <1>13, <1>14, <2>1 DEF SortsParts
<1>16. 0 + n - 1 = n - 1
  OBVIOUS
<1> HIDE DEF y
<1>17. Rearranges(y, x, n, 0, n - 1) /\ InOrder(y, 0, n - 1)
  BY <1>15, <1>16
<1> QED
  BY <1>2, <1>17 DEF Sorts, y

-----------------------------------------------------------------------------
(***************************************************************************)
(* All sorts.                                                              *)
(***************************************************************************)

\* An array sorted from its first element to its last is the sorted copy.
LEMMA SortsIsSortedCopy ==
    ASSUME NEW n \in Nat, NEW x \in NatArrays(n), NEW y, Sorts(y, x, n, 0, n - 1)
    PROVE  IsSortedCopy(y, x)
<1>1. Rearranges(y, x, n, 0, n - 1) /\ InOrder(y, 0, n - 1)
  BY DEF Sorts
<1>2. DOMAIN y = 0 .. n - 1 /\ DOMAIN x = 0 .. n - 1
  BY <1>1 DEF Rearranges, IntArrays, NatArrays
<1>3. \A i, j \in DOMAIN y : i < j => y[i] <= y[j]
  BY <1>1, <1>2 DEF InOrder
<1>4. \A u : Cardinality({i \in DOMAIN x : x[i] = u}) = Cardinality({i \in DOMAIN y : y[i] = u})
  <2> TAKE u
  <2> DEFINE last == n - 1
             U == {u}
  <2>1. 0 \in Int /\ last \in Int /\ 0 .. last \subseteq 0 .. n - 1
        /\ Rearranges(y, x, n, 0, last)
    BY <1>1
  <2>2. {i \in DOMAIN x : x[i] = u} = Holding(x, 0, last, U)
    BY <1>2 DEF Holding
  <2>3. {i \in DOMAIN y : y[i] = u} = Holding(y, 0, last, U)
    BY <1>2 DEF Holding
  <2> HIDE DEF last, U
  <2>4. Cardinality(Holding(y, 0, last, U)) = Cardinality(Holding(x, 0, last, U))
    BY <2>1, RearrangesCounts
  <2> QED
    BY <2>2, <2>3, <2>4
<1> QED
  BY <1>3, <1>4 DEF IsSortedCopy

\* Every way to sort, whatever the undefined shift delivers.
LEMMA AllSortsSort ==
    ASSUME NEW n \in Nat, NEW x \in [0 .. n - 1 -> Numbers], NEW wild \in 0 .. Digits - 1
    PROVE  /\ Sorts(Quicksort(x), x, n, 0, n - 1)
           /\ Sorts(Radixsort(x), x, n, 0, n - 1)
           /\ Sorts(RadixsortInplace(x, wild), x, n, 0, n - 1)
           /\ Sorts(Fastsort32(x, wild), x, n, 0, n - 1)
           /\ Sorts(Fastsort64(x, wild), x, n, 0, n - 1)
<1>1. x \in IntArrays(n) /\ x \in NatArrays(n) /\ \A i \in 0 .. n - 1 : x[i] \in Numbers
  <2>1. \A u \in Numbers : u \in Int /\ u \in Nat
    BY NumbersAre
  <2> QED
    BY <2>1 DEF NatArrays, IntArrays
<1>2. Sorts(Quicksort(x), x, n, 0, n - 1)
  BY <1>1, QuicksortSorts
<1>3. Sorts(Radixsort(x), x, n, 0, n - 1)
  BY RadixsortSorts
<1>4. Sorts(CountsortInplace(x, wild), x, n, 0, n - 1)
  BY <1>1, CountsortInplaceSorts
<1>5. Sorts(RadixsortInplace(x, wild), x, n, 0, n - 1)
  BY <1>2, <1>4 DEF RadixsortInplace
<1> QED
  BY <1>2, <1>3, <1>5 DEF Fastsort32, Fastsort64

-----------------------------------------------------------------------------
\* Of a task to sort: its input is an array, and its answers are in order.
SortInv ==
    /\ task = "sort" => \E n \in SortLengths : input \in [0 .. n - 1 -> SortValues]
    /\ SortsAreExact

\* What the tasks to sort answer, of any array of numbers.
LEMMA AnswersAreSorted ==
    ASSUME NEW n \in SortLengths, NEW x \in [0 .. n - 1 -> SortValues],
           NEW y, y \in {Quicksort(x), Radixsort(x)}
                        \cup {RadixsortInplace(x, wild) : wild \in Wild}
                        \cup {Fastsort32(x, wild) : wild \in Wild}
                        \cup {Fastsort64(x, wild) : wild \in Wild}
    PROVE  IsSortedCopy(y, x)
<1>1. n \in Nat /\ x \in [0 .. n - 1 -> Numbers]
  BY KernelTasksAssumption DEF Numbers
<1>2. x \in NatArrays(n)
  <2>1. \A u \in Numbers : u \in Nat
    BY NumbersAre
  <2> QED
    BY <1>1, <2>1 DEF NatArrays
<1>3. 0 \in Wild
  BY SortingAssumption DEF Wild
<1>4. PICK wild \in Wild : y \in {Quicksort(x), Radixsort(x), RadixsortInplace(x, wild),
                                 Fastsort32(x, wild), Fastsort64(x, wild)}
  BY <1>3
<1>5. Sorts(y, x, n, 0, n - 1)
  BY <1>1, <1>4, AllSortsSort DEF Wild
<1> QED
  BY <1>1, <1>2, <1>5, SortsIsSortedCopy

(***************************************************************************)
(* Every way to sort (core.c) returns the same elements in order.          *)
(***************************************************************************)
THEOREM SortsExact == TaskSpec => []SortsAreExact
<1>1. TaskInit => SortInv
  BY DEF TaskInit, Choose, SortInv, SortsAreExact, Done
<1>2. SortInv /\ [TaskNext]_vars => SortInv'
  <2> SUFFICES ASSUME SortInv, [TaskNext]_vars PROVE SortInv'
    OBVIOUS
  <2>1. CASE Sort
    <3>1. PICK n \in SortLengths : input \in [0 .. n - 1 -> SortValues]
      BY <2>1 DEF Sort, Solve, SortInv
    <3>2. task' = task /\ input' = input
          /\ answer' = {Quicksort(input), Radixsort(input)}
                        \cup {RadixsortInplace(input, wild) : wild \in Wild}
                        \cup {Fastsort32(input, wild) : wild \in Wild}
                        \cup {Fastsort64(input, wild) : wild \in Wild}
      BY <2>1 DEF Sort, Solve
    <3>3. \A y \in answer' : IsSortedCopy(y, input)
      BY <3>1, <3>2, AnswersAreSorted
    <3> QED
      BY <3>2, <3>3 DEF SortInv, SortsAreExact
  <2>2. CASE TaskNext /\ ~Sort
    <3>1. task # "sort" /\ task' = task
      BY <2>2 DEF TaskNext, Complexity, Solve, Base64Text, Gaps, GapsOfWords, Envelope, EnvelopeGet, CreatePlugin,
                  PluginGet, OpenStdin, StdinGet
    <3> QED
      BY <3>1 DEF SortInv, SortsAreExact, Done
  <2>3. CASE UNCHANGED vars
    BY <2>3 DEF vars, SortInv, SortsAreExact, Done
  <2> QED
    BY <2>1, <2>2, <2>3
<1>3. SortInv => SortsAreExact
  BY DEF SortInv
<1> QED
  BY <1>1, <1>2, <1>3, PTL DEF TaskSpec
=============================================================================
