----------------------- MODULE ThreadRegistry_proofs -----------------------
(***************************************************************************)
(* Facts about the table of threads, for the proofs about the modules that *)
(* keep one.                                                               *)
(***************************************************************************)
EXTENDS ThreadRegistry, TLAPS

(***************************************************************************)
(* The scan of ThreadObj_current returns the ordinal of the only live      *)
(* entry of an identifier.                                                 *)
(***************************************************************************)
LEMMA CurrentOrdOfOnly ==
    ASSUME NEW reg, NEW i, NEW k \in Live(reg, i),
           DOMAIN reg \subseteq Nat,
           \A m \in Live(reg, i) : m = k
    PROVE  CurrentOrd(reg, i) = reg[k].ord
<1>1. k \in Nat /\ k <= k
  BY DEF Live
<1>2. Live(reg, i) # {}
  OBVIOUS
<1>3. (CHOOSE n \in Live(reg, i) : \A m \in Live(reg, i) : n <= m) = k
  BY <1>1
<1>4. QED
  BY <1>2, <1>3 DEF CurrentOrd

(***************************************************************************)
(* Without a live entry the scan of ThreadObj_current finds nothing.       *)
(***************************************************************************)
LEMMA CurrentOrdOfNone ==
    ASSUME NEW reg, NEW i, Live(reg, i) = {}
    PROVE  CurrentOrd(reg, i) = THREAD_ORD_UNKNOWN
BY DEF CurrentOrd

(***************************************************************************)
(* ThreadObj_create appends an entry while there is room in the table ...  *)
(***************************************************************************)
LEMMA RegisterRoom ==
    ASSUME NEW reg, NEW obj, Len(reg) < NTHREADS_MAX
    PROVE  Register(reg, obj) = Append(reg, obj)
BY DEF Register

(***************************************************************************)
(* ... and leaves a full table as it is.                                   *)
(***************************************************************************)
LEMMA RegisterFull ==
    ASSUME NEW reg, NEW obj, ~(Len(reg) < NTHREADS_MAX)
    PROVE  Register(reg, obj) = reg
BY DEF Register

(***************************************************************************)
(* ThreadObj_wait keeps every entry in its place ...                       *)
(***************************************************************************)
LEMMA ForgetDomain ==
    ASSUME NEW reg, NEW i
    PROVE  DOMAIN Forget(reg, i) = DOMAIN reg
BY DEF Forget

(***************************************************************************)
(* ... and only clears exists, in every live entry of the identifier ...   *)
(***************************************************************************)
LEMMA ForgetEntry ==
    ASSUME NEW reg, NEW i, NEW k \in DOMAIN reg
    PROVE  Forget(reg, i)[k] =
               IF reg[k].id = i /\ reg[k].exists
               THEN [reg[k] EXCEPT !.exists = FALSE] ELSE reg[k]
BY DEF Forget

(***************************************************************************)
(* ... so that the result is a table of the same kind.                     *)
(***************************************************************************)
LEMMA ForgetInSeq ==
    ASSUME NEW I, NEW O, NEW i,
           NEW reg \in Seq([id : I, ord : O, exists : BOOLEAN])
    PROVE  Forget(reg, i) \in Seq([id : I, ord : O, exists : BOOLEAN])
<1> DEFINE R == [id : I, ord : O, exists : BOOLEAN]
           G == Forget(reg, i)
<1>1. reg \in Seq(R)
  OBVIOUS
<1>2. ASSUME NEW k \in DOMAIN reg
      PROVE  G[k] \in R
  <2>1. reg[k] \in R
    <3> HIDE DEF R
    <3>1. QED
      BY <1>1
  <2>2. G[k] = IF reg[k].id = i /\ reg[k].exists
               THEN [reg[k] EXCEPT !.exists = FALSE] ELSE reg[k]
    BY ForgetEntry
  <2> HIDE DEF G
  <2>3. QED
    BY <2>1, <2>2
<1>3. DOMAIN reg = 1 .. Len(reg) /\ Len(reg) \in Nat
  <2> HIDE DEF R
  <2>1. QED
    BY <1>1
<1>4. G \in [1 .. Len(reg) -> R]
  <2>1. G = [k \in DOMAIN G |-> G[k]]
    BY DEF Forget
  <2> HIDE DEF R, G
  <2>2. DOMAIN G = 1 .. Len(reg)
    BY <1>3, ForgetDomain DEF G
  <2>3. QED
    BY <1>2, <1>3, <2>1, <2>2
<1>5. QED
  <2> HIDE DEF R, G
  <2>1. G \in Seq(R)
    BY <1>3, <1>4
  <2>2. QED
    BY <2>1 DEF R, G

(***************************************************************************)
(* No entry of the table is ever removed by ThreadObj_wait.                *)
(***************************************************************************)
LEMMA ForgetLen ==
    ASSUME NEW S, NEW reg \in Seq(S), NEW i
    PROVE  Len(Forget(reg, i)) = Len(reg)
<1>1. DOMAIN reg = 1 .. Len(reg) /\ Len(reg) \in Nat
  OBVIOUS
<1>2. DOMAIN Forget(reg, i) = 1 .. Len(reg)
  BY <1>1, ForgetDomain
<1>3. QED
  BY <1>1, <1>2

=============================================================================
