------------------------- MODULE ThreadsIntf_proofs -------------------------
(***************************************************************************)
(* ThreadObj_current describes its caller, for any number of jobs,         *)
(* identifiers and ordinals and any capacity of the table.                 *)
(*                                                                         *)
(* CurrentIsOwn speaks of what the threads have seen; it is inductive only *)
(* together with what the table holds: a live entry belongs to exactly one *)
(* job that still owns the identifier in it (Entries), every listed job    *)
(* that owns an identifier has such an entry (Listed), and no two jobs own *)
(* the same identifier (Distinct).  A job owns its identifier until its    *)
(* entry has been marked as gone, that is a little longer than the         *)
(* operating system says: between pthread_join and the end of              *)
(* ThreadObj_wait nobody can create a thread.                              *)
(***************************************************************************)
EXTENDS ThreadsIntf, ThreadRegistry_proofs

Owns(j) == HasId(j) \/ (call = "forget" /\ job = j)

LockInv ==
    /\ mutex <=> call \in {"create", "register"}
    /\ call = "create" => state[job] = "none" /\ ord[job] \in Ords
    /\ call = "register" => state[job] = "blocked" /\ ~listed[job]
    /\ call = "forget" => state[job] = "joined"

QuietInv ==
    \A j \in Jobs :
        /\ state[j] = "none" => ~listed[j] /\ seen[j] = {}
        /\ state[j] = "blocked" => seen[j] = {}

DistinctInv ==
    \A i, j \in Jobs : (Owns(i) /\ Owns(j) /\ id[i] = id[j]) => i = j

IdInv == \A j \in Jobs : Owns(j) => id[j] \in Ids /\ ord[j] \in Ords

EntriesInv ==
    \A k \in DOMAIN registry : registry[k].exists =>
        \E j \in Jobs : /\ Owns(j) /\ listed[j]
                        /\ registry[k].id = id[j]
                        /\ registry[k].ord = ord[j]

UniqueInv ==
    \A k, m \in DOMAIN registry :
        (registry[k].exists /\ registry[m].exists /\ registry[k].id = registry[m].id)
            => k = m

ListedInv ==
    \A j \in Jobs : (listed[j] /\ Owns(j)) =>
        \E k \in DOMAIN registry :
            registry[k].exists /\ registry[k].id = id[j]

SeenInv == CurrentIsOwn /\ UnlistedIsUnknown

IInv ==
    /\ TypeOK
    /\ LockInv
    /\ QuietInv
    /\ DistinctInv
    /\ IdInv
    /\ EntriesInv
    /\ UniqueInv
    /\ ListedInv
    /\ SeenInv

-----------------------------------------------------------------------------
(***************************************************************************)
(* The state in which nothing has been created satisfies the invariant.    *)
(***************************************************************************)
LEMMA InitIInv == Init => IInv
<1> SUFFICES ASSUME Init PROVE IInv
  OBVIOUS
<1> USE DEF Init
<1>1. TypeOK
  <2>1. /\ registry \in Seq([id : Ids, ord : Ords, exists : BOOLEAN])
        /\ Len(registry) <= NTHREADS_MAX
    BY CapacityAssumption
  <2>2. QED
    BY <2>1 DEF TypeOK, Calls, States
<1>2. LockInv /\ QuietInv
  BY DEF LockInv, QuietInv
<1>3. DistinctInv /\ IdInv
  BY DEF DistinctInv, IdInv, Owns, HasId
<1>4. EntriesInv /\ UniqueInv /\ ListedInv
  BY DEF EntriesInv, UniqueInv, ListedInv, Owns, HasId
<1>5. SeenInv
  BY DEF SeenInv, CurrentIsOwn, UnlistedIsUnknown
<1>6. QED
  BY <1>1, <1>2, <1>3, <1>4, <1>5 DEF IInv

(***************************************************************************)
(* init_thread_dispatcher empties the table when no thread owns an         *)
(* identifier.                                                             *)
(***************************************************************************)
LEMMA InitThreadDispatcherKeeps ==
    ASSUME IInv, InitThreadDispatcher
    PROVE  IInv'
<1> USE DEF IInv, InitThreadDispatcher
<1>1. TypeOK'
  BY CapacityAssumption DEF TypeOK, Calls, States
<1>2. LockInv' /\ QuietInv'
  BY ThreadsAssumption DEF TypeOK, States, LockInv, QuietInv
<1>3. DistinctInv' /\ IdInv'
  BY ThreadsAssumption
  DEF TypeOK, States, LockInv, DistinctInv, IdInv, Owns, HasId
<1>4. EntriesInv' /\ UniqueInv' /\ ListedInv'
  BY ThreadsAssumption
  DEF TypeOK, States, LockInv, QuietInv, EntriesInv, UniqueInv, ListedInv,
      Owns, HasId
<1>5. SeenInv'
  BY DEF TypeOK, QuietInv, SeenInv, CurrentIsOwn, UnlistedIsUnknown
<1>6. QED
  BY <1>1, <1>2, <1>3, <1>4, <1>5

(***************************************************************************)
(* ThreadObj_create takes the mutex: the job gets its ordinal, nothing     *)
(* else changes for it.                                                    *)
(***************************************************************************)
LEMMA CreateLockKeeps ==
    ASSUME IInv, NEW j \in Jobs, NEW o \in Ords, CreateLock(j, o)
    PROVE  IInv'
<1> USE DEF IInv, CreateLock
<1>1. TypeOK'
  BY ThreadsAssumption DEF TypeOK, Calls, States
<1>2. LockInv' /\ QuietInv'
  BY ThreadsAssumption DEF TypeOK, States, LockInv, QuietInv
<1>3. DistinctInv' /\ IdInv'
  BY ThreadsAssumption
  DEF TypeOK, States, LockInv, DistinctInv, IdInv, Owns, HasId
<1>4. EntriesInv' /\ UniqueInv' /\ ListedInv'
  BY ThreadsAssumption
  DEF TypeOK, States, LockInv, QuietInv, EntriesInv, UniqueInv, ListedInv,
      Owns, HasId
<1>5. SeenInv'
  BY DEF TypeOK, QuietInv, SeenInv, CurrentIsOwn, UnlistedIsUnknown
<1>6. QED
  BY <1>1, <1>2, <1>3, <1>4, <1>5

(***************************************************************************)
(* The thread starts with an identifier no other job owns: the             *)
(* coordinating thread is in ThreadObj_create, so no job is joined and not *)
(* yet forgotten.                                                          *)
(***************************************************************************)
LEMMA CreateSpawnKeeps ==
    ASSUME IInv, CreateSpawn
    PROVE  IInv'
<1> USE DEF IInv, CreateSpawn
<1>1. TypeOK'
  BY ThreadsAssumption DEF TypeOK, Calls, States
<1>2. LockInv' /\ QuietInv'
  BY ThreadsAssumption DEF TypeOK, States, LockInv, QuietInv
<1>3. DistinctInv' /\ IdInv'
  BY ThreadsAssumption
  DEF TypeOK, States, LockInv, DistinctInv, IdInv, Owns, HasId
<1>4. EntriesInv' /\ UniqueInv' /\ ListedInv'
  BY ThreadsAssumption
  DEF TypeOK, States, LockInv, QuietInv, EntriesInv, UniqueInv, ListedInv,
      Owns, HasId
<1>5. SeenInv'
  BY DEF TypeOK, QuietInv, SeenInv, CurrentIsOwn, UnlistedIsUnknown
<1>6. QED
  BY <1>1, <1>2, <1>3, <1>4, <1>5

(***************************************************************************)
(* The process exits when the thread cannot be started.                    *)
(***************************************************************************)
LEMMA CreateFailKeeps ==
    ASSUME IInv, CreateFail
    PROVE  IInv'
<1> USE DEF IInv, CreateFail
<1>1. TypeOK'
  BY ThreadsAssumption DEF TypeOK, Calls, States
<1>2. LockInv' /\ QuietInv'
  BY ThreadsAssumption DEF TypeOK, States, LockInv, QuietInv
<1>3. DistinctInv' /\ IdInv'
  BY ThreadsAssumption
  DEF TypeOK, States, LockInv, DistinctInv, IdInv, Owns, HasId
<1>4. EntriesInv' /\ UniqueInv' /\ ListedInv'
  BY ThreadsAssumption
  DEF TypeOK, States, LockInv, QuietInv, EntriesInv, UniqueInv, ListedInv,
      Owns, HasId
<1>5. SeenInv'
  BY DEF TypeOK, QuietInv, SeenInv, CurrentIsOwn, UnlistedIsUnknown
<1>6. QED
  BY <1>1, <1>2, <1>3, <1>4, <1>5

(***************************************************************************)
(* A thread passes thread_wrapper only when the mutex is free, so after it *)
(* has been entered in the table.                                          *)
(***************************************************************************)
LEMMA ThreadWrapperKeeps ==
    ASSUME IInv, NEW j \in Jobs, ThreadWrapper(j)
    PROVE  IInv'
<1> USE DEF IInv, ThreadWrapper
<1>1. TypeOK'
  BY ThreadsAssumption DEF TypeOK, Calls, States
<1>2. LockInv' /\ QuietInv'
  BY ThreadsAssumption DEF TypeOK, States, LockInv, QuietInv
<1>3. DistinctInv' /\ IdInv'
  BY ThreadsAssumption
  DEF TypeOK, States, LockInv, DistinctInv, IdInv, Owns, HasId
<1>4. EntriesInv' /\ UniqueInv' /\ ListedInv'
  BY ThreadsAssumption
  DEF TypeOK, States, LockInv, QuietInv, EntriesInv, UniqueInv, ListedInv,
      Owns, HasId
<1>5. SeenInv'
  BY DEF TypeOK, QuietInv, SeenInv, CurrentIsOwn, UnlistedIsUnknown
<1>6. QED
  BY <1>1, <1>2, <1>3, <1>4, <1>5

(***************************************************************************)
(* A thread that returns still owns its identifier.                        *)
(***************************************************************************)
LEMMA ThreadReturnKeeps ==
    ASSUME IInv, NEW j \in Jobs, ThreadReturn(j)
    PROVE  IInv'
<1> USE DEF IInv, ThreadReturn
<1>1. TypeOK'
  BY ThreadsAssumption DEF TypeOK, Calls, States
<1>2. LockInv' /\ QuietInv'
  BY ThreadsAssumption DEF TypeOK, States, LockInv, QuietInv
<1>3. DistinctInv' /\ IdInv'
  BY ThreadsAssumption
  DEF TypeOK, States, LockInv, DistinctInv, IdInv, Owns, HasId
<1>4. EntriesInv' /\ UniqueInv' /\ ListedInv'
  BY ThreadsAssumption
  DEF TypeOK, States, LockInv, QuietInv, EntriesInv, UniqueInv, ListedInv,
      Owns, HasId
<1>5. SeenInv'
  BY DEF TypeOK, QuietInv, SeenInv, CurrentIsOwn, UnlistedIsUnknown
<1>6. QED
  BY <1>1, <1>2, <1>3, <1>4, <1>5

(***************************************************************************)
(* A joined job owns its identifier until ThreadObj_wait has marked its    *)
(* entry.                                                                  *)
(***************************************************************************)
LEMMA WaitJoinKeeps ==
    ASSUME IInv, NEW j \in Jobs, WaitJoin(j)
    PROVE  IInv'
<1> USE DEF IInv, WaitJoin
<1>1. TypeOK'
  BY ThreadsAssumption DEF TypeOK, Calls, States
<1>2. LockInv' /\ QuietInv'
  BY ThreadsAssumption DEF TypeOK, States, LockInv, QuietInv
<1>3. DistinctInv' /\ IdInv'
  BY ThreadsAssumption
  DEF TypeOK, States, LockInv, DistinctInv, IdInv, Owns, HasId
<1>4. EntriesInv' /\ UniqueInv' /\ ListedInv'
  BY ThreadsAssumption
  DEF TypeOK, States, LockInv, QuietInv, EntriesInv, UniqueInv, ListedInv,
      Owns, HasId
<1>5. SeenInv'
  BY DEF TypeOK, QuietInv, SeenInv, CurrentIsOwn, UnlistedIsUnknown
<1>6. QED
  BY <1>1, <1>2, <1>3, <1>4, <1>5

(***************************************************************************)
(* The entry ThreadObj_create appends describes the job that owns the      *)
(* identifier in it; in a full table the job stays unlisted.               *)
(***************************************************************************)
LEMMA CreateRegisterKeeps ==
    ASSUME IInv, CreateRegister
    PROVE  IInv'
<1> DEFINE Entry == [id : Ids, ord : Ords, exists : BOOLEAN]
           obj == ThreadObj(id[job], ord[job])
           n == Len(registry) + 1
<1> USE DEF IInv, CreateRegister
<1>1. /\ job \in Jobs /\ state[job] = "blocked" /\ ~listed[job] /\ Owns(job)
      /\ id[job] \in Ids /\ ord[job] \in Ords
  BY DEF TypeOK, Calls, LockInv, IdInv, Owns, HasId
<1>2. /\ obj \in Entry
      /\ obj.id = id[job] /\ obj.ord = ord[job] /\ obj.exists
  BY <1>1 DEF ThreadObj
<1>3. /\ registry \in Seq(Entry)
      /\ Len(registry) \in Nat /\ Len(registry) <= NTHREADS_MAX
      /\ DOMAIN registry = 1 .. Len(registry)
  BY DEF TypeOK
<1>4. \A j \in Jobs : Owns(j)' <=> Owns(j)
  BY DEF Owns, HasId
<1>5. /\ mutex' = FALSE /\ call' = "idle" /\ job' = NoJob
      /\ \A j \in Jobs : j # job => listed'[j] = listed[j]
      /\ UNCHANGED <<state, id, ord, seen>>
  BY DEF TypeOK
<1>6. LockInv' /\ QuietInv' /\ DistinctInv' /\ IdInv' /\ SeenInv'
  <2>1. LockInv' /\ QuietInv'
    BY <1>1, <1>5 DEF LockInv, QuietInv
  <2>2. DistinctInv' /\ IdInv'
    BY <1>4, <1>5 DEF DistinctInv, IdInv
  <2>3. SeenInv'
    BY <1>1, <1>5 DEF QuietInv, SeenInv, CurrentIsOwn, UnlistedIsUnknown
  <2>4. QED
    BY <2>1, <2>2, <2>3
<1>7. CASE Len(registry) < NTHREADS_MAX
  <2>1. /\ registry' \in Seq(Entry)
        /\ Len(registry') = n
        /\ DOMAIN registry' = DOMAIN registry \cup {n}
        /\ registry'[n] = obj
        /\ \A k \in DOMAIN registry : registry'[k] = registry[k]
    <3>1. registry' = Append(registry, obj)
      BY <1>7, RegisterRoom
    <3> HIDE DEF Entry, obj
    <3>2. /\ registry' \in Seq(Entry)
          /\ Len(registry') = n
          /\ registry'[n] = obj
      BY <1>2, <1>3, <3>1
    <3>3. DOMAIN registry' = DOMAIN registry \cup {n}
      <4>1. 1 .. n = 1 .. Len(registry) \cup {n}
        BY <1>3
      <4>2. DOMAIN registry' = 1 .. Len(registry')
        BY <3>2
      <4>3. QED
        BY <1>3, <3>2, <4>1, <4>2
    <3>4. \A k \in DOMAIN registry : registry'[k] = registry[k]
      BY <1>2, <1>3, <3>1
    <3>5. QED
      BY <3>2, <3>3, <3>4
  <2>2. listed' = [listed EXCEPT ![job] = TRUE] /\ listed'[job]
    BY <1>1, <1>7 DEF TypeOK
  <2>3. TypeOK'
    <3>1. Len(registry') <= NTHREADS_MAX
      BY <1>3, <1>7, <2>1, CapacityAssumption
    <3>2. listed' \in [Jobs -> BOOLEAN]
      BY <2>2 DEF TypeOK
    <3>3. QED
      BY <1>5, <2>1, <3>1, <3>2, ThreadsAssumption DEF TypeOK, Calls
  <2> HIDE DEF obj, n
  <2>4. EntriesInv'
    BY <1>1, <1>2, <1>4, <1>5, <2>1, <2>2 DEF EntriesInv
  <2>5. \A k \in DOMAIN registry : registry[k].exists => registry[k].id # id[job]
    BY <1>1 DEF EntriesInv, DistinctInv
  <2>6. UniqueInv'
    BY <1>2, <2>1, <2>5 DEF UniqueInv
  <2>7. ListedInv'
    BY <1>1, <1>2, <1>4, <1>5, <2>1, <2>2 DEF ListedInv
  <2>8. QED
    BY <1>6, <2>3, <2>4, <2>6, <2>7
<1>8. CASE ~(Len(registry) < NTHREADS_MAX)
  <2>1. registry' = registry
    BY <1>8, RegisterFull
  <2>2. listed' \in [Jobs -> BOOLEAN] /\ ~listed'[job]
    BY <1>1, <1>8 DEF TypeOK
  <2>3. TypeOK'
    BY <1>5, <2>1, <2>2, ThreadsAssumption DEF TypeOK, Calls
  <2>4. EntriesInv' /\ UniqueInv' /\ ListedInv'
    BY <1>1, <1>4, <1>5, <2>1, <2>2 DEF EntriesInv, UniqueInv, ListedInv
  <2>5. QED
    BY <1>6, <2>3, <2>4
<1>9. QED
  BY <1>7, <1>8

(***************************************************************************)
(* The heart of the matter: for a listed job the scan of ThreadObj_current *)
(* meets one live entry, and it is the job's own; for an unlisted one it   *)
(* meets none, because a live entry with its identifier would belong to a  *)
(* listed job, and only one job owns the identifier.                       *)
(***************************************************************************)
LEMMA ThreadObjCurrentFinds ==
    ASSUME IInv, NEW j \in Jobs, state[j] = "running"
    PROVE  CurrentOrd(registry, id[j]) =
               IF listed[j] THEN ord[j] ELSE THREAD_ORD_UNKNOWN
<1> USE DEF IInv
<1>1. Owns(j)
  BY DEF Owns, HasId
<1>2. DOMAIN registry \subseteq Nat
  BY DEF TypeOK
<1>3. ASSUME NEW k \in Live(registry, id[j])
      PROVE  listed[j] /\ registry[k].ord = ord[j]
  BY <1>1 DEF Live, EntriesInv, DistinctInv
<1>4. CASE listed[j]
  <2>1. PICK k \in DOMAIN registry : registry[k].exists /\ registry[k].id = id[j]
    BY <1>1, <1>4 DEF ListedInv
  <2>2. k \in Live(registry, id[j])
    BY <2>1 DEF Live
  <2>3. \A m \in Live(registry, id[j]) : m = k
    BY <2>1 DEF Live, UniqueInv
  <2>4. CurrentOrd(registry, id[j]) = registry[k].ord
    BY <1>2, <2>2, <2>3, CurrentOrdOfOnly
  <2>5. QED
    BY <1>3, <1>4, <2>2, <2>4
<1>5. CASE ~listed[j]
  BY <1>3, <1>5, CurrentOrdOfNone
<1>6. QED
  BY <1>4, <1>5

(***************************************************************************)
(* So a call of ThreadObj_current adds nothing wrong to what was seen.     *)
(***************************************************************************)
LEMMA ThreadObjCurrentKeeps ==
    ASSUME IInv, NEW j \in Jobs, ThreadObj_current(j)
    PROVE  IInv'
<1> USE DEF IInv, ThreadObj_current
<1> DEFINE found == IF listed[j] THEN ord[j] ELSE THREAD_ORD_UNKNOWN
<1>1. seen' = [seen EXCEPT ![j] = @ \cup {found}]
  BY ThreadObjCurrentFinds
<1>2. found \in Ords \cup {THREAD_ORD_UNKNOWN}
  BY DEF TypeOK
<1>3. TypeOK'
  <2> HIDE DEF found
  <2>1. seen' \in [Jobs -> SUBSET (Ords \cup {THREAD_ORD_UNKNOWN})]
    BY <1>1, <1>2 DEF TypeOK
  <2>2. QED
    BY <2>1 DEF TypeOK
<1>4. LockInv' /\ QuietInv'
  BY <1>1 DEF TypeOK, LockInv, QuietInv
<1>5. /\ DistinctInv' /\ IdInv'
      /\ EntriesInv' /\ UniqueInv' /\ ListedInv'
  BY DEF DistinctInv, IdInv, EntriesInv, UniqueInv, ListedInv, Owns, HasId
<1>6. SeenInv'
  <2>1. \A i \in Jobs : seen'[i] = IF i = j THEN seen[i] \cup {found}
                                   ELSE seen[i]
    BY <1>1 DEF TypeOK
  <2>2. ASSUME NEW i \in Jobs
        PROVE  /\ listed[i] => seen'[i] \subseteq {ord[i]}
               /\ ~listed[i] => seen'[i] \subseteq {THREAD_ORD_UNKNOWN}
    <3>1. /\ listed[i] => seen[i] \subseteq {ord[i]}
          /\ ~listed[i] => seen[i] \subseteq {THREAD_ORD_UNKNOWN}
      BY DEF SeenInv, CurrentIsOwn, UnlistedIsUnknown
    <3>2. CASE i # j
      BY <2>1, <3>1, <3>2
    <3>3. CASE i = j
      <4>1. seen'[i] = seen[i] \cup {found}
        BY <2>1, <3>3
      <4>2. found = IF listed[i] THEN ord[i] ELSE THREAD_ORD_UNKNOWN
        BY <3>3
      <4> HIDE DEF found
      <4>3. CASE listed[i]
        BY <3>1, <4>1, <4>2, <4>3
      <4>4. CASE ~listed[i]
        BY <3>1, <4>1, <4>2, <4>4
      <4>5. QED
        BY <4>3, <4>4
    <3>4. QED
      BY <3>2, <3>3
  <2>3. QED
    BY <2>2 DEF SeenInv, CurrentIsOwn, UnlistedIsUnknown
<1>7. QED
  BY <1>3, <1>4, <1>5, <1>6

(***************************************************************************)
(* ThreadObj_wait clears the entries of the joined job and of no other: no *)
(* other job owns its identifier.  Afterwards the job owns nothing.        *)
(***************************************************************************)
LEMMA WaitForgetKeeps ==
    ASSUME IInv, WaitForget
    PROVE  IInv'
<1> USE DEF IInv, WaitForget
<1>1. job \in Jobs /\ state[job] = "joined" /\ Owns(job)
  BY DEF TypeOK, Calls, LockInv, Owns
<1>2. /\ registry' \in Seq([id : Ids, ord : Ords, exists : BOOLEAN])
      /\ Len(registry') = Len(registry)
      /\ DOMAIN registry' = DOMAIN registry
      /\ \A k \in DOMAIN registry :
            /\ registry'[k].id = registry[k].id
            /\ registry'[k].ord = registry[k].ord
            /\ registry'[k].exists <=>
                (registry[k].exists /\ registry[k].id # id[job])
  <2>1. registry \in Seq([id : Ids, ord : Ords, exists : BOOLEAN])
    BY DEF TypeOK
  <2>2. registry' \in Seq([id : Ids, ord : Ords, exists : BOOLEAN])
    BY <2>1, ForgetInSeq
  <2>3. Len(registry') = Len(registry)
    BY <2>1, ForgetLen
  <2>4. DOMAIN registry' = DOMAIN registry
    BY ForgetDomain
  <2>5. ASSUME NEW k \in DOMAIN registry
        PROVE  /\ registry'[k].id = registry[k].id
               /\ registry'[k].ord = registry[k].ord
               /\ registry'[k].exists <=>
                    (registry[k].exists /\ registry[k].id # id[job])
    <3>1. registry'[k] =
            IF registry[k].id = id[job] /\ registry[k].exists
            THEN [registry[k] EXCEPT !.exists = FALSE] ELSE registry[k]
      BY ForgetEntry
    <3> DEFINE Entry == [id : Ids, ord : Ords, exists : BOOLEAN]
    <3>2. registry[k] \in Entry
      <4> HIDE DEF Entry
      <4>1. registry \in Seq(Entry)
        BY <2>1 DEF Entry
      <4>2. QED
        BY <4>1
    <3>3. QED
      BY <3>1, <3>2
  <2>6. QED
    BY <2>2, <2>3, <2>4, <2>5
<1>3. \A j \in Jobs : Owns(j)' <=> (Owns(j) /\ j # job)
  BY <1>1 DEF Owns, HasId
<1>4. TypeOK'
  BY <1>2, ThreadsAssumption DEF TypeOK, Calls
<1>5. LockInv' /\ QuietInv'
  BY DEF LockInv, QuietInv
<1>6. DistinctInv' /\ IdInv'
  BY <1>3 DEF DistinctInv, IdInv
<1>7. EntriesInv'
  BY <1>2, <1>3 DEF EntriesInv
<1>8. UniqueInv'
  BY <1>2 DEF UniqueInv
<1>9. ListedInv'
  BY <1>1, <1>2, <1>3 DEF ListedInv, DistinctInv
<1>10. SeenInv'
  BY DEF SeenInv, CurrentIsOwn, UnlistedIsUnknown
<1>11. QED
  BY <1>4, <1>5, <1>6, <1>7, <1>8, <1>9, <1>10

(***************************************************************************)
(* Every step of the client and of the threads keeps the invariant.        *)
(***************************************************************************)
LEMMA NextKeeps == IInv /\ [Next]_vars => IInv'
<1> SUFFICES ASSUME IInv, [Next]_vars PROVE IInv'
  OBVIOUS
<1>1. CASE InitThreadDispatcher
  BY <1>1, InitThreadDispatcherKeeps
<1>2. CASE \E j \in Jobs, o \in Ords : CreateLock(j, o)
  BY <1>2, CreateLockKeeps
<1>3. CASE CreateSpawn
  BY <1>3, CreateSpawnKeeps
<1>4. CASE CreateFail
  BY <1>4, CreateFailKeeps
<1>5. CASE CreateRegister
  BY <1>5, CreateRegisterKeeps
<1>6. CASE \E j \in Jobs : WaitJoin(j)
  BY <1>6, WaitJoinKeeps
<1>7. CASE WaitForget
  BY <1>7, WaitForgetKeeps
<1>8. ASSUME NEW j \in Jobs, Thread(j) PROVE IInv'
  BY <1>8, ThreadWrapperKeeps, ThreadObjCurrentKeeps, ThreadReturnKeeps
  DEF Thread
<1>9. CASE Finished \/ UNCHANGED vars
  <2>1. UNCHANGED vars
    BY <1>9 DEF Finished
  <2>2. TypeOK' /\ LockInv' /\ QuietInv'
    BY <2>1 DEF vars, IInv, TypeOK, LockInv, QuietInv
  <2>3. DistinctInv' /\ IdInv' /\ EntriesInv' /\ UniqueInv' /\ ListedInv'
    BY <2>1 DEF vars, IInv, DistinctInv, IdInv, EntriesInv, UniqueInv,
                ListedInv, Owns, HasId
  <2>4. SeenInv'
    BY <2>1 DEF vars, IInv, SeenInv, CurrentIsOwn, UnlistedIsUnknown
  <2>5. QED
    BY <2>2, <2>3, <2>4 DEF IInv
<1>10. QED
  BY <1>1, <1>2, <1>3, <1>4, <1>5, <1>6, <1>7, <1>8, <1>9 DEF Next, Client

-----------------------------------------------------------------------------
(***************************************************************************)
(* The inductive invariant holds in every run of every client.             *)
(***************************************************************************)
THEOREM Invariance == Spec => []IInv
<1>1. Init => IInv
  BY InitIInv
<1>2. IInv /\ [Next]_vars => IInv'
  BY NextKeeps
<1>3. QED
  BY <1>1, <1>2, PTL DEF Spec

(***************************************************************************)
(* Type correctness: in particular the table never outgrows threads[].     *)
(***************************************************************************)
THEOREM TypeCorrect == Spec => []TypeOK
<1>1. IInv => TypeOK
  BY DEF IInv
<1>2. QED
  BY <1>1, Invariance, PTL

(***************************************************************************)
(* ThreadObj_current never describes another thread than its caller.       *)
(***************************************************************************)
THEOREM CurrentIsCaller == Spec => []CurrentIsOwn
<1>1. IInv => CurrentIsOwn
  BY DEF IInv, SeenInv
<1>2. QED
  BY <1>1, Invariance, PTL

(***************************************************************************)
(* A thread that found no place in the table is always unknown.            *)
(***************************************************************************)
THEOREM UnlistedAreUnknown == Spec => []UnlistedIsUnknown
<1>1. IInv => UnlistedIsUnknown
  BY DEF IInv, SeenInv
<1>2. QED
  BY <1>1, Invariance, PTL

(***************************************************************************)
(* The scan of ThreadObj_current finds at most one entry, that of a thread *)
(* which has not been joined and forgotten.                                *)
(***************************************************************************)
THEOREM OneLiveEntry == Spec => []AtMostOneLiveEntry
<1>1. IInv => AtMostOneLiveEntry
  BY DEF IInv, UniqueInv, EntriesInv, AtMostOneLiveEntry, Owns
<1>2. QED
  BY <1>1, Invariance, PTL

=============================================================================
