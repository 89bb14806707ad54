----------------------------- MODULE ThreadsIntf -----------------------------
(***************************************************************************)
(* src/src/threads_intf.c under its most general legal client: one         *)
(* coordinating thread that creates threads and joins them in any order,   *)
(* in any number of rounds, while every created thread asks for its own    *)
(* description as often as it likes.  The battery dispatcher (core.c),     *)
(* find_xorshift_params.c and calibrate_dc6.c are instances of it.         *)
(*                                                                         *)
(* A "job" is one call of ThreadObj_create.  The operating system gives a  *)
(* job a thread identifier when the thread starts, and may give the same   *)
(* identifier to a later job once the first one has been joined: this is   *)
(* the case the field `exists` is for.                                     *)
(***************************************************************************)
EXTENDS ThreadRegistry

CONSTANTS Jobs,      \* the calls of ThreadObj_create in a run
          Ids,       \* thread identifiers of the operating system
          Ords,      \* ordinals the client passes to ThreadObj_create
          NoJob      \* the coordinating thread is in no call

ASSUME ThreadsAssumption ==
    /\ Ids \subseteq Nat \ {THREAD_ID_UNKNOWN}
    /\ Ords \subseteq Nat
    /\ NoJob \notin Jobs

VARIABLES
    registry,    \* threads[0 .. nthreads - 1]
    mutex,       \* thread_ord_mutex is held by the coordinating thread
    call,        \* what the coordinating thread is doing
    job,         \* ... and for which job
    state,       \* state of the thread of a job
    id,          \* its identifier
    ord,         \* its ordinal, the argument of ThreadObj_create
    listed,      \* it found a free place in the table
    seen         \* the ordinals ThreadObj_current has returned to it

vars == <<registry, mutex, call, job, state, id, ord, listed, seen>>

Calls  == {"idle", "create", "register", "forget", "exited"}
States == {"none", "blocked", "running", "returned", "joined"}

(***************************************************************************)
(* The thread of a job holds its identifier from pthread_create until      *)
(* pthread_join: POSIX keeps the identifier of a thread that has ended.    *)
(***************************************************************************)
HasId(j) == state[j] \in {"blocked", "running", "returned"}

Init ==
    /\ registry = <<>>
    /\ mutex = FALSE
    /\ call = "idle"
    /\ job = NoJob
    /\ state = [j \in Jobs |-> "none"]
    /\ id = [j \in Jobs |-> THREAD_ID_UNKNOWN]
    /\ ord = [j \in Jobs |-> THREAD_ORD_UNKNOWN]
    /\ listed = [j \in Jobs |-> FALSE]
    /\ seen = [j \in Jobs |-> {}]

(***************************************************************************)
(* init_thread_dispatcher: the clients call it between two rounds, when    *)
(* none of their threads is alive.                                         *)
(***************************************************************************)
InitThreadDispatcher ==
    /\ call = "idle" /\ ~mutex
    /\ \A j \in Jobs : state[j] \in {"none", "joined"}
    /\ registry' = <<>>
    /\ UNCHANGED <<mutex, call, job, state, id, ord, listed, seen>>

\* Mutant: the thread is started without thread_ord_mutex.
CreateUnlocked(j, o) ==
    /\ call = "idle" /\ state[j] = "none"
    /\ call' = "create" /\ job' = j
    /\ ord' = [ord EXCEPT ![j] = o]
    /\ UNCHANGED <<registry, mutex, state, id, listed, seen>>

(***************************************************************************)
(* ThreadObj_create takes thread_ord_mutex ...                             *)
(***************************************************************************)
CreateLock(j, o) ==
    /\ call = "idle" /\ state[j] = "none"
    /\ ~mutex
    /\ mutex' = TRUE
    /\ call' = "create" /\ job' = j
    /\ ord' = [ord EXCEPT ![j] = o]
    /\ UNCHANGED <<registry, state, id, listed, seen>>

(***************************************************************************)
(* ... starts the thread, which runs from here on: its identifier is any   *)
(* one that no other thread holds ...                                      *)
(***************************************************************************)
CreateSpawn ==
    /\ call = "create"
    /\ \E i \in Ids :
        /\ \A k \in Jobs : HasId(k) => id[k] # i
        /\ id' = [id EXCEPT ![job] = i]
    /\ state' = [state EXCEPT ![job] = "blocked"]
    /\ call' = "register"
    /\ UNCHANGED <<registry, mutex, job, ord, listed, seen>>

(***************************************************************************)
(* ... or fails: the mutex is released and the process exits.              *)
(***************************************************************************)
CreateFail ==
    /\ call = "create"
    /\ mutex' = FALSE
    /\ call' = "exited" /\ job' = NoJob
    /\ UNCHANGED <<registry, state, id, ord, listed, seen>>

(***************************************************************************)
(* ... and enters it in the table before the mutex is released.            *)
(***************************************************************************)
CreateRegister ==
    /\ call = "register"
    /\ registry' = Register(registry, ThreadObj(id[job], ord[job]))
    /\ listed' = [listed EXCEPT ![job] = Len(registry) < NTHREADS_MAX]
    /\ mutex' = FALSE
    /\ call' = "idle" /\ job' = NoJob
    /\ UNCHANGED <<state, id, ord, seen>>

(***************************************************************************)
(* thread_wrapper locks and unlocks thread_ord_mutex, then calls the       *)
(* function of the client.                                                 *)
(***************************************************************************)
ThreadWrapper(j) ==
    /\ state[j] = "blocked" /\ ~mutex
    /\ state' = [state EXCEPT ![j] = "running"]
    /\ UNCHANGED <<registry, mutex, call, job, id, ord, listed, seen>>

(***************************************************************************)
(* ThreadObj_current, called by the thread of job j: the critical section  *)
(* only reads, so it is one step, possible when the mutex is free.         *)
(***************************************************************************)
ThreadObj_current(j) ==
    /\ state[j] = "running" /\ ~mutex
    /\ seen' = [seen EXCEPT ![j] = @ \cup {CurrentOrd(registry, id[j])}]
    /\ UNCHANGED <<registry, mutex, call, job, state, id, ord, listed>>

ThreadReturn(j) ==
    /\ state[j] = "running"
    /\ state' = [state EXCEPT ![j] = "returned"]
    /\ UNCHANGED <<registry, mutex, call, job, id, ord, listed, seen>>

(***************************************************************************)
(* ThreadObj_wait joins first, without the mutex (the thread may still     *)
(* need it to end) ...                                                     *)
(***************************************************************************)
WaitJoin(j) ==
    /\ call = "idle"
    /\ state[j] = "returned"
    /\ state' = [state EXCEPT ![j] = "joined"]
    /\ call' = "forget" /\ job' = j
    /\ UNCHANGED <<registry, mutex, id, ord, listed, seen>>

\* Mutant: the entry is looked up by the ordinal of the joined thread.
WaitForgetByOrd ==
    /\ call = "forget" /\ ~mutex
    /\ registry' = Forget(registry, ord[job])
    /\ call' = "idle" /\ job' = NoJob
    /\ UNCHANGED <<mutex, state, id, ord, listed, seen>>

(***************************************************************************)
(* ... and then marks the entries of the joined thread under the mutex.    *)
(***************************************************************************)
WaitForget ==
    /\ call = "forget" /\ ~mutex
    /\ registry' = Forget(registry, id[job])
    /\ call' = "idle" /\ job' = NoJob
    /\ UNCHANGED <<mutex, state, id, ord, listed, seen>>

(***************************************************************************)
(* Every job is joined and the client has nothing left to do, or the       *)
(* process is gone.                                                        *)
(***************************************************************************)
Finished ==
    /\ \/ call = "exited"
       \/ call = "idle" /\ \A j \in Jobs : state[j] = "joined"
    /\ UNCHANGED vars

Client ==
    \/ InitThreadDispatcher
    \/ \E j \in Jobs, o \in Ords : CreateLock(j, o)
    \/ CreateSpawn
    \/ CreateFail
    \/ CreateRegister
    \/ \E j \in Jobs : WaitJoin(j)
    \/ WaitForget
    \/ Finished

Thread(j) ==
    /\ call # "exited"
    /\ ThreadWrapper(j) \/ ThreadObj_current(j) \/ ThreadReturn(j)

Next == Client \/ \E j \in Jobs : Thread(j)

Spec == Init /\ [][Next]_vars

-----------------------------------------------------------------------------
TypeOK ==
    /\ registry \in Seq([id : Ids, ord : Ords, exists : BOOLEAN])
    /\ Len(registry) <= NTHREADS_MAX
    /\ mutex \in BOOLEAN
    /\ call \in Calls
    /\ job \in Jobs \cup {NoJob}
    /\ (call \in {"idle", "exited"}) <=> (job = NoJob)
    /\ state \in [Jobs -> States]
    /\ id \in [Jobs -> Ids \cup {THREAD_ID_UNKNOWN}]
    /\ ord \in [Jobs -> Ords \cup {THREAD_ORD_UNKNOWN}]
    /\ listed \in [Jobs -> BOOLEAN]
    /\ seen \in [Jobs -> SUBSET (Ords \cup {THREAD_ORD_UNKNOWN})]

(***************************************************************************)
(* ThreadObj_current describes the caller: whatever it has returned to the *)
(* thread of a job that found a place in the table is the ordinal the job  *)
(* was created with, although the thread may run before ThreadObj_create   *)
(* returns, identifiers are used again, and the entries of threads that    *)
(* are gone stay in the table in front of the new ones.                    *)
(***************************************************************************)
CurrentIsOwn ==
    \A j \in Jobs : listed[j] => seen[j] \subseteq {ord[j]}

(***************************************************************************)
(* A thread that found no place is never taken for another thread: it gets *)
(* THREAD_ORD_UNKNOWN, not the ordinal of a joined thread whose identifier *)
(* it inherited.                                                           *)
(***************************************************************************)
UnlistedIsUnknown ==
    \A j \in Jobs : ~listed[j] => seen[j] \subseteq {THREAD_ORD_UNKNOWN}

(***************************************************************************)
(* The table has no live entry left for a thread that has been joined and  *)
(* forgotten, and never two for one identifier: the scan finds at most one *)
(* match, so its order does not matter.                                    *)
(***************************************************************************)
AtMostOneLiveEntry ==
    /\ \A k, m \in DOMAIN registry :
        (registry[k].exists /\ registry[m].exists /\ registry[k].id = registry[m].id)
            => k = m
    /\ \A k \in DOMAIN registry :
        registry[k].exists =>
            \E j \in Jobs : /\ registry[k].id = id[j]
                            /\ HasId(j) \/ (call = "forget" /\ job = j)

=============================================================================
