--------------------------- MODULE ThreadRegistry ---------------------------
(***************************************************************************)
(* The table of live threads kept by src/src/threads_intf.c (threads[] and *)
(* nthreads) as a value: a sequence of ThreadObj records that only grows   *)
(* between two calls of init_thread_dispatcher, and never past             *)
(* NTHREADS_MAX.  The operators are what the critical sections of          *)
(* ThreadObj_create, ThreadObj_wait and ThreadObj_current compute; the     *)
(* modules that use them say who executes them, and when.                  *)
(***************************************************************************)
EXTENDS Naturals, Sequences

CONSTANT NTHREADS_MAX     \* capacity of the threads[] array

ASSUME CapacityAssumption == NTHREADS_MAX \in Nat

THREAD_ID_UNKNOWN  == 0
THREAD_ORD_UNKNOWN == 0

(***************************************************************************)
(* The fields of ThreadObj.  The handle of the WinAPI variant follows id.  *)
(***************************************************************************)
ThreadObj(id, ord) == [id |-> id, ord |-> ord, exists |-> TRUE]

\* Mutant: the capacity is checked one entry too late.
RegisterPastEnd(registry, obj) ==
    IF Len(registry) <= NTHREADS_MAX THEN Append(registry, obj) ELSE registry

(***************************************************************************)
(* "if (nthreads < NTHREADS_MAX) threads[nthreads++] = obj": a thread that *)
(* comes when the array is full is left out without a diagnostic.          *)
(***************************************************************************)
Register(registry, obj) ==
    IF Len(registry) < NTHREADS_MAX THEN Append(registry, obj) ELSE registry

\* Mutant: the entries of a joined thread stay alive.
ForgetNothing(registry, id) == registry

(***************************************************************************)
(* The loop of ThreadObj_wait: every live entry of the joined thread is    *)
(* marked as gone, no entry is removed.                                    *)
(***************************************************************************)
Forget(registry, id) ==
    [k \in DOMAIN registry |->
        IF registry[k].id = id /\ registry[k].exists
        THEN [registry[k] EXCEPT !.exists = FALSE]
        ELSE registry[k]]

(***************************************************************************)
(* The live entries of an identifier, and the scan of ThreadObj_current:   *)
(* the ordinal of the first one, THREAD_ORD_UNKNOWN when there is none.    *)
(***************************************************************************)
Live(registry, id) ==
    {k \in DOMAIN registry : registry[k].id = id /\ registry[k].exists}

CurrentOrd(registry, id) ==
    IF Live(registry, id) = {}
    THEN THREAD_ORD_UNKNOWN
    ELSE registry[CHOOSE k \in Live(registry, id) :
                    \A m \in Live(registry, id) : k <= m].ord

=============================================================================
