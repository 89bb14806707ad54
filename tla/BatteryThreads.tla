--------------------------- MODULE BatteryThreads ---------------------------
(***************************************************************************)
(* One multithreaded battery run: TestsBattery_run, _run_threads and the   *)
(* TestsDispatcher of src/src/core.c, the worker function battery_thread,  *)
(* the thread-safe seed and print functions they call, and the thread      *)
(* table of threads_intf.c.  The main thread and the workers interleave;   *)
(* thread_ord_mutex, get_seed64_mt_mutex and printf_mt_mutex synchronise   *)
(* them, everything else they share is accessed without a lock.            *)
(*                                                                         *)
(* A random number is named by its place in the stream of the entropy      *)
(* generator, so a p-value is a function of the test, of the seeds of its  *)
(* generator and of the tests the generator served before: that triple     *)
(* stands for the TestResults the test returns.                            *)
(***************************************************************************)
EXTENDS ThreadRegistry, FiniteSets, Functions

CONSTANTS
    NThreads,        \* opts->nthreads, at least 2 on this path
    NTests,          \* TestsBattery_ntests(bat)
    SeedsPerCreate,  \* get_seed64 calls in gi->create of the plugin
    SeedsPerTest,    \* get_seed64 calls its get_bits makes in a test: 0 but
                     \* for generators/seed.c, which returns seeds as output
    Threading,       \* "pthreads", or "stubs": the build without threads
    SpawnMayFail     \* pthread_create may fail

ASSUME BatteryAssumption ==
    /\ NThreads \in Nat \ {0, 1}
    /\ NTests \in Nat
    /\ SeedsPerCreate \in Nat
    /\ SeedsPerTest \in Nat
    /\ Threading \in {"pthreads", "stubs"}
    /\ SpawnMayFail \in BOOLEAN

Workers == 1 .. NThreads     \* by ordinal: THREAD_ORD_OFFSET is 1
Tests   == 0 .. NTests - 1
Main    == 0                 \* owner of a mutex; ordinal of unknown threads
Free    == NThreads + 1      \* nobody holds the mutex

VARIABLES
    status,      \* "running", or how the process ended
    mpc,         \* control point of the main thread
    mi,          \* its loop counter
    seedOrd,     \* seed64_mt_current_thread_ord
    slog,        \* ordinals in the log of issued seeds
    inds,        \* .ind of the array of indexes of TestsDispatcher_init
    queues,      \* ThreadQueue of each worker
    registry,    \* threads[] of threads_intf.c
    ordMutex, seedMutex, printfMutex,  \* owners of the mutexes
    wpc,         \* control point of each worker
    prt,         \* where it is in a call of printf_mt
    thrd,        \* ordinal ThreadObj_current returned at its start
    cur,         \* ind of the element it has popped
    draws,       \* places of the seeds its test has drawn so far
    results      \* BatteryResults.results; None before a test has returned

mainVars   == <<mpc, mi, seedOrd, inds>>
workerVars == <<wpc, prt, thrd, cur, draws>>
mutexes    == <<ordMutex, seedMutex, printfMutex>>
vars == <<status, mainVars, slog, queues, registry, mutexes, workerVars,
          results>>

NoTest == NTests     \* SIZE_MAX in the code: fails ind < ntests
None   == [thread |-> 0, id |-> 0, p |-> <<>>]    \* calloc

(***************************************************************************)
(* pthread_self() of a worker, and the id ThreadObj_create stores for it.  *)
(* Identifiers are distinct among live threads (module ThreadsIntf covers  *)
(* their reuse).  Without threads ThreadObj_current has no identity to     *)
(* offer and ThreadObj_create stores the ordinal in its place.             *)
(***************************************************************************)
SelfId(w)   == IF Threading = "stubs" THEN THREAD_ID_UNKNOWN ELSE w
StoredId(w) == w

(***************************************************************************)
(* Mutexes are no-ops in the build without threads.                        *)
(***************************************************************************)
CanLock(mutex) == Threading = "stubs" \/ mutex = Free

(***************************************************************************)
(* The places in the stream of the next n seeds, and the log after they    *)
(* have been issued.  get_seed64_mt logs a seed under seedOrd when that is *)
(* an ordinal, else under the ordinal ThreadObj_current finds.             *)
(***************************************************************************)
NextSeeds(n) == [k \in 1 .. n |-> Len(slog) + k]

Logged(n, o, self) ==
    slog \o [k \in 1 .. n |-> IF o >= 1 THEN o ELSE CurrentOrd(registry, self)]

Init ==
    /\ status = "running"
    /\ mpc = "check" /\ mi = 0 /\ seedOrd = 0
    /\ slog = <<>>
    /\ inds = [k \in Tests |-> k]
    /\ queues = [w \in Workers |->
                    [tests |-> <<>>, front |-> 0, seeds |-> <<>>,
                     served |-> <<>>, allocated |-> FALSE]]
    /\ registry = <<>>
    /\ ordMutex = Free /\ seedMutex = Free /\ printfMutex = Free
    /\ wpc = [w \in Workers |-> "none"]
    /\ prt = [w \in Workers |-> "no"]
    /\ thrd = [w \in Workers |-> THREAD_ORD_UNKNOWN]
    /\ cur = [w \in Workers |-> NoTest]
    /\ draws = [w \in Workers |-> <<>>]
    /\ results = [t \in Tests |-> None]

-----------------------------------------------------------------------------
(***************************************************************************)
(* The main thread.  It executes TestsDispatcher_init before any worker    *)
(* exists: locks it takes there are free, so each call is one step.        *)
(***************************************************************************)
At(label) == status = "running" /\ mpc = label

(***************************************************************************)
(* TestsBattery_run creates a generator for GeneratorState_check_size and  *)
(* destructs it; output that is too wide ends the run with BATTERY_ERROR.  *)
(* The main thread is in no table: its seeds are logged under ordinal 0.   *)
(***************************************************************************)
CheckSize(sizeOk) ==
    /\ At("check")
    /\ slog' = Logged(SeedsPerCreate, seedOrd, Main)
    /\ IF sizeOk
       THEN mpc' = "generators" /\ UNCHANGED status
       ELSE status' = "BATTERY_ERROR" /\ UNCHANGED mpc
    /\ UNCHANGED <<mi, seedOrd, inds, queues, registry, mutexes, workerVars,
                   results>>

\* Mutant: seed64_mt_current_thread_ord is not reset after the loop.
CreateQueueKeepsOrd ==
    /\ At("generators")
    /\ LET w == mi + 1 IN
        /\ slog' = Logged(SeedsPerCreate, w, Main)
        /\ queues' = [queues EXCEPT ![w].seeds = NextSeeds(SeedsPerCreate),
                                    ![w].allocated = TRUE]
        /\ seedOrd' = w
        /\ IF w = NThreads
           THEN mpc' = "seedshuffle" /\ mi' = 0
           ELSE mi' = w /\ UNCHANGED mpc
    /\ UNCHANGED <<status, inds, registry, mutexes, workerVars, results>>

(***************************************************************************)
(* First loop of TestsDispatcher_init: the generator of each queue, its    *)
(* seeds logged under the ordinal of the thread it is meant for.           *)
(***************************************************************************)
CreateQueue ==
    /\ At("generators")
    /\ LET w == mi + 1 IN
        /\ slog' = Logged(SeedsPerCreate, w, Main)
        /\ queues' = [queues EXCEPT ![w].seeds = NextSeeds(SeedsPerCreate),
                                    ![w].allocated = TRUE]
        /\ IF w = NThreads
           THEN mpc' = "seedshuffle" /\ mi' = 0 /\ seedOrd' = 0
           ELSE mi' = w /\ seedOrd' = w /\ UNCHANGED mpc
    /\ UNCHANGED <<status, inds, registry, mutexes, workerVars, results>>

\* Mutant: the swap loses one of the two indexes.
ShuffleCopy(j) ==
    /\ At("shuffle")
    /\ inds' = [inds EXCEPT ![mi] = inds[j]]
    /\ IF mi + 1 = NTests
       THEN mpc' = "assign" /\ mi' = 0
       ELSE mi' = mi + 1 /\ UNCHANGED mpc
    /\ UNCHANGED <<status, seedOrd, slog, queues, registry, mutexes,
                   workerVars, results>>

(***************************************************************************)
(* The shuffle draws one seed for its own PRNG, then swaps the i-th index  *)
(* with one chosen by the PRNG, for each i.                                *)
(***************************************************************************)
SeedShuffle ==
    /\ At("seedshuffle")
    /\ slog' = Logged(1, seedOrd, Main)
    /\ mpc' = IF NTests = 0 THEN "spawn" ELSE "shuffle"
    /\ UNCHANGED <<status, mi, seedOrd, inds, queues, registry, mutexes,
                   workerVars, results>>

ShuffleSwap(j) ==
    /\ At("shuffle")
    /\ inds' = [inds EXCEPT ![mi] = inds[j], ![j] = inds[mi]]
    /\ IF mi + 1 = NTests
       THEN mpc' = "assign" /\ mi' = 0
       ELSE mi' = mi + 1 /\ UNCHANGED mpc
    /\ UNCHANGED <<status, seedOrd, slog, queues, registry, mutexes,
                   workerVars, results>>

(***************************************************************************)
(* The last loop deals the tests: thr_id starts at 0 and is incremented    *)
(* before its use, so the first test goes to the second queue.  Position   *)
(* and ordinal are not shuffled together: ord numbers the dealt tests.     *)
(***************************************************************************)
AssignTest ==
    /\ At("assign")
    /\ LET w == ((mi + 1) % NThreads) + 1 IN
        queues' = [queues EXCEPT
            ![w].tests = Append(@, [ind |-> inds[mi], ord |-> mi + 1])]
    /\ IF mi + 1 = NTests
       THEN mpc' = "spawn" /\ mi' = 0
       ELSE mi' = mi + 1 /\ UNCHANGED mpc
    /\ UNCHANGED <<status, seedOrd, inds, slog, registry, mutexes,
                   workerVars, results>>

\* Mutant: the thread is started without thread_ord_mutex.
SpawnUnlocked ==
    /\ At("spawn")
    /\ mpc' = "create"
    /\ UNCHANGED <<status, mi, seedOrd, inds, slog, queues, registry, mutexes,
                   workerVars, results>>

(***************************************************************************)
(* TestsBattery_run_threads creates the threads in the order of their      *)
(* ordinals.  ThreadObj_create keeps thread_ord_mutex from before the      *)
(* thread starts until it is in the table.                                 *)
(***************************************************************************)
SpawnLock ==
    /\ At("spawn") /\ CanLock(ordMutex)
    /\ ordMutex' = Main
    /\ mpc' = "create"
    /\ UNCHANGED <<status, mi, seedOrd, inds, slog, queues, registry,
                   seedMutex, printfMutex, workerVars, results>>

(***************************************************************************)
(* The thread runs from here on.  Without threads nothing happens yet.     *)
(***************************************************************************)
SpawnThread ==
    /\ At("create")
    /\ wpc' = IF Threading = "stubs"
              THEN wpc ELSE [wpc EXCEPT ![mi + 1] = "wrapper"]
    /\ mpc' = "register"
    /\ UNCHANGED <<status, mi, seedOrd, inds, slog, queues, registry, mutexes,
                   prt, thrd, cur, draws, results>>

(***************************************************************************)
(* A thread that cannot be started makes the main thread call exit, out of *)
(* the mutex: the workers that it has started go on.                       *)
(***************************************************************************)
SpawnFails ==
    /\ At("create") /\ SpawnMayFail
    /\ ordMutex' = Free
    /\ mpc' = "exiting"
    /\ UNCHANGED <<status, mi, seedOrd, inds, slog, queues, registry, seedMutex,
                   printfMutex, workerVars, results>>

(***************************************************************************)
(* Without threads ThreadObj_create calls the thread function itself, once *)
(* the table is written, and goes on when it has returned.                 *)
(***************************************************************************)
SpawnRegister ==
    /\ At("register")
    /\ registry' = Register(registry, ThreadObj(StoredId(mi + 1), mi + 1))
    /\ ordMutex' = Free
    /\ wpc' = IF Threading = "stubs"
              THEN [wpc EXCEPT ![mi + 1] = "wrapper"] ELSE wpc
    /\ mpc' = "created"
    /\ UNCHANGED <<status, mi, seedOrd, inds, slog, queues, seedMutex,
                   printfMutex, prt, thrd, cur, draws, results>>

SpawnReturn ==
    /\ At("created")
    /\ Threading = "stubs" => wpc[mi + 1] = "ended"
    /\ IF mi + 1 = NThreads
       THEN mpc' = "join" /\ mi' = 0
       ELSE mpc' = "spawn" /\ mi' = mi + 1
    /\ UNCHANGED <<status, seedOrd, inds, slog, queues, registry, mutexes,
                   workerVars, results>>

\* Mutant: the table entry is cleared without a join.
WaitWithoutJoin ==
    /\ At("join")
    /\ mpc' = "forget"
    /\ UNCHANGED <<status, mi, seedOrd, inds, slog, queues, registry, mutexes,
                   workerVars, results>>

\* Mutant: the loop over the threads does not advance.
WaitForgetSame ==
    /\ At("forget") /\ CanLock(ordMutex)
    /\ registry' = Forget(registry, StoredId(mi + 1))
    /\ mpc' = "join"
    /\ UNCHANGED <<status, mi, seedOrd, inds, slog, queues, mutexes,
                   workerVars, results>>

(***************************************************************************)
(* ThreadObj_wait for each thread in turn: pthread_join first, then the    *)
(* table entry under the mutex.                                            *)
(***************************************************************************)
WaitJoin ==
    /\ At("join")
    /\ wpc[mi + 1] = "ended"
    /\ mpc' = "forget"
    /\ UNCHANGED <<status, mi, seedOrd, inds, slog, queues, registry, mutexes,
                   workerVars, results>>

WaitForget ==
    /\ At("forget") /\ CanLock(ordMutex)
    /\ registry' = Forget(registry, StoredId(mi + 1))
    /\ IF mi + 1 = NThreads
       THEN mpc' = "destruct" /\ mi' = 0
       ELSE mpc' = "join" /\ mi' = mi + 1
    /\ UNCHANGED <<status, seedOrd, inds, slog, queues, mutexes, workerVars,
                   results>>

(***************************************************************************)
(* TestsDispatcher_destruct frees every generator and queue; the report is *)
(* made from the results afterwards.                                       *)
(***************************************************************************)
DestructDispatcher ==
    /\ At("destruct")
    /\ queues' = [w \in Workers |-> [queues[w] EXCEPT !.allocated = FALSE]]
    /\ mpc' = "report"
    /\ UNCHANGED <<status, mi, seedOrd, inds, slog, registry, mutexes,
                   workerVars, results>>

PrintReport ==
    /\ At("report")
    /\ status' = "reported"
    /\ UNCHANGED <<mainVars, slog, queues, registry, mutexes, workerVars,
                   results>>

MainThread ==
    \/ \E sizeOk \in BOOLEAN : CheckSize(sizeOk)
    \/ CreateQueue
    \/ SeedShuffle
    \/ \E j \in Tests : ShuffleSwap(j)
    \/ AssignTest
    \/ SpawnLock
    \/ SpawnThread
    \/ SpawnFails
    \/ SpawnRegister
    \/ SpawnReturn
    \/ WaitJoin
    \/ WaitForget
    \/ DestructDispatcher
    \/ PrintReport

-----------------------------------------------------------------------------
(***************************************************************************)
(* The workers.  A worker at a label goes on from it when it is in no call *)
(* of printf_mt.                                                           *)
(***************************************************************************)
WorkerAt(w, label) ==
    status = "running" /\ wpc[w] = label /\ prt[w] = "no"

ThreadWrapper(w) ==
    /\ WorkerAt(w, "wrapper") /\ CanLock(ordMutex)
    /\ wpc' = [wpc EXCEPT ![w] = "current"]
    /\ UNCHANGED <<status, mainVars, slog, queues, registry, mutexes, prt,
                   thrd, cur, draws, results>>

(***************************************************************************)
(* battery_thread asks for its ordinal and prints that it has started.     *)
(***************************************************************************)
BatteryThreadStart(w) ==
    /\ WorkerAt(w, "current") /\ CanLock(ordMutex)
    /\ thrd' = [thrd EXCEPT ![w] = CurrentOrd(registry, SelfId(w))]
    /\ wpc' = [wpc EXCEPT ![w] = "queue"]
    /\ prt' = [prt EXCEPT ![w] = "who"]
    /\ UNCHANGED <<status, mainVars, slog, queues, registry, mutexes, cur,
                   draws, results>>

(***************************************************************************)
(* printf_mt: ThreadObj_current, then the print under printf_mt_mutex.     *)
(***************************************************************************)
PrintWho(w) ==
    /\ status = "running" /\ prt[w] = "who" /\ CanLock(ordMutex)
    /\ prt' = [prt EXCEPT ![w] = "lock"]
    /\ UNCHANGED <<status, mainVars, slog, queues, registry, mutexes, wpc,
                   thrd, cur, draws, results>>

PrintLock(w) ==
    /\ status = "running" /\ prt[w] = "lock" /\ CanLock(printfMutex)
    /\ printfMutex' = w
    /\ prt' = [prt EXCEPT ![w] = "held"]
    /\ UNCHANGED <<status, mainVars, slog, queues, registry, ordMutex,
                   seedMutex, wpc, thrd, cur, draws, results>>

PrintUnlock(w) ==
    /\ status = "running" /\ prt[w] = "held"
    /\ printfMutex' = Free
    /\ prt' = [prt EXCEPT ![w] = "no"]
    /\ UNCHANGED <<status, mainVars, slog, queues, registry, ordMutex,
                   seedMutex, wpc, thrd, cur, draws, results>>

(***************************************************************************)
(* TestsDispatcher_get_queue_by_ord: an ordinal without a queue, that is   *)
(* THREAD_ORD_UNKNOWN, makes the worker exit the whole process.            *)
(***************************************************************************)
FindQueue(w) ==
    /\ WorkerAt(w, "queue")
    /\ wpc' = [wpc EXCEPT ![w] = IF thrd[w] \in Workers THEN "pop" ELSE "exiting"]
    /\ UNCHANGED <<status, mainVars, slog, queues, registry, mutexes, prt, thrd, cur,
                   draws, results>>

\* Mutant: the element popped is not counted.
PopFrontKeeps(w) ==
    /\ WorkerAt(w, "pop")
    /\ LET q == queues[thrd[w]] IN
        IF q.front = Len(q.tests)
        THEN /\ cur' = [cur EXCEPT ![w] = NoTest]
             /\ wpc' = [wpc EXCEPT ![w] = "return"]
        ELSE /\ cur' = [cur EXCEPT ![w] = q.tests[q.front + 1].ind]
             /\ wpc' = [wpc EXCEPT ![w] = "run"]
    /\ prt' = [prt EXCEPT ![w] = "who"]
    /\ UNCHANGED <<status, mainVars, slog, queues, registry, mutexes, thrd,
                   draws, results>>

(***************************************************************************)
(* ThreadQueue_pop_front and the loop condition: the next element, with a  *)
(* message that the test has started, or the message that the worker ends. *)
(***************************************************************************)
PopFront(w) ==
    /\ WorkerAt(w, "pop")
    /\ LET q == queues[thrd[w]] IN
        IF q.front = Len(q.tests)
        THEN /\ cur' = [cur EXCEPT ![w] = NoTest]
             /\ wpc' = [wpc EXCEPT ![w] = "return"]
             /\ UNCHANGED queues
        ELSE /\ cur' = [cur EXCEPT ![w] = q.tests[q.front + 1].ind]
             /\ wpc' = [wpc EXCEPT ![w] = "run"]
             /\ queues' = [queues EXCEPT ![thrd[w]].front = @ + 1]
    /\ prt' = [prt EXCEPT ![w] = "who"]
    /\ UNCHANGED <<status, mainVars, slog, registry, mutexes, thrd, draws,
                   results>>

(***************************************************************************)
(* A test whose generator asks for seeds: get_seed64_mt holds its mutex    *)
(* while it looks the caller up and takes the next seed.                   *)
(***************************************************************************)
SeedLock(w) ==
    /\ WorkerAt(w, "run") /\ Len(draws[w]) < SeedsPerTest
    /\ CanLock(seedMutex)
    /\ seedMutex' = w
    /\ wpc' = [wpc EXCEPT ![w] = "seed"]
    /\ UNCHANGED <<status, mainVars, slog, queues, registry, ordMutex,
                   printfMutex, prt, thrd, cur, draws, results>>

SeedDraw(w) ==
    /\ WorkerAt(w, "seed")
    /\ seedOrd >= 1 \/ CanLock(ordMutex)
    /\ slog' = Logged(1, seedOrd, SelfId(w))
    /\ draws' = [draws EXCEPT ![w] = @ \o NextSeeds(1)]
    /\ seedMutex' = Free
    /\ wpc' = [wpc EXCEPT ![w] = "run"]
    /\ UNCHANGED <<status, mainVars, queues, registry, ordMutex, printfMutex,
                   prt, thrd, cur, results>>

\* Mutant: every test is given the generator of the first queue.
StoreResultSharedGen(w) ==
    /\ WorkerAt(w, "run") /\ Len(draws[w]) = SeedsPerTest
    /\ results' = [results EXCEPT
            ![cur[w]] = [thread |-> 0, id |-> 0,
                         p |-> <<cur[w], queues[1].seeds, queues[1].served,
                                 draws[w]>>]]
    /\ queues' = [queues EXCEPT ![1].served = Append(@, cur[w])]
    /\ draws' = [draws EXCEPT ![w] = <<>>]
    /\ wpc' = [wpc EXCEPT ![w] = "label"]
    /\ prt' = [prt EXCEPT ![w] = "who"]
    /\ UNCHANGED <<status, mainVars, slog, registry, mutexes, thrd, cur>>

(***************************************************************************)
(* The test returns: its result, whose thread_id is still 0, goes to the   *)
(* slot of the test, and its generator has moved on.  Then a message.      *)
(***************************************************************************)
StoreResult(w) ==
    /\ WorkerAt(w, "run") /\ Len(draws[w]) = SeedsPerTest
    /\ LET q == queues[thrd[w]] IN
        /\ results' = [results EXCEPT
                ![cur[w]] = [thread |-> 0, id |-> 0,
                             p |-> <<cur[w], q.seeds, q.served, draws[w]>>]]
        /\ queues' = [queues EXCEPT ![thrd[w]].served = Append(@, cur[w])]
    /\ draws' = [draws EXCEPT ![w] = <<>>]
    /\ wpc' = [wpc EXCEPT ![w] = "label"]
    /\ prt' = [prt EXCEPT ![w] = "who"]
    /\ UNCHANGED <<status, mainVars, slog, registry, mutexes, thrd, cur>>

\* Mutant: the identifier in the report is the index counted from 0.
LabelResultFromZero(w) ==
    /\ WorkerAt(w, "label")
    /\ results' = [results EXCEPT ![cur[w]].id = cur[w],
                                  ![cur[w]].thread = thrd[w]]
    /\ wpc' = [wpc EXCEPT ![w] = "pop"]
    /\ UNCHANGED <<status, mainVars, slog, queues, registry, mutexes, prt,
                   thrd, cur, draws>>

\* Mutant: the ordinal offset is added to the identifier a second time.
LabelResultOffset(w) ==
    /\ WorkerAt(w, "label")
    /\ results' = [results EXCEPT ![cur[w]].id = cur[w] + 2,
                                  ![cur[w]].thread = thrd[w]]
    /\ wpc' = [wpc EXCEPT ![w] = "pop"]
    /\ UNCHANGED <<status, mainVars, slog, queues, registry, mutexes, prt,
                   thrd, cur, draws>>

(***************************************************************************)
(* After the message the name, the identifier and the thread are filled in.*)
(***************************************************************************)
LabelResult(w) ==
    /\ WorkerAt(w, "label")
    /\ results' = [results EXCEPT ![cur[w]].id = cur[w] + 1,
                                  ![cur[w]].thread = thrd[w]]
    /\ wpc' = [wpc EXCEPT ![w] = "pop"]
    /\ UNCHANGED <<status, mainVars, slog, queues, registry, mutexes, prt,
                   thrd, cur, draws>>

BatteryThreadReturn(w) ==
    /\ WorkerAt(w, "return")
    /\ wpc' = [wpc EXCEPT ![w] = "ended"]
    /\ UNCHANGED <<status, mainVars, slog, queues, registry, mutexes, prt,
                   thrd, cur, draws, results>>

Worker(w) ==
    \/ ThreadWrapper(w)
    \/ BatteryThreadStart(w)
    \/ PrintWho(w)
    \/ PrintLock(w)
    \/ PrintUnlock(w)
    \/ FindQueue(w)
    \/ PopFront(w)
    \/ SeedLock(w)
    \/ SeedDraw(w)
    \/ StoreResult(w)
    \/ LabelResult(w)
    \/ BatteryThreadReturn(w)

Exiting == mpc = "exiting" \/ \E w \in Workers : wpc[w] = "exiting"

(***************************************************************************)
(* exit in one thread does not stop the others: they may take any number   *)
(* of steps before the process is gone.                                    *)
(***************************************************************************)
Exit ==
    /\ status = "running" /\ Exiting
    /\ status' = "exit_failure"
    /\ UNCHANGED <<mainVars, slog, queues, registry, mutexes, workerVars,
                   results>>

Ended == status # "running" /\ UNCHANGED vars

Next == MainThread \/ (\E w \in Workers : Worker(w)) \/ Exit \/ Ended

(***************************************************************************)
(* Every thread is scheduled.  Weak fairness is enough for the mutexes: a  *)
(* thread takes each of them finitely often, so nobody is overtaken for    *)
(* ever.                                                                   *)
(***************************************************************************)
Fairness ==
    /\ WF_vars(MainThread)
    /\ \A w \in Workers : WF_vars(Worker(w))
    /\ WF_vars(Exit)

Spec == Init /\ [][Next]_vars /\ Fairness

-----------------------------------------------------------------------------
(***************************************************************************)
(* Invariants and properties.                                              *)
(***************************************************************************)
Statuses == {"running", "BATTERY_ERROR", "exit_failure", "reported"}
MainLabels == {"check", "generators", "seedshuffle", "shuffle", "assign",
               "spawn", "create", "register", "created", "join", "forget",
               "destruct", "report", "exiting"}
WorkerLabels == {"none", "wrapper", "current", "queue", "pop", "run", "seed",
                 "label", "return", "exiting", "ended"}
Owners == 0 .. Free

Queue == [tests : Seq([ind : Tests, ord : Nat]), front : Nat,
          seeds : Seq(Nat), served : Seq(Tests), allocated : BOOLEAN]
PValue == {<<>>} \cup (Tests \X Seq(Nat) \X Seq(Tests) \X Seq(Nat))

TypeOK ==
    /\ status \in Statuses
    /\ mpc \in MainLabels
    /\ mi \in Nat
    /\ seedOrd \in 0 .. NThreads
    /\ slog \in Seq(0 .. NThreads)
    /\ inds \in [Tests -> Tests]
    /\ queues \in [Workers -> Queue]
    /\ registry \in Seq([id : Workers, ord : Workers, exists : BOOLEAN])
    /\ ordMutex \in Owners /\ seedMutex \in Owners /\ printfMutex \in Owners
    /\ wpc \in [Workers -> WorkerLabels]
    /\ prt \in [Workers -> {"no", "who", "lock", "held"}]
    /\ thrd \in [Workers -> 0 .. NThreads]
    /\ cur \in [Workers -> 0 .. NTests]
    /\ draws \in [Workers -> Seq(Nat)]
    /\ results \in [Tests -> [thread : 0 .. NThreads, id : 0 .. NTests,
                              p : PValue]]

(***************************************************************************)
(* A worker that has asked who it is knows its own ordinal, although it    *)
(* may run before ThreadObj_create has returned in the main thread.  This  *)
(* is what makes queue and generator of a worker private without a lock.   *)
(***************************************************************************)
Knows(w) == wpc[w] \notin {"none", "wrapper", "current"}

WorkerFindsItself == \A w \in Workers : Knows(w) => thrd[w] = w

(***************************************************************************)
(* A worker between its start and its return uses queue and generator      *)
(* without a lock: they are not freed before all workers have ended, not   *)
(* even when the process is about to exit because a thread did not start.  *)
(***************************************************************************)
Alive(w) == wpc[w] \notin {"none", "ended"}

NoUseAfterFree == \A w \in Workers : Alive(w) => queues[w].allocated

(***************************************************************************)
(* Two workers never execute the same test, so no two of them write the    *)
(* same slot of the unlocked results array.                                *)
(***************************************************************************)
Executing(w) == wpc[w] \in {"run", "seed", "label"}

SlotsAreDisjoint ==
    \A v, w \in Workers :
        (Executing(v) /\ Executing(w) /\ cur[v] = cur[w]) => v = w

(***************************************************************************)
(* A result, once stored, is never overwritten by another run of the test, *)
(* and once labelled never loses its label.                                *)
(***************************************************************************)
ResultsAreFinal ==
    [][\A t \in Tests :
        /\ results[t].p # <<>> => results'[t].p = results[t].p
        /\ results[t].id # 0 => results'[t] = results[t]]_vars

(***************************************************************************)
(* A seed belongs to one consumer, and the log names it: the generator of  *)
(* a worker was seeded, while the main thread was running, under the       *)
(* ordinal of the worker, and a test draws under the ordinal of the worker *)
(* that runs it.  The log of the report is therefore right about who used  *)
(* which seed.                                                             *)
(***************************************************************************)
SeedsOf(w) == Range(queues[w].seeds) \cup Range(draws[w])

SeedsAreAttributed ==
    /\ \A w \in Workers : \A k \in SeedsOf(w) : slog[k] = w
    /\ \A v, w \in Workers : v # w => SeedsOf(v) \cap SeedsOf(w) = {}

(***************************************************************************)
(* What the report contains, computed from the order of the shuffled tests *)
(* alone.  The test dealt as number k (from 0) goes to worker              *)
(* (k + 1) % NThreads, after the tests dealt to it before; the generator   *)
(* of the worker was seeded after the size check and the generators of the *)
(* workers before it.  If tests draw seeds, the replay lets the workers    *)
(* run one after another.                                                  *)
(***************************************************************************)
DealtAt(t) == CHOOSE k \in Tests : inds[k] = t

ReplaySeeds(w) == [k \in 1 .. SeedsPerCreate |-> w * SeedsPerCreate + k]

ReplayServed(k) ==
    [m \in 1 .. (k \div NThreads) |-> inds[(k % NThreads) + (m - 1) * NThreads]]

TestsBefore(k) ==    \* tests that precede number k in the replay
    {m \in Tests :
        \/ (m + 1) % NThreads < (k + 1) % NThreads
        \/ (m + 1) % NThreads = (k + 1) % NThreads /\ m < k}

ReplayDraws(k) ==
    LET first == (NThreads + 1) * SeedsPerCreate + 2
                    + Cardinality(TestsBefore(k)) * SeedsPerTest
    IN  [d \in 1 .. SeedsPerTest |-> first + d - 1]

Replay(t) ==
    LET k == DealtAt(t)
        w == ((k + 1) % NThreads) + 1
    IN  [thread |-> w, id |-> t + 1,
         p |-> <<t, ReplaySeeds(w), ReplayServed(k), ReplayDraws(k)>>]

(***************************************************************************)
(* "Its result is fully determined by the PRNG input. This determinism     *)
(* allows to obtain completely reproducible results" (core.c:708-713):     *)
(* whatever the scheduler did, every result that has been labelled, and in *)
(* the end the whole report, is that of the replay.                        *)
(***************************************************************************)
ReproducibleResults ==
    \A t \in Tests :
        (results[t].id # 0 \/ status = "reported") => results[t] = Replay(t)

(***************************************************************************)
(* The report has a result for every test, with the identifier of the      *)
(* test and the worker it was dealt to, and every mutex is free when the   *)
(* program destroys it.                                                    *)
(***************************************************************************)
ReportIsComplete ==
    status = "reported" =>
        /\ \A t \in Tests : /\ results[t].p # <<>>
                             /\ results[t].id = t + 1
                             /\ results[t].thread = Replay(t).thread
        /\ \A m \in {ordMutex, seedMutex, printfMutex} : m = Free

(***************************************************************************)
(* "--threads=n Run battery in multithreaded mode using n threads"         *)
(* (apps/smokerand.c:66): the run does not give up once its threads start. *)
(***************************************************************************)
NeverExits == status # "exit_failure"

(***************************************************************************)
(* A run that passes the size check ends with a report when its threads    *)
(* can be started: no worker waits for ever on a mutex another one keeps,  *)
(* and the main thread joins each of them.                                 *)
(***************************************************************************)
ReportIsPrinted == (mpc = "generators") ~> (status = "reported")

(***************************************************************************)
(* The pool of tests the dispatcher implements: a test is taken when it is *)
(* popped and complete when its result is labelled.                        *)
(***************************************************************************)
TakenBy(t) == {w \in Workers :
    \E k \in 1 .. queues[w].front : queues[w].tests[k].ind = t}

Pool == INSTANCE TestPool WITH
    runner <- [t \in Tests |-> IF TakenBy(t) = {} THEN 0
                               ELSE CHOOSE w \in TakenBy(t) : TRUE],
    complete <- {t \in Tests : results[t].id # 0},
    phase <- IF status = "running" THEN "open"
             ELSE IF status = "reported" THEN "reported" ELSE "failed"

ImplementsPool == Pool!Spec

=============================================================================
