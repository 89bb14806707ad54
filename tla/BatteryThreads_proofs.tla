----------------------- MODULE BatteryThreads_proofs -----------------------
(***************************************************************************)
(* Proofs about the multithreaded battery run, for any number of threads,  *)
(* of tests, of seeds and of entries of the thread table, with and without *)
(* threads in the build.                                                   *)
(*                                                                         *)
(* IInv, the inductive invariant, says how far the main thread is with the *)
(* threads (Life, Table), what a worker may know of itself (Identity), how *)
(* the tests are dealt (Shuffled, Dealt), how far each worker is in its    *)
(* queue (Progress), and what the results and the seed log owe to that     *)
(* (Outcome, Seeding, Attribution).                                        *)
(***************************************************************************)
EXTENDS BatteryThreads, ThreadRegistry_proofs, NumberLemmas, TLAPS

(***************************************************************************)
(* Where the main thread is: how many threads it has started, entered into *)
(* the table, joined and crossed out, and how many tests it has dealt.     *)
(***************************************************************************)
Preparing == {"check", "generators", "seedshuffle", "shuffle", "assign"}

Started ==
    CASE mpc \in Preparing               -> 0
      [] mpc \in {"spawn", "create", "exiting"} -> mi
      [] mpc \in {"register", "created"} -> mi + 1
      [] OTHER                           -> NThreads

Entered ==
    CASE mpc \in Preparing                       -> 0
      [] mpc \in {"spawn", "create", "register", "exiting"} -> mi
      [] mpc = "created"                         -> mi + 1
      [] OTHER                                   -> NThreads

Joined ==
    CASE mpc = "join"                   -> mi
      [] mpc = "forget"                 -> mi + 1
      [] mpc \in {"destruct", "report"} -> NThreads
      [] OTHER                          -> 0

CrossedOut ==
    CASE mpc \in {"join", "forget"}     -> mi
      [] mpc \in {"destruct", "report"} -> NThreads
      [] OTHER                          -> 0

DealtTo ==
    CASE mpc = "assign"                -> mi
      [] mpc \in Preparing \ {"assign"} -> 0
      [] OTHER                         -> NTests

(***************************************************************************)
(* The loop counter and the ordinal for seeds follow the main thread.      *)
(***************************************************************************)
Control ==
    /\ mpc \in {"check", "seedshuffle"} => mi = 0
    /\ mpc \in {"shuffle", "assign"} => mi \in Tests
    /\ mpc \in {"generators", "spawn", "create", "register", "created", "join", "forget",
                "exiting"} => mi < NThreads
    /\ seedOrd = IF mpc = "generators" THEN mi ELSE 0
    /\ status = "reported" => mpc = "report"

Life ==
    /\ \A w \in Workers : /\ w > Started => wpc[w] = "none"
                          /\ w <= Joined => wpc[w] = "ended"
    /\ Threading = "stubs" /\ mpc = "register" => wpc[mi + 1] = "none"

Table ==
    /\ Len(registry) = IF Entered < NTHREADS_MAX THEN Entered ELSE NTHREADS_MAX
    /\ \A k \in 1 .. Len(registry) :
           /\ registry[k].id = k /\ registry[k].ord = k
           /\ registry[k].exists <=> k > CrossedOut

(***************************************************************************)
(* thread_ord_mutex is only ever held by the main thread between two       *)
(* steps; the others by the worker that is inside.                         *)
(***************************************************************************)
Mutexes ==
    /\ ordMutex \in {Main, Free}
    /\ ordMutex = Main => mpc \in {"create", "register"}
    /\ status = "running" /\ mpc \in {"create", "register"} => ordMutex = Main
    /\ seedMutex # Main /\ printfMutex # Main
    /\ seedMutex # Free => wpc[seedMutex] = "seed"
    /\ printfMutex # Free => prt[printfMutex] = "held"

Served == {"pop", "run", "seed", "label", "return", "ended"}

Identity ==
    \A w \in Workers :
        /\ thrd[w] \in {THREAD_ORD_UNKNOWN, w}
        /\ wpc[w] \in Served => thrd[w] = w
        /\ thrd[w] = w => w <= Len(registry) /\ Threading = "pthreads"
        /\ Threading = "pthreads" /\ NThreads <= NTHREADS_MAX /\ Knows(w) => thrd[w] = w
        /\ wpc[w] \in {"none", "wrapper", "current", "ended"} => prt[w] = "no"

(***************************************************************************)
(* The queues exist from the creation of their generators to the end.      *)
(***************************************************************************)
Seeded(w) == mpc # "check" /\ (mpc = "generators" => w <= mi)

Seeding ==
    /\ mpc = "check" /\ status = "running" => slog = <<>>
    /\ mpc = "generators" => Len(slog) = (mi + 1) * SeedsPerCreate
    /\ \A w \in Workers :
           /\ queues[w].seeds = IF Seeded(w) THEN ReplaySeeds(w) ELSE <<>>
           /\ Seeded(w) /\ mpc # "report" => queues[w].allocated

Attribution ==
    \A w \in Workers : \A k \in SeedsOf(w) : k \in 1 .. Len(slog) /\ slog[k] = w

(***************************************************************************)
(* The indexes stay a permutation of the tests, and the test dealt as      *)
(* number n (from 1) has one place in one queue.                           *)
(***************************************************************************)
Shuffled ==
    /\ \A i, j \in Tests : inds[i] = inds[j] => i = j
    /\ \A t \in Tests : \E i \in Tests : inds[i] = t

QueueOf(n) == (n % NThreads) + 1
PlaceOf(n) == ((n - 1) \div NThreads) + 1

Dealt ==
    /\ \A w \in Workers : \A m \in 1 .. Len(queues[w].tests) :
           LET n == queues[w].tests[m].ord
           IN  /\ n \in 1 .. DealtTo
               /\ w = QueueOf(n) /\ m = PlaceOf(n)
               /\ queues[w].tests[m].ind = inds[n - 1]
    /\ \A n \in 1 .. DealtTo :
           /\ PlaceOf(n) \in 1 .. Len(queues[QueueOf(n)].tests)
           /\ queues[QueueOf(n)].tests[PlaceOf(n)].ord = n

Progress ==
    \A w \in Workers :
        /\ queues[w].front <= Len(queues[w].tests)
        /\ wpc[w] \notin Served => queues[w].front = 0
        /\ wpc[w] \in {"return", "ended"} => queues[w].front = Len(queues[w].tests)
        /\ Executing(w) => /\ queues[w].front > 0
                           /\ cur[w] = queues[w].tests[queues[w].front].ind

(***************************************************************************)
(* How many tests of its queue a worker has stored and labelled, and the   *)
(* results that there are then.                                            *)
(***************************************************************************)
Stored(w) == IF wpc[w] \in {"run", "seed"} THEN queues[w].front - 1 ELSE queues[w].front
Labelled(w) == IF Executing(w) THEN queues[w].front - 1 ELSE queues[w].front

FirstOf(w, n) == [i \in 1 .. n |-> queues[w].tests[i].ind]

Result(w, m, d) ==
    LET t == queues[w].tests[m].ind
    IN  [thread |-> IF m <= Labelled(w) THEN w ELSE 0,
         id     |-> IF m <= Labelled(w) THEN t + 1 ELSE 0,
         p      |-> <<t, queues[w].seeds, FirstOf(w, m - 1), d>>]

Outcome ==
    /\ mpc \in Preparing => \A t \in Tests : results[t] = None
    /\ \A w \in Workers :
           /\ queues[w].served = FirstOf(w, Stored(w))
           /\ \A m \in 1 .. Len(queues[w].tests) :
                  IF m > Stored(w)
                  THEN results[queues[w].tests[m].ind] = None
                  ELSE \E d \in Seq(Nat) :
                          /\ Len(d) = SeedsPerTest
                          /\ results[queues[w].tests[m].ind] = Result(w, m, d)

IInv ==
    /\ TypeOK
    /\ Control
    /\ Life
    /\ Table
    /\ Mutexes
    /\ Identity
    /\ Seeding
    /\ Attribution
    /\ Shuffled
    /\ Dealt
    /\ Progress
    /\ Outcome

-----------------------------------------------------------------------------
(***************************************************************************)
(* The place where AssignTest deals the test number n: always in the queue *)
(* of a worker, never the place of another number, and right behind that   *)
(* of number n - NThreads.                                                 *)
(***************************************************************************)
LEMMA PlaceType ==
    ASSUME NEW n \in Nat \ {0}
    PROVE  QueueOf(n) \in Workers /\ PlaceOf(n) \in Nat \ {0}
<1>1. n % NThreads \in 0 .. NThreads - 1 /\ (n - 1) \div NThreads \in Nat
  BY BatteryAssumption, DivModOf
<1>2. QED
  BY <1>1, BatteryAssumption DEF QueueOf, PlaceOf, Workers

\* Two numbers never share a place ...
LEMMA PlaceIsUnique ==
    ASSUME NEW n \in Nat \ {0}, NEW o \in Nat \ {0},
           QueueOf(n) = QueueOf(o), PlaceOf(n) = PlaceOf(o)
    PROVE  n = o
<1>1. NThreads \in Nat \ {0} /\ n - 1 \in Nat /\ o - 1 \in Nat
  BY BatteryAssumption
<1>2. PICK q \in Nat, r \in 0 .. NThreads - 1 :
          n - 1 = q * NThreads + r /\ (n - 1) \div NThreads = q /\ (n - 1) % NThreads = r
  BY <1>1, DivModOf
<1>3. PICK p \in Nat, s \in 0 .. NThreads - 1 :
          o - 1 = p * NThreads + s /\ (o - 1) \div NThreads = p /\ (o - 1) % NThreads = s
  BY <1>1, DivModOf
<1>4. p = q
  BY <1>2, <1>3 DEF PlaceOf
<1>5. /\ n % NThreads = IF r = NThreads - 1 THEN 0 ELSE r + 1
      /\ o % NThreads = IF s = NThreads - 1 THEN 0 ELSE s + 1
  <2>1. n = (n - 1) + 1 /\ o = (o - 1) + 1
    OBVIOUS
  <2>2. \A a \in Nat : (a + 1) % NThreads =
            IF a % NThreads = NThreads - 1 THEN 0 ELSE (a % NThreads) + 1
    BY <1>1, DivModNext
  <2>3. QED
    BY <1>1, <1>2, <1>3, <2>1, <2>2
<1>6. r = s
  BY <1>1, <1>5 DEF QueueOf
<1>7. QED
  BY <1>2, <1>3, <1>4, <1>6

\* ... the place right behind that of n - NThreads is that of n ...
LEMMA PlaceBehind ==
    ASSUME NEW n \in Nat, n > NThreads
    PROVE  QueueOf(n - NThreads) = QueueOf(n) /\ PlaceOf(n - NThreads) + 1 = PlaceOf(n)
<1>1. NThreads \in Nat \ {0} /\ n - 1 \in Nat /\ n - 1 >= NThreads /\ n >= NThreads
  BY BatteryAssumption
<1>2. (n - NThreads) % NThreads = n % NThreads
  BY <1>1, DivModMinus
<1>3. (n - 1 - NThreads) \div NThreads = (n - 1) \div NThreads - 1
  BY <1>1, DivModMinus
<1>4. n - 1 - NThreads = n - NThreads - 1 /\ (n - 1) \div NThreads \in Nat
  BY <1>1, DivModOf
<1>5. QED
  BY <1>2, <1>3, <1>4 DEF QueueOf, PlaceOf

\* ... and the first NThreads numbers start the queues.
LEMMA FirstPlace ==
    ASSUME NEW n \in Nat \ {0}, n <= NThreads
    PROVE  PlaceOf(n) = 1
<1>1. NThreads \in Nat \ {0} /\ n - 1 \in 0 .. NThreads - 1 /\ n - 1 = 0 * NThreads + (n - 1)
  BY BatteryAssumption
<1>2. (n - 1) \div NThreads = 0
  BY <1>1, DivModIs
<1>3. QED
  BY <1>2 DEF PlaceOf

-----------------------------------------------------------------------------
(***************************************************************************)
(* The initial state.                                                      *)
(***************************************************************************)
LEMMA InitIInv == Init => IInv
<1> SUFFICES ASSUME Init PROVE IInv
  OBVIOUS
<1> USE BatteryAssumption, CapacityAssumption DEF Workers, Tests
<1>1. TypeOK
  <2>1. \A S : <<>> \in Seq(S)
    OBVIOUS
  <2>2. registry \in Seq([id : Workers, ord : Workers, exists : BOOLEAN])
    <3> DEFINE R == [id : Workers, ord : Workers, exists : BOOLEAN]
    <3> HIDE DEF R
    <3>1. registry \in Seq(R)
      BY <2>1 DEF Init
    <3>2. QED
      BY <3>1 DEF R
  <2>3. queues \in [Workers -> Queue]
    BY <2>1 DEF Init, Queue
  <2>4. results \in [Tests -> [thread : 0 .. NThreads, id : 0 .. NTests, p : PValue]]
    BY DEF Init, None, PValue
  <2>5. slog \in Seq(0 .. NThreads) /\ draws \in [Workers -> Seq(Nat)]
    BY <2>1 DEF Init
  <2>6. /\ status \in Statuses /\ mpc \in MainLabels
        /\ mi \in Nat /\ seedOrd \in 0 .. NThreads
        /\ inds \in [Tests -> Tests]
        /\ ordMutex \in Owners /\ seedMutex \in Owners /\ printfMutex \in Owners
        /\ wpc \in [Workers -> WorkerLabels]
        /\ prt \in [Workers -> {"no", "who", "lock", "held"}]
        /\ thrd \in [Workers -> 0 .. NThreads]
        /\ cur \in [Workers -> 0 .. NTests]
    BY DEF Init, Statuses, MainLabels, WorkerLabels, Owners, Free, NoTest, THREAD_ORD_UNKNOWN
  <2>7. QED
    BY <2>2, <2>3, <2>4, <2>5, <2>6 DEF TypeOK
<1>2. Control /\ Life /\ Table /\ Mutexes
  BY DEF Init, Control, Life, Table, Mutexes, Started, Joined, Entered, CrossedOut,
         Preparing, Main, Free
<1>3. Identity /\ Seeding /\ Attribution
  BY DEF Init, Identity, Seeding, Attribution, Served, Seeded, SeedsOf, Range, Knows,
         THREAD_ORD_UNKNOWN
<1>4. Shuffled /\ Dealt /\ Progress
  BY DEF Init, Shuffled, Dealt, Progress, Served, Executing, DealtTo, Preparing
<1>5. Outcome
  BY DEF Init, Outcome, Stored, FirstOf, Executing, Preparing
<1>6. QED
  BY <1>1, <1>2, <1>3, <1>4, <1>5 DEF IInv

-----------------------------------------------------------------------------
(***************************************************************************)
(* What each part of the invariant depends on: a step that leaves it alone *)
(* preserves the part.                                                     *)
(***************************************************************************)
LEMMA ControlFrame == Control /\ UNCHANGED <<mpc, mi, seedOrd, status>> => Control'
BY DEF Control

\* The life of the workers.
LEMMA LifeFrame == Life /\ UNCHANGED <<mpc, mi, wpc>> => Life'
BY DEF Life, Started, Joined

\* The thread table.
LEMMA TableFrame == Table /\ UNCHANGED <<mpc, mi, registry>> => Table'
BY DEF Table, Entered, CrossedOut

\* The owners of the mutexes.
LEMMA MutexesFrame == Mutexes /\ UNCHANGED <<mpc, status, mutexes, wpc, prt>> => Mutexes'
BY DEF Mutexes, mutexes

\* What workers know of themselves.
LEMMA IdentityFrame == Identity /\ UNCHANGED <<registry, thrd, wpc, prt>> => Identity'
BY DEF Identity, Knows

\* The seeds of the generators.
LEMMA SeedingFrame ==
    Seeding /\ UNCHANGED <<mpc, mi, status, slog>>
    /\ (\A w \in Workers : /\ queues'[w].seeds = queues[w].seeds
                           /\ queues'[w].allocated = queues[w].allocated) => Seeding'
BY DEF Seeding, Seeded, ReplaySeeds

\* The attribution of the seeds.
LEMMA AttributionFrame ==
    Attribution /\ UNCHANGED <<slog, draws>>
    /\ (\A w \in Workers : queues'[w].seeds = queues[w].seeds) => Attribution'
BY DEF Attribution, SeedsOf, Range

\* The shuffled indexes.
LEMMA ShuffledFrame == Shuffled /\ UNCHANGED inds => Shuffled'
BY DEF Shuffled

\* The dealt tests while no test is dealt.
LEMMA DealtMainFrame ==
    ASSUME Dealt, DealtTo' = DealtTo, UNCHANGED inds,
           \A w \in Workers : queues'[w].tests = queues[w].tests
    PROVE  Dealt'
<1>1. \A n \in 1 .. DealtTo : QueueOf(n) \in Workers
  BY PlaceType
<1>2. ASSUME NEW w \in Workers, NEW m \in 1 .. Len(queues'[w].tests),
             NEW n, n = queues'[w].tests[m].ord
      PROVE  /\ n \in 1 .. DealtTo'
             /\ w = QueueOf(n) /\ m = PlaceOf(n)
             /\ queues'[w].tests[m].ind = inds'[n - 1]
  <2>1. queues'[w].tests = queues[w].tests
    OBVIOUS
  <2>2. m \in 1 .. Len(queues[w].tests) /\ n = queues[w].tests[m].ord
    BY <1>2, <2>1
  <2>3. /\ n \in 1 .. DealtTo
        /\ w = QueueOf(n) /\ m = PlaceOf(n)
        /\ queues[w].tests[m].ind = inds[n - 1]
    BY <2>2 DEF Dealt
  <2>4. QED
    BY <2>1, <2>3
<1>3. ASSUME NEW n \in 1 .. DealtTo'
      PROVE  /\ PlaceOf(n) \in 1 .. Len(queues'[QueueOf(n)].tests)
             /\ queues'[QueueOf(n)].tests[PlaceOf(n)].ord = n
  <2>1. n \in 1 .. DealtTo
    OBVIOUS
  <2>2. queues'[QueueOf(n)].tests = queues[QueueOf(n)].tests
    BY <1>1, <2>1
  <2>3. /\ PlaceOf(n) \in 1 .. Len(queues[QueueOf(n)].tests)
        /\ queues[QueueOf(n)].tests[PlaceOf(n)].ord = n
    BY <2>1 DEF Dealt
  <2>4. QED
    BY <2>2, <2>3
<1>4. QED
  BY <1>2, <1>3 DEF Dealt

\* The dealt tests while the main thread does something else.
LEMMA DealtFrame ==
    Dealt /\ UNCHANGED <<mpc, mi, inds>>
    /\ (\A w \in Workers : queues'[w].tests = queues[w].tests) => Dealt'
<1> SUFFICES ASSUME Dealt, UNCHANGED <<mpc, mi, inds>>,
                    \A w \in Workers : queues'[w].tests = queues[w].tests
             PROVE  Dealt'
  OBVIOUS
<1>1. DealtTo' = DealtTo
  BY DEF DealtTo
<1>2. QED
  BY <1>1, DealtMainFrame

\* How far the workers are.
LEMMA ProgressFrame == Progress /\ UNCHANGED <<queues, wpc, cur>> => Progress'
BY DEF Progress, Executing

\* The results.
LEMMA OutcomeFrame ==
    Outcome /\ UNCHANGED results /\ (mpc' \in Preparing => mpc \in Preparing)
    /\ (\A w \in Workers : /\ queues'[w].tests = queues[w].tests
                           /\ queues'[w].seeds = queues[w].seeds
                           /\ queues'[w].served = queues[w].served
                           /\ Stored(w)' = Stored(w) /\ Labelled(w)' = Labelled(w)) => Outcome'
<1> SUFFICES ASSUME Outcome, UNCHANGED results, mpc' \in Preparing => mpc \in Preparing,
                    \A w \in Workers : /\ queues'[w].tests = queues[w].tests
                                       /\ queues'[w].seeds = queues[w].seeds
                                       /\ queues'[w].served = queues[w].served
                                       /\ Stored(w)' = Stored(w) /\ Labelled(w)' = Labelled(w)
             PROVE  Outcome'
  OBVIOUS
<1>1. \A w \in Workers : \A m, d : Result(w, m, d)' = Result(w, m, d)
  BY DEF Result, FirstOf
<1>2. \A w \in Workers : FirstOf(w, Stored(w))' = FirstOf(w, Stored(w))
  BY DEF FirstOf
<1>3. QED
  BY <1>1, <1>2 DEF Outcome

\* The types.
LEMMA TypeFrame == TypeOK /\ UNCHANGED vars => TypeOK'
BY DEF TypeOK, vars, mainVars, workerVars, mutexes

\* A stuttering step preserves everything.
LEMMA StutterPreserves == IInv /\ UNCHANGED vars => IInv'
BY ControlFrame, LifeFrame, TableFrame, MutexesFrame, IdentityFrame, SeedingFrame,
   AttributionFrame, ShuffledFrame, DealtFrame, ProgressFrame, OutcomeFrame, TypeFrame
   DEF IInv, vars, mainVars, workerVars, mutexes, Stored, Labelled, Executing

(***************************************************************************)
(* A step of one worker between its start and its return, in which nobody  *)
(* leaves a critical section.                                              *)
(***************************************************************************)
LEMMA LifeOfWorker ==
    ASSUME TypeOK, Life, UNCHANGED <<mpc, mi>>, NEW w \in Workers, NEW label,
           wpc[w] \notin {"none", "ended"}, wpc' = [wpc EXCEPT ![w] = label]
    PROVE  Life'
BY DEF TypeOK, Life, Started, Joined

\* A worker inside a critical section stays there, no mutex changes hands.
LEMMA MutexesOfWorker ==
    ASSUME TypeOK, Mutexes, UNCHANGED <<mpc, status, mutexes>>,
           \A v \in Workers : /\ wpc[v] = "seed" => wpc'[v] = "seed"
                              /\ prt[v] = "held" => prt'[v] = "held"
    PROVE  Mutexes'
<1>1. /\ seedMutex \in Workers \/ seedMutex = Free
      /\ printfMutex \in Workers \/ printfMutex = Free
  BY BatteryAssumption DEF TypeOK, Mutexes, Owners, Main, Free, Workers
<1>2. QED
  BY <1>1 DEF Mutexes, mutexes

(***************************************************************************)
(* A worker that has neither ended nor is yet to start has been started by *)
(* the main thread, which has not joined it.                               *)
(***************************************************************************)
LEMMA AliveIsStarted ==
    ASSUME TypeOK, Life, NEW w \in Workers, wpc[w] \notin {"none", "ended"}
    PROVE  mpc \notin Preparing /\ w <= Started /\ w > Joined /\ w > CrossedOut
<1>1. w \in 1 .. NThreads /\ NThreads \in Nat /\ mi \in Nat
  BY BatteryAssumption DEF TypeOK, Workers
<1>2. Started \in Nat /\ Joined \in Nat /\ CrossedOut \in Nat /\ CrossedOut <= Joined
  <2>1. CASE mpc = "join" \/ mpc = "forget"
    BY <1>1, <2>1 DEF Started, Preparing, Joined, CrossedOut
  <2>2. CASE mpc = "destruct" \/ mpc = "report"
    BY <1>1, <2>2 DEF Started, Preparing, Joined, CrossedOut
  <2>3. CASE mpc \notin {"join", "forget", "destruct", "report"}
    <3>1. Joined = 0 /\ CrossedOut = 0
      BY <2>3 DEF Joined, CrossedOut
    <3>2. Started \in Nat
      BY <1>1 DEF Started
    <3>3. QED
      BY <3>1, <3>2
  <2>4. QED
    BY <2>1, <2>2, <2>3
<1>3. w <= Started /\ w > Joined
  BY <1>1, <1>2 DEF Life
<1>4. mpc \notin Preparing
  <2> SUFFICES ASSUME mpc \in Preparing PROVE FALSE
    OBVIOUS
  <2>1. Started = 0
    BY DEF Started, Preparing
  <2>2. QED
    BY <1>1, <1>3, <2>1
<1>5. QED
  BY <1>1, <1>2, <1>3, <1>4

-----------------------------------------------------------------------------
(***************************************************************************)
(* The steps of a worker.                                                  *)
(***************************************************************************)
LEMMA ThreadWrapperPreserves ==
    ASSUME IInv, NEW w \in Workers, ThreadWrapper(w)
    PROVE  IInv'
<1> USE DEF IInv, ThreadWrapper, WorkerAt
<1>1. wpc \in [Workers -> WorkerLabels]
  BY DEF TypeOK
<1>2. TypeOK'
  BY DEF TypeOK, WorkerLabels, mainVars, mutexes
<1>3. Control' /\ Table' /\ Shuffled'
  BY ControlFrame, TableFrame, ShuffledFrame DEF mainVars
<1>4. Life'
  BY LifeOfWorker DEF mainVars
<1>5. Mutexes'
  BY <1>1, MutexesOfWorker DEF mainVars
<1>6. Identity'
  BY <1>1 DEF Identity, Served, Knows
<1>7. Seeding' /\ Attribution' /\ Dealt'
  BY SeedingFrame, AttributionFrame, DealtFrame DEF mainVars
<1>8. Progress'
  BY <1>1 DEF Progress, Served, Executing
<1>9. Outcome'
  BY <1>1, OutcomeFrame DEF mainVars, Stored, Labelled, Executing
<1>10. QED
  BY <1>2, <1>3, <1>4, <1>5, <1>6, <1>7, <1>8, <1>9

(***************************************************************************)
(* What ThreadObj_current finds: a worker finds itself while it is in the  *)
(* table and not crossed out, a thread without identity finds nothing.     *)
(***************************************************************************)
LEMMA CurrentOrdOfWorker ==
    ASSUME TypeOK, Table, NEW w \in Workers
    PROVE  CurrentOrd(registry, w) =
               IF w <= Len(registry) /\ w > CrossedOut THEN w ELSE THREAD_ORD_UNKNOWN
<1>1. Len(registry) \in Nat /\ DOMAIN registry = 1 .. Len(registry)
  BY DEF TypeOK
<1>2. \A k \in DOMAIN registry : k \in Live(registry, w) <=> k = w /\ w > CrossedOut
  BY <1>1 DEF Live, Table
<1>3. CASE w <= Len(registry) /\ w > CrossedOut
  <2>1. w \in Live(registry, w)
    BY <1>1, <1>2, <1>3 DEF Workers
  <2>2. \A m \in Live(registry, w) : m = w
    BY <1>2 DEF Live
  <2>3. CurrentOrd(registry, w) = registry[w].ord
    BY <1>1, <2>1, <2>2, CurrentOrdOfOnly
  <2>4. QED
    BY <1>1, <1>3, <2>3 DEF Table, Workers
<1>4. CASE ~(w <= Len(registry) /\ w > CrossedOut)
  <2>1. Live(registry, w) = {}
    BY <1>1, <1>2, <1>4 DEF Live, Workers
  <2>2. QED
    BY <1>4, <2>1, CurrentOrdOfNone
<1>5. QED
  BY <1>3, <1>4

\* The identity that no thread has is in no entry.
LEMMA CurrentOrdOfUnknown ==
    ASSUME TypeOK, Table
    PROVE  CurrentOrd(registry, THREAD_ID_UNKNOWN) = THREAD_ORD_UNKNOWN
<1>1. Len(registry) \in Nat /\ DOMAIN registry = 1 .. Len(registry)
  BY DEF TypeOK
<1>2. Live(registry, THREAD_ID_UNKNOWN) = {}
  BY <1>1 DEF Live, Table, THREAD_ID_UNKNOWN
<1>3. QED
  BY <1>2, CurrentOrdOfNone

(***************************************************************************)
(* A worker that holds no mutex but finds thread_ord_mutex free has been   *)
(* entered into the table, if it is not full, and is not crossed out.      *)
(***************************************************************************)
LEMMA BatteryThreadStartPreserves ==
    ASSUME IInv, NEW w \in Workers, BatteryThreadStart(w)
    PROVE  IInv'
<1> USE DEF IInv, BatteryThreadStart, WorkerAt
<1>1. /\ wpc \in [Workers -> WorkerLabels] /\ thrd \in [Workers -> 0 .. NThreads]
      /\ prt \in [Workers -> {"no", "who", "lock", "held"}]
  BY DEF TypeOK
<1>2. thrd'[w] \in {THREAD_ORD_UNKNOWN, w}
  BY <1>1, CurrentOrdOfWorker, CurrentOrdOfUnknown DEF SelfId
<1>3. thrd'[w] = w => w <= Len(registry) /\ Threading = "pthreads"
  BY <1>1, CurrentOrdOfWorker, CurrentOrdOfUnknown, BatteryAssumption
     DEF SelfId, Workers, THREAD_ORD_UNKNOWN
<1>4. Threading = "pthreads" /\ NThreads <= NTHREADS_MAX => thrd'[w] = w
  <2> SUFFICES ASSUME Threading = "pthreads", NThreads <= NTHREADS_MAX
               PROVE  thrd'[w] = w
    OBVIOUS
  <2>1. ordMutex # Main
    BY BatteryAssumption DEF CanLock, Main, Free
  <2>2. mpc \notin {"create", "register"}
    BY <2>1 DEF Mutexes
  <2>3. w <= Started /\ w > Joined
    BY <1>1, BatteryAssumption DEF Life, Started, Joined, TypeOK, Control, Workers
  <2>4. w <= Entered /\ w > CrossedOut
    BY <2>2, <2>3, BatteryAssumption
       DEF Started, Entered, Joined, CrossedOut, Preparing, Workers, TypeOK, MainLabels
  <2>5. w <= NThreads /\ w \in Nat /\ Entered \in Nat /\ NTHREADS_MAX \in Nat
    BY BatteryAssumption, CapacityAssumption DEF Workers, Entered, TypeOK
  <2>6. w <= Len(registry)
    BY <2>4, <2>5, BatteryAssumption DEF Table
  <2>7. QED
    BY <1>1, <2>4, <2>6, CurrentOrdOfWorker DEF SelfId
<1>5. TypeOK'
  <2>1. CurrentOrd(registry, SelfId(w)) \in 0 .. NThreads
    BY <1>1, <1>2, BatteryAssumption DEF Workers, THREAD_ORD_UNKNOWN
  <2>2. thrd' \in [Workers -> 0 .. NThreads]
    BY <1>1, <2>1
  <2>3. QED
    BY <2>2 DEF TypeOK, WorkerLabels, mainVars, mutexes
<1>6. Control' /\ Table' /\ Shuffled'
  BY ControlFrame, TableFrame, ShuffledFrame DEF mainVars
<1>7. Life'
  BY LifeOfWorker DEF mainVars
<1>8. Mutexes'
  BY <1>1, MutexesOfWorker DEF mainVars, Identity
<1>9. Identity'
  BY <1>1, <1>2, <1>3, <1>4 DEF Identity, Served, Knows
<1>10. Seeding' /\ Attribution' /\ Dealt'
  BY SeedingFrame, AttributionFrame, DealtFrame DEF mainVars
<1>11. Progress'
  BY <1>1 DEF Progress, Served, Executing
<1>12. Outcome'
  BY <1>1, OutcomeFrame DEF mainVars, Stored, Labelled, Executing
<1>13. QED
  BY <1>5, <1>6, <1>7, <1>8, <1>9, <1>10, <1>11, <1>12

(***************************************************************************)
(* printf_mt, at any control point of a worker.                            *)
(***************************************************************************)
LEMMA PrintWhoPreserves ==
    ASSUME IInv, NEW w \in Workers, PrintWho(w)
    PROVE  IInv'
<1> USE DEF IInv, PrintWho
<1>1. prt \in [Workers -> {"no", "who", "lock", "held"}]
  BY DEF TypeOK
<1>2. TypeOK'
  BY DEF TypeOK, mainVars, mutexes
<1>3. Control' /\ Life' /\ Table' /\ Shuffled' /\ Progress'
  BY ControlFrame, LifeFrame, TableFrame, ShuffledFrame, ProgressFrame DEF mainVars
<1>4. Mutexes'
  BY <1>1, MutexesOfWorker DEF mainVars
<1>5. Identity'
  BY <1>1 DEF Identity, Knows
<1>6. Seeding' /\ Attribution' /\ Dealt'
  BY SeedingFrame, AttributionFrame, DealtFrame DEF mainVars
<1>7. Outcome'
  BY OutcomeFrame DEF mainVars, Stored, Labelled, Executing
<1>8. QED
  BY <1>2, <1>3, <1>4, <1>5, <1>6, <1>7

\* printf_mt_mutex is taken by a worker that waits for it ...
LEMMA PrintLockPreserves ==
    ASSUME IInv, NEW w \in Workers, PrintLock(w)
    PROVE  IInv'
<1> USE DEF IInv, PrintLock
<1>1. prt \in [Workers -> {"no", "who", "lock", "held"}]
  BY DEF TypeOK
<1>2. TypeOK'
  <2>1. printfMutex' \in Owners
    BY BatteryAssumption DEF Owners, Workers, Free
  <2>2. QED
    BY <2>1 DEF TypeOK, mainVars
<1>3. Control' /\ Life' /\ Table' /\ Shuffled' /\ Progress'
  BY ControlFrame, LifeFrame, TableFrame, ShuffledFrame, ProgressFrame DEF mainVars
<1>4. Mutexes'
  BY <1>1 DEF Mutexes, mainVars, Workers, Main
<1>5. Identity'
  BY <1>1 DEF Identity, Knows
<1>6. Seeding' /\ Attribution' /\ Dealt'
  BY SeedingFrame, AttributionFrame, DealtFrame DEF mainVars
<1>7. Outcome'
  BY OutcomeFrame DEF mainVars, Stored, Labelled, Executing
<1>8. QED
  BY <1>2, <1>3, <1>4, <1>5, <1>6, <1>7

\* ... and released by the one that holds it.
LEMMA PrintUnlockPreserves ==
    ASSUME IInv, NEW w \in Workers, PrintUnlock(w)
    PROVE  IInv'
<1> USE DEF IInv, PrintUnlock
<1>1. prt \in [Workers -> {"no", "who", "lock", "held"}]
  BY DEF TypeOK
<1>2. TypeOK'
  BY BatteryAssumption DEF TypeOK, mainVars, Owners, Free
<1>3. Control' /\ Life' /\ Table' /\ Shuffled' /\ Progress'
  BY ControlFrame, LifeFrame, TableFrame, ShuffledFrame, ProgressFrame DEF mainVars
<1>4. Mutexes'
  BY <1>1, BatteryAssumption DEF Mutexes, mainVars, Main, Free
<1>5. Identity'
  BY <1>1 DEF Identity, Knows
<1>6. Seeding' /\ Attribution' /\ Dealt'
  BY SeedingFrame, AttributionFrame, DealtFrame DEF mainVars
<1>7. Outcome'
  BY OutcomeFrame DEF mainVars, Stored, Labelled, Executing
<1>8. QED
  BY <1>2, <1>3, <1>4, <1>5, <1>6, <1>7

(***************************************************************************)
(* A worker with an ordinal has found its queue.                           *)
(***************************************************************************)
LEMMA FindQueuePreserves ==
    ASSUME IInv, NEW w \in Workers, FindQueue(w)
    PROVE  IInv'
<1> USE DEF IInv, FindQueue, WorkerAt
<1>1. wpc \in [Workers -> WorkerLabels] /\ THREAD_ORD_UNKNOWN \notin Workers
  BY DEF TypeOK, THREAD_ORD_UNKNOWN, Workers
<1>2. UNCHANGED <<status, mpc, mi, seedOrd, inds, slog, queues, registry, ordMutex, seedMutex,
                  printfMutex, prt, thrd, cur, draws, results>>
  BY DEF mainVars, mutexes
<1>3. PICK label \in {"pop", "exiting"} : /\ wpc' = [wpc EXCEPT ![w] = label]
                                         /\ label = "pop" => thrd[w] \in Workers
  OBVIOUS
<1>4. TypeOK'
  BY <1>2, <1>3 DEF TypeOK, WorkerLabels
<1>5. Control' /\ Table' /\ Shuffled'
  BY <1>2, ControlFrame, TableFrame, ShuffledFrame
<1>6. Life'
  BY <1>2, <1>3, LifeOfWorker
<1>7. Mutexes'
  BY <1>1, <1>2, <1>3, MutexesOfWorker DEF mutexes
<1>8. Identity'
  BY <1>1, <1>2, <1>3 DEF Identity, Served, Knows
<1>9. Seeding' /\ Attribution' /\ Dealt'
  BY <1>2, SeedingFrame, AttributionFrame, DealtFrame
<1>10. Progress'
  BY <1>1, <1>2, <1>3 DEF Progress, Served, Executing
<1>11. Outcome'
  BY <1>1, <1>2, <1>3, OutcomeFrame DEF Stored, Labelled, Executing
<1>12. QED
  BY <1>4, <1>5, <1>6, <1>7, <1>8, <1>9, <1>10, <1>11

\* A worker returns with its queue served to the end.
LEMMA BatteryThreadReturnPreserves ==
    ASSUME IInv, NEW w \in Workers, BatteryThreadReturn(w)
    PROVE  IInv'
<1> USE DEF IInv, BatteryThreadReturn, WorkerAt
<1>1. wpc \in [Workers -> WorkerLabels]
  BY DEF TypeOK
<1>2. TypeOK'
  BY DEF TypeOK, WorkerLabels, mainVars, mutexes
<1>3. Control' /\ Table' /\ Shuffled'
  BY ControlFrame, TableFrame, ShuffledFrame DEF mainVars
<1>4. Life'
  BY LifeOfWorker DEF mainVars
<1>5. Mutexes'
  BY <1>1, MutexesOfWorker DEF mainVars
<1>6. Identity'
  BY <1>1 DEF Identity, Served, Knows
<1>7. Seeding' /\ Attribution' /\ Dealt'
  BY SeedingFrame, AttributionFrame, DealtFrame DEF mainVars
<1>8. Progress'
  BY <1>1 DEF Progress, Served, Executing
<1>9. Outcome'
  BY <1>1, OutcomeFrame DEF mainVars, Stored, Labelled, Executing
<1>10. QED
  BY <1>2, <1>3, <1>4, <1>5, <1>6, <1>7, <1>8, <1>9

\* get_seed64_mt_mutex is taken by a worker that runs a test.
LEMMA SeedLockPreserves ==
    ASSUME IInv, NEW w \in Workers, SeedLock(w)
    PROVE  IInv'
<1> USE DEF IInv, SeedLock, WorkerAt
<1>1. wpc \in [Workers -> WorkerLabels]
  BY DEF TypeOK
<1>2. TypeOK'
  <2>1. seedMutex' \in Owners
    BY BatteryAssumption DEF Owners, Workers, Free
  <2>2. QED
    BY <2>1 DEF TypeOK, WorkerLabels, mainVars
<1>3. Control' /\ Table' /\ Shuffled'
  BY ControlFrame, TableFrame, ShuffledFrame DEF mainVars
<1>4. Life'
  BY LifeOfWorker DEF mainVars
<1>5. Mutexes'
  BY <1>1 DEF Mutexes, mainVars, Workers, Main
<1>6. Identity'
  BY <1>1 DEF Identity, Served, Knows
<1>7. Seeding' /\ Attribution' /\ Dealt'
  BY SeedingFrame, AttributionFrame, DealtFrame DEF mainVars
<1>8. Progress'
  BY <1>1 DEF Progress, Served, Executing
<1>9. Outcome'
  BY <1>1, OutcomeFrame DEF mainVars, Stored, Labelled, Executing
<1>10. QED
  BY <1>2, <1>3, <1>4, <1>5, <1>6, <1>7, <1>8, <1>9

-----------------------------------------------------------------------------
(***************************************************************************)
(* A worker and its queue.                                                 *)
(***************************************************************************)
LEMMA QueueType ==
    ASSUME TypeOK, NEW w \in Workers
    PROVE  /\ queues[w].tests \in Seq([ind : Tests, ord : Nat])
           /\ Len(queues[w].tests) \in Nat
           /\ queues[w].front \in Nat
           /\ queues[w].seeds \in Seq(Nat)
           /\ queues[w].served \in Seq(Tests)
<1>1. queues[w] \in Queue
  BY DEF TypeOK
<1>2. QED
  BY <1>1 DEF Queue

\* The elements of a queue.
LEMMA TestType ==
    ASSUME TypeOK, NEW w \in Workers, NEW m \in 1 .. Len(queues[w].tests)
    PROVE  queues[w].tests[m].ind \in Tests /\ queues[w].tests[m].ord \in Nat
<1> DEFINE E == [ind : Tests, ord : Nat]
<1>1. queues[w].tests[m] \in E
  <2>1. queues[w].tests \in Seq(E)
    BY QueueType
  <2> HIDE DEF E
  <2>2. QED
    BY <2>1
<1>2. QED
  BY <1>1

\* Moving the front of a queue.
LEMMA FrontType ==
    ASSUME TypeOK, NEW w \in Workers, NEW n \in Nat
    PROVE  [queues EXCEPT ![w].front = n] \in [Workers -> Queue]
<1>1. queues \in [Workers -> Queue] /\ queues[w] \in Queue
  BY DEF TypeOK
<1>2. [queues[w] EXCEPT !.front = n] \in Queue
  BY <1>1 DEF Queue
<1>3. QED
  <2> HIDE DEF Queue
  <2>1. QED
    BY <1>1, <1>2

\* Counting a test as served.
LEMMA ServedType ==
    ASSUME TypeOK, NEW w \in Workers, NEW s \in Seq(Tests)
    PROVE  [queues EXCEPT ![w].served = s] \in [Workers -> Queue]
<1>1. queues \in [Workers -> Queue] /\ queues[w] \in Queue
  BY DEF TypeOK
<1>2. [queues[w] EXCEPT !.served = s] \in Queue
  BY <1>1 DEF Queue
<1>3. QED
  <2> HIDE DEF Queue
  <2>1. QED
    BY <1>1, <1>2

\* What a worker executes is the element before the front of its queue.
LEMMA PopFrontPreserves ==
    ASSUME IInv, NEW w \in Workers, PopFront(w)
    PROVE  IInv'
<1> USE DEF IInv, WorkerAt
<1>1. wpc \in [Workers -> WorkerLabels] /\ prt \in [Workers -> {"no", "who", "lock", "held"}]
      /\ cur \in [Workers -> 0 .. NTests] /\ queues \in [Workers -> Queue]
  BY DEF TypeOK
<1>2. thrd[w] = w /\ wpc[w] = "pop" /\ prt[w] = "no"
  BY DEF Identity, Served, PopFront
<1>3. /\ prt' = [prt EXCEPT ![w] = "who"]
      /\ UNCHANGED <<status, mpc, mi, seedOrd, inds, slog, registry, ordMutex, seedMutex,
                     printfMutex, thrd, draws, results>>
  BY DEF PopFront, mainVars, mutexes
<1>4. queues[w].front \in Nat /\ Len(queues[w].tests) \in Nat /\ queues[w].front <= Len(queues[w].tests)
  BY QueueType DEF Progress
<1>5. Control' /\ Table' /\ Shuffled'
  BY <1>3, ControlFrame, TableFrame, ShuffledFrame
<1>6. CASE queues[w].front = Len(queues[w].tests)
  <2>1. /\ cur' = [cur EXCEPT ![w] = NoTest] /\ wpc' = [wpc EXCEPT ![w] = "return"]
        /\ UNCHANGED queues
    BY <1>2, <1>6 DEF PopFront
  <2>2. TypeOK'
    <3>1. cur' \in [Workers -> 0 .. NTests]
      BY <1>1, <2>1, BatteryAssumption DEF NoTest
    <3>2. QED
      BY <1>3, <2>1, <3>1 DEF TypeOK, WorkerLabels
  <2>3. Life' /\ Mutexes'
    BY <1>1, <1>2, <1>3, <2>1, LifeOfWorker, MutexesOfWorker DEF mutexes
  <2>4. Identity'
    BY <1>1, <1>2, <1>3, <2>1 DEF Identity, Served, Knows
  <2>5. Seeding' /\ Attribution' /\ Dealt'
    BY <1>3, <2>1, SeedingFrame, AttributionFrame, DealtFrame
  <2>6. Progress'
    BY <1>1, <1>2, <1>6, <2>1 DEF Progress, Served, Executing
  <2>7. Outcome'
    BY <1>1, <1>2, <1>3, <2>1, OutcomeFrame DEF Stored, Labelled, Executing
  <2>8. QED
    BY <1>5, <2>2, <2>3, <2>4, <2>5, <2>6, <2>7
<1>7. CASE queues[w].front # Len(queues[w].tests)
  <2> DEFINE m == queues[w].front + 1
             t == queues[w].tests[m].ind
  <2>1. /\ cur' = [cur EXCEPT ![w] = t] /\ wpc' = [wpc EXCEPT ![w] = "run"]
        /\ queues' = [queues EXCEPT ![w].front = m]
    BY <1>2, <1>7 DEF PopFront
  <2>2. m \in 1 .. Len(queues[w].tests) /\ m \in Nat
    BY <1>4, <1>7
  <2>3. t \in Tests
    BY <2>2, TestType
  <2>4. /\ queues'[w].front = m
        /\ \A v \in Workers : /\ queues'[v].tests = queues[v].tests
                              /\ queues'[v].seeds = queues[v].seeds
                              /\ queues'[v].served = queues[v].served
                              /\ queues'[v].allocated = queues[v].allocated
                              /\ v # w => queues'[v].front = queues[v].front
    BY <1>1, <2>1 DEF Queue
  <2> HIDE DEF m, t
  <2>5. TypeOK'
    <3>1. cur' \in [Workers -> 0 .. NTests]
      BY <1>1, <2>1, <2>3, BatteryAssumption DEF Tests
    <3>2. queues' \in [Workers -> Queue]
      BY <2>1, <2>2, FrontType
    <3>3. QED
      BY <1>3, <2>1, <3>1, <3>2 DEF TypeOK, WorkerLabels
  <2>6. Life' /\ Mutexes'
    BY <1>1, <1>2, <1>3, <2>1, LifeOfWorker, MutexesOfWorker DEF mutexes
  <2>7. Identity'
    BY <1>1, <1>2, <1>3, <2>1 DEF Identity, Served, Knows
  <2>8. Seeding' /\ Attribution' /\ Dealt'
    BY <1>3, <2>4, SeedingFrame, AttributionFrame, DealtFrame
  <2>9. Progress'
    <3>1. cur'[w] = queues'[w].tests[queues'[w].front].ind
      BY <1>1, <2>1, <2>4 DEF t
    <3>2. QED
      BY <1>1, <1>2, <2>1, <2>2, <2>4, <3>1 DEF Progress, Served, Executing
  <2>10. \A v \in Workers : Stored(v)' = Stored(v) /\ Labelled(v)' = Labelled(v)
    BY <1>1, <1>2, <1>4, <2>1, <2>4 DEF Stored, Labelled, Executing, m
  <2>11. Outcome'
    BY <1>3, <2>4, <2>10, OutcomeFrame
  <2>12. QED
    BY <1>5, <2>5, <2>6, <2>7, <2>8, <2>9, <2>11
<1>8. QED
  BY <1>6, <1>7

(***************************************************************************)
(* The log after n more seeds.                                             *)
(***************************************************************************)
LEMMA LoggedIs ==
    ASSUME TypeOK, NEW n \in Nat, NEW o, NEW self,
           (IF o >= 1 THEN o ELSE CurrentOrd(registry, self)) \in 0 .. NThreads
    PROVE  /\ Logged(n, o, self) \in Seq(0 .. NThreads)
           /\ Len(Logged(n, o, self)) = Len(slog) + n
           /\ \A k \in 1 .. Len(slog) : Logged(n, o, self)[k] = slog[k]
           /\ \A k \in Len(slog) + 1 .. Len(slog) + n :
                  Logged(n, o, self)[k] = IF o >= 1 THEN o ELSE CurrentOrd(registry, self)
<1> DEFINE x == IF o >= 1 THEN o ELSE CurrentOrd(registry, self)
           s == [k \in 1 .. n |-> x]
<1>1. s \in Seq(0 .. NThreads) /\ Len(s) = n
  OBVIOUS
<1>2. slog \in Seq(0 .. NThreads) /\ Logged(n, o, self) = slog \o s
  BY DEF TypeOK, Logged
<1>3. \A k \in 1 .. n : s[k] = x
  OBVIOUS
<1> HIDE DEF s, x
<1>4. QED
  BY <1>1, <1>2, <1>3 DEF x

\* The seed a test draws is logged under the ordinal of its worker.
LEMMA SeedDrawPreserves ==
    ASSUME IInv, NEW w \in Workers, SeedDraw(w)
    PROVE  IInv'
<1> USE DEF IInv, SeedDraw, WorkerAt
<1>1. wpc \in [Workers -> WorkerLabels] /\ draws \in [Workers -> Seq(Nat)]
      /\ slog \in Seq(0 .. NThreads) /\ Len(slog) \in Nat
  BY DEF TypeOK
<1>2. thrd[w] = w /\ w <= Len(registry) /\ Threading = "pthreads"
  BY DEF Identity, Served
<1>3. mpc \notin Preparing /\ w > CrossedOut
  <2>1. wpc[w] \notin {"none", "ended"}
    OBVIOUS
  <2>2. QED
    BY <2>1, AliveIsStarted
<1>4. seedOrd = 0
  BY <1>3 DEF Control, Preparing
<1>5. CurrentOrd(registry, SelfId(w)) = w
  BY <1>2, <1>3, CurrentOrdOfWorker DEF SelfId
<1> DEFINE k == Len(slog) + 1
<1>6. w \in 0 .. NThreads /\ w = IF seedOrd >= 1 THEN seedOrd ELSE CurrentOrd(registry, SelfId(w))
  BY <1>4, <1>5, BatteryAssumption DEF Workers
<1>7. /\ slog' \in Seq(0 .. NThreads) /\ Len(slog') = k /\ slog'[k] = w
      /\ \A i \in 1 .. Len(slog) : slog'[i] = slog[i]
  <2> DEFINE L == Logged(1, seedOrd, SelfId(w))
  <2>1. 1 \in Nat /\ (IF seedOrd >= 1 THEN seedOrd ELSE CurrentOrd(registry, SelfId(w))) \in 0 .. NThreads
    BY <1>6
  <2>2. /\ L \in Seq(0 .. NThreads) /\ Len(L) = Len(slog) + 1
        /\ \A i \in 1 .. Len(slog) : L[i] = slog[i]
        /\ \A i \in Len(slog) + 1 .. Len(slog) + 1 :
               L[i] = IF seedOrd >= 1 THEN seedOrd ELSE CurrentOrd(registry, SelfId(w))
    BY <2>1, LoggedIs
  <2>3. slog' = L
    OBVIOUS
  <2> HIDE DEF L
  <2>4. QED
    BY <1>1, <1>6, <2>2, <2>3
<1>8. draws' = [draws EXCEPT ![w] = Append(@, k)]
  <2>1. NextSeeds(1) = <<k>>
    BY DEF NextSeeds
  <2>2. draws[w] \in Seq(Nat) /\ k \in Nat
    BY <1>1
  <2> HIDE DEF k
  <2>3. draws[w] \o <<k>> = Append(draws[w], k)
    BY <2>2
  <2>4. QED
    BY <1>1, <2>1, <2>3
<1>9. TypeOK'
  <2>1. draws' \in [Workers -> Seq(Nat)]
    <3>1. k \in Nat
      BY <1>1
    <3> HIDE DEF k
    <3>2. Append(draws[w], k) \in Seq(Nat)
      BY <1>1, <3>1
    <3>3. QED
      BY <1>1, <1>8, <3>2
  <2>2. seedMutex' \in Owners
    BY BatteryAssumption DEF Owners, Free
  <2>3. QED
    BY <1>7, <2>1, <2>2 DEF TypeOK, WorkerLabels, mainVars
<1>10. Control' /\ Table' /\ Shuffled'
  BY ControlFrame, TableFrame, ShuffledFrame DEF mainVars
<1>11. Life'
  BY LifeOfWorker DEF mainVars
<1>12. Mutexes'
  BY <1>1, BatteryAssumption DEF Mutexes, mainVars, Main, Free, Workers, TypeOK, Owners
<1>13. Identity'
  BY <1>1 DEF Identity, Served, Knows
<1>14. Seeding'
  BY <1>3, <1>7 DEF Seeding, Seeded, ReplaySeeds, mainVars, Preparing
<1>15. Attribution'
  <2> SUFFICES ASSUME NEW v \in Workers, NEW i \in SeedsOf(v)'
               PROVE  i \in 1 .. Len(slog') /\ slog'[i] = v
    BY DEF Attribution
  <2>1. CASE i \in SeedsOf(v)
    <3>1. i \in 1 .. Len(slog) /\ slog[i] = v
      BY <2>1 DEF Attribution
    <3>2. QED
      BY <1>1, <1>7, <3>1
  <2>2. CASE i \notin SeedsOf(v)
    <3>1. UNCHANGED queues
      OBVIOUS
    <3>2. i \in Range(draws'[v]) /\ i \notin Range(draws[v])
      BY <2>2, <3>1 DEF SeedsOf
    <3>3. v = w
      BY <1>1, <1>8, <3>2
    <3>4. draws'[w] = Append(draws[w], k) /\ draws[w] \in Seq(Nat)
      BY <1>1, <1>8
    <3> HIDE DEF k
    <3>5. v = w /\ i = k
      BY <3>2, <3>3, <3>4 DEF Range
    <3>6. QED
      BY <1>1, <1>7, <3>5 DEF k
  <2>3. QED
    BY <2>1, <2>2
<1>16. Dealt'
  BY DealtFrame DEF mainVars
<1>17. Progress'
  BY <1>1 DEF Progress, Served, Executing
<1>18. Outcome'
  BY <1>1, OutcomeFrame DEF mainVars, Stored, Labelled, Executing
<1>19. QED
  BY <1>9, <1>10, <1>11, <1>12, <1>13, <1>14, <1>15, <1>16, <1>17, <1>18

(***************************************************************************)
(* The element a worker executes, and the slot of its test.                *)
(***************************************************************************)
LEMMA DealtToType ==
    ASSUME TypeOK, Control
    PROVE  DealtTo \in 0 .. NTests
<1>1. NTests \in Nat /\ mi \in Nat
  BY BatteryAssumption DEF TypeOK
<1>2. mpc = "assign" => mi \in 0 .. NTests
  BY <1>1 DEF Control, Tests
<1>3. QED
  BY <1>1, <1>2 DEF DealtTo

\* A test lies at one place of one queue: the shuffle only permutes.
LEMMA PlacesDiffer ==
    ASSUME TypeOK, Control, Shuffled, Dealt, NEW v \in Workers, NEW w \in Workers,
           NEW m \in 1 .. Len(queues[v].tests), NEW n \in 1 .. Len(queues[w].tests),
           queues[v].tests[m].ind = queues[w].tests[n].ind
    PROVE  v = w /\ m = n
<1> DEFINE o == queues[v].tests[m].ord
           p == queues[w].tests[n].ord
<1>1. /\ o \in 1 .. DealtTo /\ v = QueueOf(o) /\ m = PlaceOf(o)
      /\ queues[v].tests[m].ind = inds[o - 1]
  BY DEF Dealt
<1>2. /\ p \in 1 .. DealtTo /\ w = QueueOf(p) /\ n = PlaceOf(p)
      /\ queues[w].tests[n].ind = inds[p - 1]
  BY DEF Dealt
<1> HIDE DEF o, p
<1>3. o - 1 \in Tests /\ p - 1 \in Tests
  BY <1>1, <1>2, DealtToType, BatteryAssumption DEF Tests
<1>4. o = p
  <2>1. o - 1 = p - 1
    BY <1>1, <1>2, <1>3 DEF Shuffled
  <2>2. QED
    BY <1>1, <1>2, <2>1, DealtToType
<1>5. QED
  BY <1>1, <1>2, <1>4

\* A worker that executes a test has popped it from its own queue.
LEMMA ExecutingIs ==
    ASSUME IInv, NEW w \in Workers, Executing(w)
    PROVE  /\ thrd[w] = w
           /\ queues[w].front \in 1 .. Len(queues[w].tests)
           /\ cur[w] \in Tests
           /\ cur[w] = queues[w].tests[queues[w].front].ind
           /\ mpc \notin Preparing
<1> USE DEF IInv
<1>1. thrd[w] = w
  BY DEF Identity, Executing, Served
<1>2. queues[w].front \in 1 .. Len(queues[w].tests)
  BY QueueType DEF Progress
<1>3. cur[w] = queues[w].tests[queues[w].front].ind
  BY DEF Progress
<1>4. mpc \notin Preparing
  BY AliveIsStarted DEF Executing
<1>5. QED
  BY <1>1, <1>2, <1>3, <1>4, TestType

\* The tests at the first n places of a queue ...
LEMMA FirstOfType ==
    ASSUME TypeOK, NEW w \in Workers, NEW n \in 0 .. Len(queues[w].tests)
    PROVE  FirstOf(w, n) \in Seq(Tests) /\ Len(FirstOf(w, n)) = n
<1>1. Len(queues[w].tests) \in Nat /\ n \in Nat
  BY QueueType
<1>2. ASSUME NEW i \in 1 .. n
      PROVE  queues[w].tests[i].ind \in Tests
  <2>1. i \in 1 .. Len(queues[w].tests)
    BY <1>1
  <2>2. QED
    BY <2>1, TestType
<1>3. FirstOf(w, n) \in [1 .. n -> Tests]
  BY <1>2 DEF FirstOf
<1> DEFINE f == FirstOf(w, n)
<1> HIDE DEF f
<1>4. f \in [1 .. n -> Tests] => f \in Seq(Tests) /\ Len(f) = n
  BY <1>1
<1>5. QED
  BY <1>3, <1>4 DEF f

\* ... and one more.
LEMMA FirstOfNext ==
    ASSUME TypeOK, NEW w \in Workers, NEW n \in 1 .. Len(queues[w].tests)
    PROVE  FirstOf(w, n) = Append(FirstOf(w, n - 1), queues[w].tests[n].ind)
<1> DEFINE s == FirstOf(w, n - 1)
           t == queues[w].tests[n].ind
<1>1. n \in Nat /\ n - 1 \in 0 .. Len(queues[w].tests) /\ n \in 0 .. Len(queues[w].tests)
  BY QueueType
<1>2. s \in Seq(Tests) /\ Len(s) = n - 1 /\ t \in Tests
  BY <1>1, FirstOfType, TestType
<1>3. \A i \in 1 .. n - 1 : s[i] = queues[w].tests[i].ind
  BY DEF FirstOf
<1> HIDE DEF s
<1>4. /\ Append(s, t) \in Seq(Tests) /\ Len(Append(s, t)) = n /\ Append(s, t)[n] = t
      /\ \A i \in 1 .. n - 1 : Append(s, t)[i] = queues[w].tests[i].ind
  BY <1>1, <1>2, <1>3
<1>5. /\ FirstOf(w, n) \in Seq(Tests) /\ Len(FirstOf(w, n)) = n
      /\ \A i \in 1 .. n : FirstOf(w, n)[i] = queues[w].tests[i].ind
  BY <1>1, FirstOfType DEF FirstOf
<1>6. \A i \in 1 .. n : FirstOf(w, n)[i] = Append(s, t)[i]
  <2> SUFFICES ASSUME NEW i \in 1 .. n PROVE FirstOf(w, n)[i] = Append(s, t)[i]
    OBVIOUS
  <2>1. CASE i = n
    BY <1>4, <1>5, <2>1
  <2>2. CASE i # n
    BY <1>1, <1>4, <1>5, <2>2
  <2>3. QED
    BY <2>1, <2>2
<1> HIDE DEF t
<1>7. FirstOf(w, n) = Append(s, t)
  BY <1>1, <1>4, <1>5, <1>6
<1>8. QED
  BY <1>7 DEF s, t

(***************************************************************************)
(* A result in its slot.                                                   *)
(***************************************************************************)
LEMMA PValueType ==
    ASSUME NEW t \in Tests, NEW s \in Seq(Nat), NEW r \in Seq(Tests), NEW d \in Seq(Nat)
    PROVE  <<t, s, r, d>> \in PValue
<1> DEFINE S == Seq(Nat)
           R == Seq(Tests)
<1>1. t \in Tests /\ s \in S /\ r \in R /\ d \in S
  OBVIOUS
<1> HIDE DEF S, R
<1>2. <<t, s, r, d>> \in Tests \X S \X R \X S
  BY <1>1
<1>3. QED
  BY <1>2 DEF PValue, S, R

\* The result goes to the slot of the element before the front, no other is touched.
LEMMA StoreResultPreserves ==
    ASSUME IInv, NEW w \in Workers, StoreResult(w)
    PROVE  IInv'
<1> DEFINE f == queues[w].front
           c == cur[w]
           q == queues[w]
           P == <<c, q.seeds, q.served, draws[w]>>
           rec == [thread |-> 0, id |-> 0, p |-> P]
<1> USE DEF IInv
<1>1. /\ wpc \in [Workers -> WorkerLabels] /\ prt \in [Workers -> {"no", "who", "lock", "held"}]
      /\ cur \in [Workers -> 0 .. NTests] /\ queues \in [Workers -> Queue]
      /\ draws \in [Workers -> Seq(Nat)]
      /\ results \in [Tests -> [thread : 0 .. NThreads, id : 0 .. NTests, p : PValue]]
  BY DEF TypeOK
<1>2. wpc[w] = "run" /\ prt[w] = "no" /\ Len(draws[w]) = SeedsPerTest
  BY DEF StoreResult, WorkerAt
<1>3. /\ thrd[w] = w /\ f \in 1 .. Len(q.tests) /\ c \in Tests
      /\ c = q.tests[f].ind /\ mpc \notin Preparing
  BY <1>2, ExecutingIs DEF Executing
<1>4. /\ results' = [results EXCEPT ![c] = rec]
      /\ queues' = [queues EXCEPT ![w].served = Append(@, c)]
      /\ draws' = [draws EXCEPT ![w] = <<>>]
      /\ wpc' = [wpc EXCEPT ![w] = "label"]
      /\ prt' = [prt EXCEPT ![w] = "who"]
      /\ UNCHANGED <<status, mpc, mi, seedOrd, inds, slog, registry, ordMutex, seedMutex,
                     printfMutex, thrd, cur>>
  BY <1>3 DEF StoreResult, mainVars, mutexes
<1>5. /\ Len(q.tests) \in Nat /\ q.seeds \in Seq(Nat) /\ q.served \in Seq(Tests)
      /\ f \in Nat /\ draws[w] \in Seq(Nat)
  BY <1>1, QueueType
<1>6. /\ queues'[w].served = Append(q.served, c)
      /\ \A v \in Workers : /\ queues'[v].tests = queues[v].tests
                            /\ queues'[v].seeds = queues[v].seeds
                            /\ queues'[v].front = queues[v].front
                            /\ queues'[v].allocated = queues[v].allocated
                            /\ v # w => queues'[v].served = queues[v].served
  BY <1>1, <1>4 DEF Queue
<1> HIDE DEF f, c, q, P, rec
<1>7. TypeOK'
  <2>1. queues' \in [Workers -> Queue]
    <3>1. Append(q.served, c) \in Seq(Tests)
      BY <1>3, <1>5
    <3>2. queues' = [queues EXCEPT ![w].served = Append(q.served, c)]
      BY <1>4 DEF q
    <3>3. QED
      BY <3>1, <3>2, ServedType
  <2>2. draws' \in [Workers -> Seq(Nat)]
    <3>1. <<>> \in Seq(Nat)
      OBVIOUS
    <3>2. QED
      BY <1>1, <1>4, <3>1
  <2>3. results' \in [Tests -> [thread : 0 .. NThreads, id : 0 .. NTests, p : PValue]]
    <3>1. P \in PValue
      BY <1>3, <1>5, PValueType DEF P
    <3>2. rec \in [thread : 0 .. NThreads, id : 0 .. NTests, p : PValue]
      BY <3>1, BatteryAssumption DEF rec
    <3>3. QED
      BY <1>1, <1>4, <3>2
  <2>4. QED
    BY <1>4, <2>1, <2>2, <2>3 DEF TypeOK, WorkerLabels
<1>8. Control' /\ Table' /\ Shuffled'
  BY <1>4, ControlFrame, TableFrame, ShuffledFrame
<1>9. Life' /\ Mutexes'
  BY <1>1, <1>2, <1>4, LifeOfWorker, MutexesOfWorker DEF mutexes
<1>10. Identity'
  BY <1>1, <1>2, <1>3, <1>4 DEF Identity, Served, Knows
<1>11. Seeding' /\ Dealt'
  BY <1>4, <1>6, SeedingFrame, DealtFrame
<1>12. Attribution'
  <2>1. ASSUME NEW v \in Workers, NEW k \in SeedsOf(v)'
        PROVE  k \in SeedsOf(v)
    BY <1>1, <1>4, <1>6 DEF SeedsOf, Range
  <2>2. QED
    BY <1>4, <2>1 DEF Attribution
<1>13. Progress'
  BY <1>1, <1>2, <1>4, <1>6 DEF Progress, Served, Executing
<1>14. Outcome'
  <2>1. /\ Stored(w) = f - 1 /\ Stored(w)' = f
        /\ Labelled(w) = f - 1 /\ Labelled(w)' = f - 1
        /\ \A v \in Workers : v # w => Stored(v)' = Stored(v) /\ Labelled(v)' = Labelled(v)
    BY <1>1, <1>2, <1>4, <1>6 DEF Stored, Labelled, Executing, f
  <2>2. \A v \in Workers : \A n : FirstOf(v, n)' = FirstOf(v, n)
    BY <1>6 DEF FirstOf
  <2>3. \A v \in Workers : \A m \in 1 .. Len(queues[v].tests) : \A d :
            v # w \/ m <= f - 1 \/ m > f => Result(v, m, d)' = Result(v, m, d)
    BY <1>6, <2>1, <2>2 DEF Result
  <2>4. \A v \in Workers : \A m \in 1 .. Len(queues[v].tests) :
            ~(v = w /\ m = f) => results'[queues[v].tests[m].ind] = results[queues[v].tests[m].ind]
    <3> SUFFICES ASSUME NEW v \in Workers, NEW m \in 1 .. Len(queues[v].tests), ~(v = w /\ m = f)
                 PROVE  results'[queues[v].tests[m].ind] = results[queues[v].tests[m].ind]
      OBVIOUS
    <3>1. queues[v].tests[m].ind # c
      BY <1>3, PlacesDiffer DEF q
    <3>2. QED
      BY <1>1, <1>4, <3>1
  <2>5. ASSUME NEW v \in Workers
        PROVE  queues'[v].served = FirstOf(v, Stored(v))'
    <3>1. queues[v].served = FirstOf(v, Stored(v))
      BY DEF Outcome
    <3>2. CASE v = w
      <4>1. FirstOf(w, f) = Append(FirstOf(w, f - 1), c)
        BY <1>3, FirstOfNext DEF q
      <4>2. q.served = FirstOf(w, f - 1)
        BY <2>1, <3>1, <3>2 DEF q
      <4>3. QED
        BY <1>6, <2>1, <2>2, <3>2, <4>1, <4>2
    <3>3. CASE v # w
      BY <1>6, <2>1, <2>2, <3>1, <3>3
    <3>4. QED
      BY <3>2, <3>3
  <2>6. ASSUME NEW v \in Workers, NEW m \in 1 .. Len(queues'[v].tests)
        PROVE  IF m > Stored(v)'
               THEN results'[queues'[v].tests[m].ind] = None
               ELSE \E d \in Seq(Nat) :
                       /\ Len(d) = SeedsPerTest
                       /\ results'[queues'[v].tests[m].ind] = Result(v, m, d)'
    <3>1. m \in 1 .. Len(queues[v].tests) /\ queues'[v].tests[m].ind = queues[v].tests[m].ind
      BY <1>6
    <3>2. IF m > Stored(v)
          THEN results[queues[v].tests[m].ind] = None
          ELSE \E d \in Seq(Nat) :
                  /\ Len(d) = SeedsPerTest
                  /\ results[queues[v].tests[m].ind] = Result(v, m, d)
      BY <3>1 DEF Outcome
    <3>3. CASE v = w /\ m = f
      <4>1. PICK d \in Seq(Nat) : d = draws[w] /\ Len(d) = SeedsPerTest
        BY <1>2, <1>5
      <4>2. results'[queues'[v].tests[m].ind] = rec
        BY <1>1, <1>3, <1>4, <3>1, <3>3 DEF q
      <4>3. /\ ~(m <= Labelled(w)') /\ FirstOf(w, m - 1)' = q.served
            /\ queues'[w].tests[m].ind = c /\ queues'[w].seeds = q.seeds
        <5>1. q.served = FirstOf(w, m - 1)
          BY <2>1, <3>3 DEF Outcome, q
        <5>2. f \in Nat /\ ~(f <= f - 1)
          BY <1>3
        <5>3. ~(m <= Labelled(w)')
          BY <2>1, <3>3, <5>2
        <5>4. FirstOf(w, m - 1)' = q.served
          BY <2>2, <3>3, <5>1
        <5>5. queues'[w].tests[m].ind = c /\ queues'[w].seeds = q.seeds
          BY <1>3, <1>6, <3>3 DEF q
        <5>6. QED
          BY <5>3, <5>4, <5>5
      <4>4. Result(w, m, d)' =
                [thread |-> IF m <= Labelled(w)' THEN w ELSE 0,
                 id |-> IF m <= Labelled(w)' THEN queues'[w].tests[m].ind + 1 ELSE 0,
                 p |-> <<queues'[w].tests[m].ind, queues'[w].seeds, FirstOf(w, m - 1)', d>>]
        BY DEF Result
      <4>5. Result(w, m, d)' = [thread |-> 0, id |-> 0, p |-> <<c, q.seeds, q.served, d>>]
        BY <4>3, <4>4
      <4>6. results'[queues'[v].tests[m].ind] = Result(v, m, d)'
        BY <3>3, <4>1, <4>2, <4>5 DEF rec, P
      <4>7. ~(m > Stored(v)')
        BY <1>5, <2>1, <3>3
      <4>8. QED
        BY <4>1, <4>6, <4>7
    <3>4. CASE ~(v = w /\ m = f)
      <4>1. results'[queues'[v].tests[m].ind] = results[queues[v].tests[m].ind]
        BY <2>4, <3>1, <3>4
      <4>2. m > Stored(v)' <=> m > Stored(v)
        BY <1>5, <2>1, <3>1, <3>4
      <4>3. ~(m > Stored(v)) => \A d : Result(v, m, d)' = Result(v, m, d)
        BY <1>5, <2>1, <2>3, <3>1, <3>4
      <4>4. QED
        BY <3>2, <4>1, <4>2, <4>3
    <3>5. QED
      BY <3>3, <3>4
  <2>7. QED
    BY <1>3, <1>4, <2>5, <2>6 DEF Outcome
<1>15. QED
  BY <1>7, <1>8, <1>9, <1>10, <1>11, <1>12, <1>13, <1>14

\* A result whose label has been filled in.
LEMMA LabelIs ==
    ASSUME NEW r \in [thread : 0 .. NThreads, id : 0 .. NTests, p : PValue],
           NEW a \in 0 .. NTests, NEW b \in 0 .. NThreads
    PROVE  [r EXCEPT !.id = a, !.thread = b] = [thread |-> b, id |-> a, p |-> r.p]
<1> DEFINE e == [r EXCEPT !.id = a, !.thread = b]
<1>1. e \in [thread : 0 .. NThreads, id : 0 .. NTests, p : PValue] /\ e.thread = b /\ e.id = a /\ e.p = r.p
  OBVIOUS
<1> HIDE DEF e
<1>2. e = [thread |-> e.thread, id |-> e.id, p |-> e.p]
  BY <1>1
<1>3. QED
  BY <1>1, <1>2 DEF e

\* The label goes to the result stored before.
LEMMA LabelResultPreserves ==
    ASSUME IInv, NEW w \in Workers, LabelResult(w)
    PROVE  IInv'
<1> DEFINE f == queues[w].front
           c == cur[w]
           q == queues[w]
           rec == [results[c] EXCEPT !.id = c + 1, !.thread = w]
<1> USE DEF IInv
<1>1. /\ wpc \in [Workers -> WorkerLabels] /\ prt \in [Workers -> {"no", "who", "lock", "held"}]
      /\ cur \in [Workers -> 0 .. NTests]
      /\ results \in [Tests -> [thread : 0 .. NThreads, id : 0 .. NTests, p : PValue]]
  BY DEF TypeOK
<1>2. wpc[w] = "label" /\ prt[w] = "no"
  BY DEF LabelResult, WorkerAt
<1>3. /\ thrd[w] = w /\ f \in 1 .. Len(q.tests) /\ c \in Tests
      /\ c = q.tests[f].ind /\ mpc \notin Preparing
  BY <1>2, ExecutingIs DEF Executing
<1>4. /\ results' = [results EXCEPT ![c] = rec]
      /\ wpc' = [wpc EXCEPT ![w] = "pop"]
      /\ UNCHANGED <<status, mpc, mi, seedOrd, inds, slog, queues, registry, ordMutex,
                     seedMutex, printfMutex, prt, thrd, cur, draws>>
  BY <1>1, <1>3 DEF LabelResult, mainVars, mutexes
<1>5. Len(q.tests) \in Nat /\ f \in Nat
  BY <1>1, QueueType
<1> HIDE DEF f, c, q, rec
<1>6. TypeOK'
  <2>1. w \in 0 .. NThreads /\ c + 1 \in 0 .. NTests
    BY <1>3, BatteryAssumption DEF Workers, Tests
  <2>2. rec \in [thread : 0 .. NThreads, id : 0 .. NTests, p : PValue]
    BY <1>1, <1>3, <2>1 DEF rec
  <2>3. results' \in [Tests -> [thread : 0 .. NThreads, id : 0 .. NTests, p : PValue]]
    BY <1>1, <1>4, <2>2
  <2>4. QED
    BY <1>4, <2>3 DEF TypeOK, WorkerLabels
<1>7. Control' /\ Table' /\ Shuffled'
  BY <1>4, ControlFrame, TableFrame, ShuffledFrame
<1>8. Life' /\ Mutexes'
  BY <1>1, <1>2, <1>4, LifeOfWorker, MutexesOfWorker DEF mutexes
<1>9. Identity'
  BY <1>1, <1>2, <1>3, <1>4 DEF Identity, Served, Knows
<1>10. Seeding' /\ Attribution' /\ Dealt'
  BY <1>4, SeedingFrame, AttributionFrame, DealtFrame
<1>11. Progress'
  BY <1>1, <1>2, <1>4 DEF Progress, Served, Executing
<1>12. Outcome'
  <2>1. /\ Stored(w) = f /\ Stored(w)' = f
        /\ Labelled(w) = f - 1 /\ Labelled(w)' = f
        /\ \A v \in Workers : v # w => Stored(v)' = Stored(v) /\ Labelled(v)' = Labelled(v)
    BY <1>1, <1>2, <1>4 DEF Stored, Labelled, Executing, f
  <2>2. \A v \in Workers : \A n : FirstOf(v, n)' = FirstOf(v, n)
    BY <1>4 DEF FirstOf
  <2>3. ASSUME NEW v \in Workers
        PROVE  queues'[v].served = FirstOf(v, Stored(v))'
    BY <1>4, <2>1, <2>2 DEF Outcome
  <2>4. ASSUME NEW v \in Workers, NEW m \in 1 .. Len(queues'[v].tests)
        PROVE  IF m > Stored(v)'
               THEN results'[queues'[v].tests[m].ind] = None
               ELSE \E d \in Seq(Nat) :
                       /\ Len(d) = SeedsPerTest
                       /\ results'[queues'[v].tests[m].ind] = Result(v, m, d)'
    <3>1. /\ m \in 1 .. Len(queues[v].tests) /\ queues'[v].tests[m].ind = queues[v].tests[m].ind
          /\ m > Stored(v)' <=> m > Stored(v)
      BY <1>4, <2>1
    <3>2. IF m > Stored(v)
          THEN results[queues[v].tests[m].ind] = None
          ELSE \E d \in Seq(Nat) :
                  /\ Len(d) = SeedsPerTest
                  /\ results[queues[v].tests[m].ind] = Result(v, m, d)
      BY <3>1 DEF Outcome
    <3>3. CASE v = w /\ m = f
      <4>1. ~(m > Stored(v)) /\ ~(m <= Labelled(w)) /\ m <= Labelled(w)'
        BY <1>5, <2>1, <3>3
      <4>2. PICK d \in Seq(Nat) : Len(d) = SeedsPerTest /\ results[c] = Result(w, m, d)
        BY <1>3, <3>2, <3>3, <4>1 DEF q
      <4>3. results[c].p = <<c, q.seeds, FirstOf(w, m - 1), d>>
        BY <1>3, <3>3, <4>2 DEF Result, q
      <4>4. rec = [thread |-> w, id |-> c + 1, p |-> <<c, q.seeds, FirstOf(w, m - 1), d>>]
        <5>1. results[c] \in [thread : 0 .. NThreads, id : 0 .. NTests, p : PValue]
          BY <1>1, <1>3
        <5>2. w \in 0 .. NThreads /\ c + 1 \in 0 .. NTests
          BY <1>3, BatteryAssumption DEF Workers, Tests
        <5>3. rec = [thread |-> w, id |-> c + 1, p |-> results[c].p]
          BY <5>1, <5>2, LabelIs DEF rec
        <5>4. QED
          BY <4>3, <5>3
      <4>5. Result(w, m, d)' =
                [thread |-> IF m <= Labelled(w)' THEN w ELSE 0,
                 id |-> IF m <= Labelled(w)' THEN queues'[w].tests[m].ind + 1 ELSE 0,
                 p |-> <<queues'[w].tests[m].ind, queues'[w].seeds, FirstOf(w, m - 1)', d>>]
        BY DEF Result
      <4>6. queues'[w].tests[m].ind = c /\ queues'[w].seeds = q.seeds
        BY <1>3, <1>4, <3>3 DEF q
      <4>7. Result(w, m, d)' = rec
        BY <2>2, <4>1, <4>4, <4>5, <4>6
      <4>8. results'[queues'[v].tests[m].ind] = rec
        BY <1>1, <1>3, <1>4, <3>1, <3>3 DEF q
      <4>9. QED
        BY <3>1, <3>3, <4>1, <4>2, <4>7, <4>8
    <3>4. CASE ~(v = w /\ m = f)
      <4>1. queues[v].tests[m].ind # c
        BY <1>3, <3>1, <3>4, PlacesDiffer DEF q
      <4>2. results'[queues'[v].tests[m].ind] = results[queues[v].tests[m].ind]
        BY <1>1, <1>4, <3>1, <4>1
      <4>3. ~(m > Stored(v)) => (m <= Labelled(v)' <=> m <= Labelled(v))
        BY <1>5, <2>1, <3>1, <3>4
      <4>4. ~(m > Stored(v)) => \A d : Result(v, m, d)' = Result(v, m, d)
        BY <1>4, <2>2, <4>3 DEF Result
      <4>5. QED
        BY <3>1, <3>2, <4>2, <4>4
    <3>5. QED
      BY <3>3, <3>4
  <2>5. QED
    BY <1>3, <1>4, <2>3, <2>4 DEF Outcome
<1>13. QED
  BY <1>6, <1>7, <1>8, <1>9, <1>10, <1>11, <1>12

\* Every step of a worker preserves the invariant.
LEMMA WorkerPreserves ==
    ASSUME IInv, NEW w \in Workers, Worker(w)
    PROVE  IInv'
BY ThreadWrapperPreserves, BatteryThreadStartPreserves, PrintWhoPreserves, PrintLockPreserves,
   PrintUnlockPreserves, FindQueuePreserves, PopFrontPreserves, SeedLockPreserves,
   SeedDrawPreserves, StoreResultPreserves, LabelResultPreserves, BatteryThreadReturnPreserves
   DEF Worker

-----------------------------------------------------------------------------
(***************************************************************************)
(* The steps of the main thread.  What the invariant says of the workers,  *)
(* the table and the dealt tests depends on its control point only through *)
(* the numbers Started, Joined, Entered, CrossedOut and DealtTo.           *)
(***************************************************************************)
LEMMA LifeMainFrame ==
    Life /\ UNCHANGED wpc /\ Started' = Started /\ Joined' = Joined /\ mpc' # "register" => Life'
BY DEF Life

\* The table while nobody is entered or crossed out.
LEMMA TableMainFrame ==
    Table /\ UNCHANGED registry /\ Entered' = Entered /\ CrossedOut' = CrossedOut => Table'
BY DEF Table

\* The mutexes while the main thread starts no thread.
LEMMA MutexesMainFrame ==
    ASSUME Mutexes, UNCHANGED <<mutexes, wpc, prt>>,
           mpc \notin {"create", "register"}, mpc' \notin {"create", "register"}
    PROVE  Mutexes'
BY DEF Mutexes, mutexes

\* The workers while the main thread leaves fronts and tests alone ...
LEMMA ProgressMainFrame ==
    ASSUME Progress, UNCHANGED <<wpc, cur>>,
           \A w \in Workers : /\ queues'[w].tests = queues[w].tests
                              /\ queues'[w].front = queues[w].front
    PROVE  Progress' /\ \A w \in Workers : Stored(w)' = Stored(w) /\ Labelled(w)' = Labelled(w)
<1>1. Progress'
  BY DEF Progress, Executing
<1>2. QED
  BY <1>1 DEF Stored, Labelled, Executing

\* ... and their results.
LEMMA WorkerFrame ==
    ASSUME Progress, Outcome, UNCHANGED <<wpc, cur, results>>,
           mpc' \in Preparing => mpc \in Preparing,
           \A w \in Workers : /\ queues'[w].tests = queues[w].tests
                              /\ queues'[w].seeds = queues[w].seeds
                              /\ queues'[w].front = queues[w].front
                              /\ queues'[w].served = queues[w].served
    PROVE  Progress' /\ Outcome'
<1>1. Progress' /\ \A w \in Workers : Stored(w)' = Stored(w) /\ Labelled(w)' = Labelled(w)
  BY ProgressMainFrame
<1>2. QED
  BY <1>1, OutcomeFrame

(***************************************************************************)
(* While the main thread prepares the run no worker exists, and until it   *)
(* deals the tests every queue is empty.                                   *)
(***************************************************************************)
LEMMA NobodyWorks ==
    ASSUME TypeOK, Life, mpc \in Preparing, NEW w \in Workers
    PROVE  wpc[w] = "none"
<1>1. Started = 0 /\ w > 0
  BY BatteryAssumption DEF Started, Preparing, Workers
<1>2. QED
  BY <1>1 DEF Life

\* A queue is empty before the tests are dealt.
LEMMA QueuesAreEmpty ==
    ASSUME TypeOK, Dealt, DealtTo = 0, NEW w \in Workers
    PROVE  Len(queues[w].tests) = 0
<1>1. Len(queues[w].tests) \in Nat
  BY QueueType
<1>2. Len(queues[w].tests) # 0 => 1 \in 1 .. Len(queues[w].tests)
  BY <1>1
<1>3. QED
  BY <1>2 DEF Dealt

(***************************************************************************)
(* The main thread is in no table, so its seeds are logged under the       *)
(* ordinal that is set, or under 0.                                        *)
(***************************************************************************)
LEMMA MainLogs ==
    ASSUME TypeOK, Table, NEW n \in Nat, NEW o \in 0 .. NThreads
    PROVE  /\ Logged(n, o, Main) \in Seq(0 .. NThreads)
           /\ Len(Logged(n, o, Main)) = Len(slog) + n
           /\ \A k \in 1 .. Len(slog) : Logged(n, o, Main)[k] = slog[k]
           /\ \A k \in Len(slog) + 1 .. Len(slog) + n : Logged(n, o, Main)[k] = o
<1>1. CurrentOrd(registry, Main) = 0
  BY CurrentOrdOfUnknown DEF Main, THREAD_ID_UNKNOWN, THREAD_ORD_UNKNOWN
<1>2. (IF o >= 1 THEN o ELSE CurrentOrd(registry, Main)) = o
  BY <1>1, BatteryAssumption
<1>3. QED
  BY <1>2, LoggedIs

\* A longer log attributes the same seeds to the same threads.
LEMMA LongerLog ==
    ASSUME Attribution, TypeOK, Len(slog') \in Nat, Len(slog') >= Len(slog),
           \A k \in 1 .. Len(slog) : slog'[k] = slog[k],
           UNCHANGED draws, \A w \in Workers : queues'[w].seeds = queues[w].seeds
    PROVE  Attribution'
<1>1. \A w \in Workers : SeedsOf(w)' = SeedsOf(w)
  BY DEF SeedsOf, Range
<1>2. Len(slog) \in Nat
  BY DEF TypeOK
<1>3. QED
  BY <1>1, <1>2 DEF Attribution

\* The size check takes the first seeds, for no worker.
LEMMA CheckSizePreserves ==
    ASSUME IInv, NEW sizeOk \in BOOLEAN, CheckSize(sizeOk)
    PROVE  IInv'
<1> USE DEF IInv, CheckSize, At
<1>1. mi = 0 /\ seedOrd = 0 /\ slog = <<>> /\ SeedsPerCreate \in Nat /\ NThreads \in Nat \ {0, 1}
  BY BatteryAssumption DEF Control, Seeding
<1>2. UNCHANGED <<mi, seedOrd, inds, queues, registry, ordMutex, seedMutex, printfMutex, wpc,
                  prt, thrd, cur, draws, results>>
  BY DEF mutexes, workerVars
<1>3. /\ slog' \in Seq(0 .. NThreads) /\ Len(slog') = SeedsPerCreate
      /\ \A k \in 1 .. Len(slog) : slog'[k] = slog[k]
  <2>1. seedOrd \in 0 .. NThreads /\ Len(slog) = 0
    BY <1>1
  <2> DEFINE L == Logged(SeedsPerCreate, seedOrd, Main)
  <2>2. /\ L \in Seq(0 .. NThreads) /\ Len(L) = Len(slog) + SeedsPerCreate
        /\ \A k \in 1 .. Len(slog) : L[k] = slog[k]
    BY <1>1, <2>1, MainLogs
  <2>3. slog' = L
    OBVIOUS
  <2> HIDE DEF L
  <2>4. QED
    BY <1>1, <2>1, <2>2, <2>3
<1>4. \/ mpc' = "generators" /\ UNCHANGED status
      \/ status' = "BATTERY_ERROR" /\ UNCHANGED mpc
  OBVIOUS
<1>5. TypeOK'
  BY <1>2, <1>3, <1>4 DEF TypeOK, Statuses, MainLabels
<1>6. Control'
  BY <1>1, <1>2, <1>4 DEF Control
<1>7. /\ Started' = Started /\ Joined' = Joined /\ Entered' = Entered
      /\ CrossedOut' = CrossedOut /\ DealtTo' = DealtTo
  BY <1>2, <1>4 DEF Started, Joined, Entered, CrossedOut, DealtTo, Preparing
<1>8. Life' /\ Table' /\ Mutexes' /\ Dealt'
  BY <1>2, <1>4, <1>7, LifeMainFrame, TableMainFrame, MutexesMainFrame, DealtMainFrame DEF mutexes
<1>9. Identity' /\ Shuffled' /\ Progress' /\ Outcome'
  BY <1>2, <1>4, IdentityFrame, ShuffledFrame, WorkerFrame DEF Preparing
<1>10. Seeding'
  <2>1. \A w \in Workers : ~Seeded(w) /\ ~Seeded(w)'
    BY <1>1, <1>2, <1>4 DEF Seeded, Workers
  <2>2. mpc' = "generators" => Len(slog') = (mi' + 1) * SeedsPerCreate
    BY <1>1, <1>2, <1>3
  <2>3. QED
    BY <1>2, <1>4, <2>1, <2>2 DEF Seeding
<1>11. Attribution'
  BY <1>1, <1>2, <1>3, LongerLog
<1>12. QED
  BY <1>5, <1>6, <1>8, <1>9, <1>10, <1>11

\* The shuffle takes one seed, after the generators.
LEMMA SeedShufflePreserves ==
    ASSUME IInv, SeedShuffle
    PROVE  IInv'
<1> USE DEF IInv, SeedShuffle, At
<1>1. mi = 0 /\ seedOrd = 0 /\ NTests \in Nat /\ NThreads \in Nat \ {0, 1}
  BY BatteryAssumption DEF Control
<1>2. UNCHANGED <<status, mi, seedOrd, inds, queues, registry, ordMutex, seedMutex, printfMutex,
                  wpc, prt, thrd, cur, draws, results>>
  BY DEF mutexes, workerVars
<1>3. /\ slog' \in Seq(0 .. NThreads) /\ Len(slog') = Len(slog) + 1 /\ Len(slog) \in Nat
      /\ \A k \in 1 .. Len(slog) : slog'[k] = slog[k]
  <2>1. seedOrd \in 0 .. NThreads /\ 1 \in Nat /\ Len(slog) \in Nat
    BY <1>1 DEF TypeOK
  <2> DEFINE L == Logged(1, seedOrd, Main)
  <2>2. /\ L \in Seq(0 .. NThreads) /\ Len(L) = Len(slog) + 1
        /\ \A k \in 1 .. Len(slog) : L[k] = slog[k]
    BY <2>1, MainLogs
  <2>3. slog' = L
    OBVIOUS
  <2> HIDE DEF L
  <2>4. QED
    BY <2>1, <2>2, <2>3
<1>4. \/ mpc' = "spawn" /\ NTests = 0
      \/ mpc' = "shuffle" /\ NTests # 0
  OBVIOUS
<1>5. TypeOK'
  BY <1>2, <1>3, <1>4 DEF TypeOK, MainLabels
<1>6. Control'
  BY <1>1, <1>2, <1>4 DEF Control, Tests
<1>7. /\ Started' = Started /\ Joined' = Joined /\ Entered' = Entered
      /\ CrossedOut' = CrossedOut /\ DealtTo' = DealtTo
  BY <1>1, <1>2, <1>4 DEF Started, Joined, Entered, CrossedOut, DealtTo, Preparing
<1>8. Life' /\ Table' /\ Mutexes' /\ Dealt'
  BY <1>2, <1>4, <1>7, LifeMainFrame, TableMainFrame, MutexesMainFrame, DealtMainFrame DEF mutexes
<1>9. Identity' /\ Shuffled' /\ Progress' /\ Outcome'
  BY <1>2, <1>4, IdentityFrame, ShuffledFrame, WorkerFrame DEF Preparing
<1>10. Seeding'
  BY <1>2, <1>4 DEF Seeding, Seeded, ReplaySeeds
<1>11. Attribution'
  BY <1>2, <1>3, LongerLog
<1>12. QED
  BY <1>5, <1>6, <1>8, <1>9, <1>10, <1>11

(***************************************************************************)
(* The generator of queue w takes the seeds that follow those of the size  *)
(* check and of the generators before it.                                  *)
(***************************************************************************)
LEMMA CreateQueuePreserves ==
    ASSUME IInv, CreateQueue
    PROVE  IInv'
<1> DEFINE S == SeedsPerCreate
<1> USE DEF IInv
<1>0. PICK w \in Workers : w = mi + 1
  BY BatteryAssumption DEF CreateQueue, At, Control, TypeOK, Workers
<1>1. /\ mi \in Nat /\ w = mi + 1 /\ seedOrd = mi /\ S \in Nat /\ NThreads \in Nat \ {0, 1}
      /\ Len(slog) = w * S /\ Len(slog) \in Nat
      /\ status = "running" /\ mpc = "generators"
  BY <1>0, BatteryAssumption DEF CreateQueue, At, Control, TypeOK, Seeding
<1>2. /\ slog' = Logged(S, w, Main)
      /\ queues' = [queues EXCEPT ![w].seeds = NextSeeds(S), ![w].allocated = TRUE]
      /\ UNCHANGED <<status, inds, registry, ordMutex, seedMutex, printfMutex, wpc,
                     prt, thrd, cur, draws, results>>
  BY <1>0 DEF CreateQueue, mutexes, workerVars
<1>3. \/ w = NThreads /\ mpc' = "seedshuffle" /\ mi' = 0 /\ seedOrd' = 0
      \/ w # NThreads /\ mpc' = "generators" /\ mi' = w /\ seedOrd' = w
  BY <1>1 DEF CreateQueue
<1>4. queues \in [Workers -> Queue]
  BY DEF TypeOK
<1>5. NextSeeds(S) = ReplaySeeds(w) /\ NextSeeds(S) \in Seq(Nat)
  <2>1. NextSeeds(S) = ReplaySeeds(w)
    BY <1>1 DEF NextSeeds, ReplaySeeds
  <2>2. \A k \in 1 .. S : Len(slog) + k \in Nat
    BY <1>1
  <2>3. QED
    BY <1>1, <2>1, <2>2 DEF NextSeeds
<1>6. /\ queues'[w].seeds = ReplaySeeds(w) /\ queues'[w].allocated
      /\ \A v \in Workers : /\ queues'[v].tests = queues[v].tests
                            /\ queues'[v].front = queues[v].front
                            /\ queues'[v].served = queues[v].served
                            /\ v # w => queues'[v] = queues[v]
  <2> DEFINE s == NextSeeds(S)
  <2>1. queues' = [queues EXCEPT ![w].seeds = s, ![w].allocated = TRUE]
    BY <1>2
  <2>2. s = ReplaySeeds(w)
    BY <1>5
  <2> HIDE DEF s
  <2>3. queues[w] \in Queue
    BY <1>4
  <2>4. queues'[w] = [queues[w] EXCEPT !.seeds = s, !.allocated = TRUE]
    BY <1>4, <2>1
  <2>5. /\ queues'[w].seeds = s /\ queues'[w].allocated
        /\ queues'[w].tests = queues[w].tests
        /\ queues'[w].front = queues[w].front
        /\ queues'[w].served = queues[w].served
    BY <2>3, <2>4 DEF Queue
  <2>6. \A v \in Workers : v # w => queues'[v] = queues[v]
    BY <1>4, <2>1
  <2>7. QED
    BY <2>2, <2>5, <2>6
<1>7. /\ slog' \in Seq(0 .. NThreads) /\ Len(slog') = Len(slog) + S
      /\ \A k \in 1 .. Len(slog) : slog'[k] = slog[k]
      /\ \A k \in Len(slog) + 1 .. Len(slog) + S : slog'[k] = w
  <2>1. w \in 0 .. NThreads
    BY <1>1 DEF Workers
  <2> HIDE DEF S
  <2>2. TypeOK /\ Table
    OBVIOUS
  <2> DEFINE more == Logged(S, w, Main)
  <2>3. /\ more \in Seq(0 .. NThreads) /\ Len(more) = Len(slog) + S
        /\ \A k \in 1 .. Len(slog) : more[k] = slog[k]
        /\ \A k \in Len(slog) + 1 .. Len(slog) + S : more[k] = w
    BY <1>1, <2>1, <2>2, MainLogs
  <2>4. slog' = more
    BY <1>2
  <2> HIDE DEF more
  <2>5. QED
    BY <2>3, <2>4
<1> HIDE DEF S
<1>8. TypeOK'
  <2>1. queues' \in [Workers -> Queue]
    <3>1. queues[w] \in Queue
      BY <1>1, <1>4
    <3>2. [queues[w] EXCEPT !.seeds = NextSeeds(S), !.allocated = TRUE] \in Queue
      BY <1>5, <3>1 DEF Queue
    <3>3. queues' = [queues EXCEPT ![w] = [queues[w] EXCEPT !.seeds = NextSeeds(S), !.allocated = TRUE]]
      BY <1>1, <1>2, <1>4
    <3> HIDE DEF Queue
    <3>4. QED
      BY <1>4, <3>2, <3>3
  <2>2. mi' \in Nat /\ seedOrd' \in 0 .. NThreads /\ mpc' \in MainLabels
    BY <1>1, <1>3 DEF Workers, MainLabels
  <2>3. QED
    BY <1>2, <1>7, <2>1, <2>2 DEF TypeOK
<1>9. Control'
  BY <1>1, <1>2, <1>3 DEF Control, Workers
<1>10. /\ Started' = Started /\ Joined' = Joined /\ Entered' = Entered
       /\ CrossedOut' = CrossedOut /\ DealtTo' = DealtTo /\ DealtTo = 0
  BY <1>1, <1>2, <1>3 DEF Started, Joined, Entered, CrossedOut, DealtTo, Preparing
<1>11. Life' /\ Table' /\ Mutexes' /\ Dealt'
  BY <1>1, <1>2, <1>3, <1>6, <1>10, LifeMainFrame, TableMainFrame, MutexesMainFrame,
     DealtMainFrame DEF mutexes
<1>12. Identity' /\ Shuffled'
  BY <1>2, IdentityFrame, ShuffledFrame
<1>13. Progress' /\ \A v \in Workers : Stored(v)' = Stored(v)
  BY <1>2, <1>6, ProgressMainFrame
<1>14. Outcome'
  <2>1. \A v \in Workers : /\ Len(queues'[v].tests) = 0
                           /\ queues'[v].served = queues[v].served
    BY <1>6, <1>10, QueuesAreEmpty
  <2>2. \A v \in Workers : \A n : FirstOf(v, n)' = FirstOf(v, n)
    BY <1>6 DEF FirstOf
  <2>3. \A v \in Workers : queues[v].served = FirstOf(v, Stored(v))
    BY DEF Outcome
  <2>4. \A t \in Tests : results'[t] = None
    BY <1>1, <1>2 DEF Outcome, Preparing
  <2>5. QED
    BY <1>13, <2>1, <2>2, <2>3, <2>4 DEF Outcome
<1>15. Seeding'
  <2>1. \A v \in Workers : v # w => (Seeded(v)' <=> Seeded(v))
    BY <1>1, <1>3 DEF Seeded, Workers
  <2>2. Seeded(w)'
    BY <1>1, <1>3 DEF Seeded, Workers
  <2>3. mpc' = "generators" => Len(slog') = (mi' + 1) * S
    <3>1. w * S + S = (w + 1) * S
      BY <1>1
    <3>2. QED
      BY <1>1, <1>3, <1>7, <3>1
  <2>4. \A v \in Workers : queues'[v].seeds = IF Seeded(v)' THEN ReplaySeeds(v) ELSE <<>>
    BY <1>1, <1>6, <2>1, <2>2 DEF Seeding
  <2>5. \A v \in Workers : Seeded(v)' /\ mpc' # "report" => queues'[v].allocated
    BY <1>1, <1>6, <2>1, <2>2 DEF Seeding
  <2>6. QED
    BY <1>1, <1>2, <1>3, <2>3, <2>4, <2>5 DEF Seeding, S, ReplaySeeds
<1>16. Attribution'
  <2> SUFFICES ASSUME NEW v \in Workers, NEW k \in SeedsOf(v)'
               PROVE  k \in 1 .. Len(slog') /\ slog'[k] = v
    BY DEF Attribution
  <2>1. CASE k \in SeedsOf(v)
    <3>1. k \in 1 .. Len(slog) /\ slog[k] = v
      BY <2>1 DEF Attribution
    <3>2. QED
      BY <1>1, <1>7, <3>1
  <2>2. CASE k \notin SeedsOf(v)
    <3>1. v # w => SeedsOf(v)' = SeedsOf(v)
      <4>1. draws'[v] = draws[v] /\ (v # w => queues'[v].seeds = queues[v].seeds)
        BY <1>2, <1>6
      <4>2. QED
        BY <4>1 DEF SeedsOf, Range
    <3>2. SeedsOf(w)' = Range(NextSeeds(S)) \cup Range(draws[w])
      BY <1>2, <1>5, <1>6 DEF SeedsOf, Range
    <3>3. v = w /\ k \in Range(NextSeeds(S))
      BY <2>2, <3>1, <3>2 DEF SeedsOf
    <3>4. k \in Len(slog) + 1 .. Len(slog) + S
      BY <1>1, <3>3 DEF NextSeeds, Range
    <3>5. QED
      BY <1>1, <1>7, <3>3, <3>4
  <2>3. QED
    BY <2>1, <2>2
<1>17. QED
  BY <1>8, <1>9, <1>11, <1>12, <1>13, <1>14, <1>15, <1>16

\* Swapping two indexes leaves a permutation.
LEMMA ShuffleSwapPreserves ==
    ASSUME IInv, NEW j \in Tests, ShuffleSwap(j)
    PROVE  IInv'
<1> USE DEF IInv, ShuffleSwap, At
<1>1. mi \in Tests /\ mi \in Nat /\ seedOrd = 0 /\ NTests \in Nat /\ NThreads \in Nat \ {0, 1}
  BY BatteryAssumption DEF Control, TypeOK
<1>2. UNCHANGED <<status, seedOrd, slog, queues, registry, ordMutex, seedMutex, printfMutex,
                  wpc, prt, thrd, cur, draws, results>>
  BY DEF mutexes, workerVars
<1>3. \/ mi + 1 = NTests /\ mpc' = "assign" /\ mi' = 0
      \/ mi + 1 # NTests /\ mpc' = "shuffle" /\ mi' = mi + 1
  OBVIOUS
<1>4. mi' \in Tests /\ mi' \in Nat
  BY <1>1, <1>3 DEF Tests
<1>5. inds \in [Tests -> Tests] /\ inds' = [inds EXCEPT ![mi] = inds[j], ![j] = inds[mi]]
  BY DEF TypeOK
<1>6. /\ inds' \in [Tests -> Tests] /\ inds'[mi] = inds[j] /\ inds'[j] = inds[mi]
      /\ \A k \in Tests : k # mi /\ k # j => inds'[k] = inds[k]
  <2>1. inds[mi] \in Tests /\ inds[j] \in Tests
    BY <1>1, <1>5
  <2>2. inds' \in [Tests -> Tests]
    BY <1>5, <2>1
  <2>3. \A k \in Tests : inds'[k] = IF k = j THEN inds[mi]
                                    ELSE IF k = mi THEN inds[j] ELSE inds[k]
    BY <1>1, <1>5
  <2>4. inds'[mi] = inds[j]
    BY <1>1, <2>3
  <2>5. QED
    BY <1>1, <2>2, <2>3, <2>4
<1>7. TypeOK'
  <2>1. mpc' \in MainLabels
    BY <1>3 DEF MainLabels
  <2>2. inds' \in [Tests -> Tests] /\ mi' \in Nat
    BY <1>4, <1>6
  <2>3. /\ status' \in Statuses /\ seedOrd' \in 0 .. NThreads /\ slog' \in Seq(0 .. NThreads)
        /\ queues' \in [Workers -> Queue]
        /\ registry' \in Seq([id : Workers, ord : Workers, exists : BOOLEAN])
        /\ ordMutex' \in Owners /\ seedMutex' \in Owners /\ printfMutex' \in Owners
    <3>1. /\ status \in Statuses /\ seedOrd \in 0 .. NThreads /\ slog \in Seq(0 .. NThreads)
          /\ queues \in [Workers -> Queue]
          /\ registry \in Seq([id : Workers, ord : Workers, exists : BOOLEAN])
          /\ ordMutex \in Owners /\ seedMutex \in Owners /\ printfMutex \in Owners
      BY DEF TypeOK
    <3> HIDE DEF IInv, ShuffleSwap, At
    <3>2. QED
      BY <1>2, <3>1
  <2>4. /\ wpc' \in [Workers -> WorkerLabels]
        /\ prt' \in [Workers -> {"no", "who", "lock", "held"}]
        /\ thrd' \in [Workers -> 0 .. NThreads] /\ cur' \in [Workers -> 0 .. NTests]
        /\ draws' \in [Workers -> Seq(Nat)]
        /\ results' \in [Tests -> [thread : 0 .. NThreads, id : 0 .. NTests, p : PValue]]
    <3>1. /\ wpc \in [Workers -> WorkerLabels]
          /\ prt \in [Workers -> {"no", "who", "lock", "held"}]
          /\ thrd \in [Workers -> 0 .. NThreads] /\ cur \in [Workers -> 0 .. NTests]
          /\ draws \in [Workers -> Seq(Nat)]
          /\ results \in [Tests -> [thread : 0 .. NThreads, id : 0 .. NTests, p : PValue]]
      BY DEF TypeOK
    <3> HIDE DEF IInv, ShuffleSwap, At
    <3>2. QED
      BY <1>2, <3>1
  <2> HIDE DEF IInv, ShuffleSwap, At
  <2>5. QED
    BY <2>1, <2>2, <2>3, <2>4 DEF TypeOK
<1>8. Control'
  BY <1>1, <1>2, <1>3, <1>4 DEF Control
<1>9. /\ Started' = Started /\ Joined' = Joined /\ Entered' = Entered
      /\ CrossedOut' = CrossedOut /\ DealtTo' = 0 /\ DealtTo = 0
  BY <1>3 DEF Started, Joined, Entered, CrossedOut, DealtTo, Preparing
<1>10. Life' /\ Table' /\ Mutexes'
  BY <1>2, <1>3, <1>9, LifeMainFrame, TableMainFrame, MutexesMainFrame DEF mutexes
<1>11. Identity' /\ Progress' /\ Outcome'
  BY <1>2, <1>3, IdentityFrame, WorkerFrame DEF Preparing
<1>12. Seeding' /\ Attribution'
  BY <1>2, <1>3, AttributionFrame DEF Seeding, Seeded, ReplaySeeds
<1>13. Dealt'
  <2>1. \A w \in Workers : Len(queues'[w].tests) = 0
    BY <1>2, <1>9, QueuesAreEmpty
  <2>2. QED
    BY <1>9, <2>1 DEF Dealt
<1>14. Shuffled'
  <2>1. ASSUME NEW i \in Tests, NEW k \in Tests, inds'[i] = inds'[k]
        PROVE  i = k
    BY <1>1, <1>6, <2>1 DEF Shuffled
  <2>2. ASSUME NEW t \in Tests
        PROVE  \E i \in Tests : inds'[i] = t
    <3>1. PICK i \in Tests : inds[i] = t
      BY DEF Shuffled
    <3>2. CASE i = mi
      BY <1>1, <1>6, <3>1, <3>2
    <3>3. CASE i = j
      BY <1>1, <1>6, <3>1, <3>3
    <3>4. CASE i # mi /\ i # j
      BY <1>6, <3>1, <3>4
    <3>5. QED
      BY <3>2, <3>3, <3>4
  <2>3. QED
    BY <2>1, <2>2 DEF Shuffled
<1>15. QED
  BY <1>7, <1>8, <1>10, <1>11, <1>12, <1>13, <1>14

(***************************************************************************)
(* The next test goes right behind the last one of its queue.              *)
(***************************************************************************)
LEMMA NextPlace ==
    ASSUME TypeOK, Dealt, DealtTo \in Nat
    PROVE  PlaceOf(DealtTo + 1) = Len(queues[QueueOf(DealtTo + 1)].tests) + 1
<1> DEFINE n == DealtTo + 1
           w == QueueOf(n)
           p == PlaceOf(n)
           L == Len(queues[w].tests)
<1>1. n \in Nat \ {0} /\ w \in Workers /\ p \in Nat \ {0}
  BY PlaceType
<1>2. L \in Nat
  BY <1>1, QueueType
<1>3. p - 1 <= L
  <2>1. CASE n <= NThreads
    BY <1>1, <1>2, <2>1, FirstPlace
  <2>2. CASE n > NThreads
    <3>1. QueueOf(n - NThreads) = w /\ PlaceOf(n - NThreads) + 1 = p
      BY <1>1, <2>2, PlaceBehind
    <3>2. n - NThreads \in 1 .. DealtTo
      BY <1>1, <2>2, BatteryAssumption
    <3>3. PlaceOf(n - NThreads) \in 1 .. Len(queues[QueueOf(n - NThreads)].tests)
      BY <3>2 DEF Dealt
    <3>4. PlaceOf(n - NThreads) \in 1 .. L
      BY <3>1, <3>3
    <3> HIDE DEF L, p
    <3>5. QED
      BY <1>1, <1>2, <3>1, <3>4
  <2>3. QED
    BY <1>1, <2>1, <2>2, BatteryAssumption
<1>4. ~(p <= L)
  <2> SUFFICES ASSUME p <= L PROVE FALSE
    OBVIOUS
  <2>1. p \in 1 .. L
    BY <1>1, <1>2
  <2> DEFINE o == queues[w].tests[p].ord
  <2>2. o \in 1 .. DealtTo /\ w = QueueOf(o) /\ p = PlaceOf(o)
    BY <1>1, <2>1 DEF Dealt
  <2>3. o \in Nat \ {0} /\ o # n
    BY <2>2
  <2> HIDE DEF o
  <2>4. QED
    BY <1>1, <2>2, <2>3, PlaceIsUnique
<1> HIDE DEF n, p, L
<1>5. p = L + 1
  BY <1>1, <1>2, <1>3, <1>4
<1>6. QED
  BY <1>5 DEF n, p, L

\* Append, element by element.
LEMMA AppendIs ==
    ASSUME NEW S, NEW s \in Seq(S), NEW e \in S
    PROVE  /\ Append(s, e) \in Seq(S) /\ Len(Append(s, e)) = Len(s) + 1
           /\ Append(s, e)[Len(s) + 1] = e
           /\ \A k \in 1 .. Len(s) : Append(s, e)[k] = s[k]
OBVIOUS

\* The next test is dealt to the queue it belongs to.
LEMMA AssignTestPreserves ==
    ASSUME IInv, AssignTest
    PROVE  IInv'
<1> USE DEF IInv
<1>1. /\ mi \in Tests /\ mi \in Nat /\ seedOrd = 0 /\ NTests \in Nat /\ NThreads \in Nat \ {0, 1}
      /\ status = "running" /\ mpc = "assign" /\ DealtTo = mi
  BY BatteryAssumption DEF AssignTest, At, Control, TypeOK, DealtTo, Preparing
<1>2. PICK n \in Nat \ {0} : n = mi + 1
  BY <1>1
<1>3. PICK w \in Workers : w = QueueOf(n)
  BY PlaceType
<1>4. PICK e \in [ind : Tests, ord : Nat] : e = [ind |-> inds[mi], ord |-> n]
  BY <1>1 DEF TypeOK
<1>5. /\ queues' = [queues EXCEPT ![w].tests = Append(@, e)]
      /\ UNCHANGED <<status, seedOrd, inds, slog, registry, ordMutex, seedMutex, printfMutex,
                     wpc, prt, thrd, cur, draws, results>>
  BY <1>2, <1>3, <1>4 DEF AssignTest, QueueOf, mutexes, workerVars
<1>6. \/ n = NTests /\ mpc' = "spawn" /\ mi' = 0
      \/ n # NTests /\ mpc' = "assign" /\ mi' = n
  <2>1. \/ mi + 1 = NTests /\ mpc' = "spawn" /\ mi' = 0
        \/ mi + 1 # NTests /\ mpc' = "assign" /\ mi' = mi + 1
    BY <1>1, Zenon DEF AssignTest
  <2>2. QED
    BY <1>2, <2>1
<1>7. PICK L \in Nat : L = Len(queues[w].tests)
  BY QueueType
<1>8. PlaceOf(n) = L + 1
  BY <1>1, <1>2, <1>3, <1>7, NextPlace
<1>9. /\ queues'[w].tests \in Seq([ind : Tests, ord : Nat])
      /\ Len(queues'[w].tests) = L + 1
      /\ queues'[w].tests[L + 1] = e
      /\ \A m \in 1 .. L : queues'[w].tests[m] = queues[w].tests[m]
  <2> DEFINE E == [ind : Tests, ord : Nat]
             s == queues[w].tests
  <2>1. s \in Seq(E) /\ e \in E /\ L = Len(s)
    BY <1>7, QueueType
  <2>2. queues'[w].tests = Append(s, e)
    <3>1. queues \in [Workers -> Queue] /\ queues[w] \in Queue
      BY DEF TypeOK
    <3>2. PICK a : a = Append(queues[w].tests, e)
      OBVIOUS
    <3>3. queues'[w] = [queues[w] EXCEPT !.tests = a]
      BY <1>5, <3>1, <3>2
    <3>4. queues'[w].tests = a
      BY <3>1, <3>3 DEF Queue
    <3>5. QED
      BY <3>2, <3>4
  <2> HIDE DEF E, s
  <2>3. /\ Append(s, e) \in Seq(E) /\ Len(Append(s, e)) = L + 1 /\ Append(s, e)[L + 1] = e
        /\ \A k \in 1 .. L : Append(s, e)[k] = s[k]
    BY <2>1, AppendIs
  <2>4. QED
    BY <2>2, <2>3 DEF E, s
<1>10. \A v \in Workers : /\ queues'[v].front = queues[v].front
                          /\ queues'[v].seeds = queues[v].seeds
                          /\ queues'[v].served = queues[v].served
                          /\ queues'[v].allocated = queues[v].allocated
                          /\ v # w => queues'[v] = queues[v]
  <2>1. queues \in [Workers -> Queue]
    BY DEF TypeOK
  <2>2. PICK a : a = Append(queues[w].tests, e)
    OBVIOUS
  <2>3. queues[w] \in Queue /\ queues'[w] = [queues[w] EXCEPT !.tests = a]
    BY <1>5, <2>1, <2>2
  <2>4. /\ queues'[w].front = queues[w].front
        /\ queues'[w].seeds = queues[w].seeds
        /\ queues'[w].served = queues[w].served
        /\ queues'[w].allocated = queues[w].allocated
    BY <2>3 DEF Queue
  <2>5. \A v \in Workers : v # w => queues'[v] = queues[v]
    BY <1>5, <2>1
  <2>6. QED
    BY <2>4, <2>5
<1>11. n \in 1 .. NTests
  BY <1>1, <1>2 DEF Tests
<1>12. TypeOK'
  <2>1. queues' \in [Workers -> Queue]
    <3>1. queues \in [Workers -> Queue] /\ queues[w] \in Queue
      BY DEF TypeOK
    <3> DEFINE r == [queues[w] EXCEPT !.tests = Append(@, e)]
    <3>2. r \in Queue
      <4>1. r.tests \in Seq([ind : Tests, ord : Nat])
        BY <1>5, <1>9, <3>1 DEF Queue
      <4>2. QED
        BY <3>1, <4>1 DEF Queue
    <3>3. queues' = [queues EXCEPT ![w] = r]
      BY <1>5
    <3> HIDE DEF Queue, r
    <3>4. QED
      BY <3>1, <3>2, <3>3
  <2>2. mi' \in Nat /\ mpc' \in MainLabels
    BY <1>6 DEF MainLabels
  <2>3. QED
    BY <1>5, <2>1, <2>2 DEF TypeOK
<1>13. Control'
  BY <1>1, <1>5, <1>6, <1>11 DEF Control, Tests
<1>14. /\ Started' = Started /\ Joined' = Joined /\ Entered' = Entered
       /\ CrossedOut' = CrossedOut /\ DealtTo' = n
  BY <1>1, <1>6 DEF Started, Joined, Entered, CrossedOut, DealtTo, Preparing
<1>15. Life' /\ Table' /\ Mutexes'
  BY <1>1, <1>5, <1>6, <1>14, LifeMainFrame, TableMainFrame, MutexesMainFrame DEF mutexes
<1>16. Identity' /\ Shuffled'
  BY <1>5, IdentityFrame, ShuffledFrame
<1>17. Seeding' /\ Attribution'
  BY <1>1, <1>5, <1>6, <1>10, AttributionFrame DEF Seeding, Seeded, ReplaySeeds
<1>18. ASSUME NEW v \in Workers
       PROVE  wpc[v] = "none" /\ wpc'[v] = "none" /\ queues'[v].front = 0
  BY <1>1, <1>5, <1>10, NobodyWorks DEF Preparing, Progress, Served
<1>19. Progress'
  <2>1. \A v \in Workers : Len(queues'[v].tests) \in Nat
    BY <1>7, <1>9, <1>10, QueueType
  <2>2. QED
    BY <1>18, <2>1 DEF Progress, Served, Executing
<1>20. Dealt'
  <2>1. ASSUME NEW v \in Workers, NEW m \in 1 .. Len(queues'[v].tests)
        PROVE  /\ queues'[v].tests[m].ord \in 1 .. n
               /\ v = QueueOf(queues'[v].tests[m].ord)
               /\ m = PlaceOf(queues'[v].tests[m].ord)
               /\ queues'[v].tests[m].ind = inds'[queues'[v].tests[m].ord - 1]
    <3>1. CASE v = w /\ m = L + 1
      <4>1. queues'[v].tests[m].ord = n /\ queues'[v].tests[m].ind = inds[mi]
        BY <1>4, <1>9, <3>1
      <4>2. n \in 1 .. n /\ n - 1 = mi /\ inds' = inds
        BY <1>1, <1>2, <1>5
      <4>3. QED
        BY <1>3, <1>8, <3>1, <4>1, <4>2
    <3>2. CASE ~(v = w /\ m = L + 1)
      <4>1. m \in 1 .. Len(queues[v].tests) /\ queues'[v].tests[m] = queues[v].tests[m]
        <5>1. CASE v = w
          BY <1>7, <1>9, <3>2, <5>1
        <5>2. CASE v # w
          BY <1>10, <5>2
        <5>3. QED
          BY <5>1, <5>2
      <4> DEFINE o == queues[v].tests[m].ord
      <4>2. /\ o \in 1 .. mi /\ v = QueueOf(o) /\ m = PlaceOf(o)
            /\ queues[v].tests[m].ind = inds[o - 1]
        BY <1>1, <4>1 DEF Dealt
      <4>3. queues'[v].tests[m].ord = o /\ queues'[v].tests[m].ind = inds[o - 1]
        BY <4>1, <4>2
      <4> HIDE DEF o
      <4>4. o \in 1 .. n
        BY <1>1, <1>2, <4>2
      <4>5. QED
        BY <1>5, <4>2, <4>3, <4>4
    <3>3. QED
      BY <3>1, <3>2
  <2>2. ASSUME NEW o \in 1 .. n
        PROVE  /\ PlaceOf(o) \in 1 .. Len(queues'[QueueOf(o)].tests)
               /\ queues'[QueueOf(o)].tests[PlaceOf(o)].ord = o
    <3>1. CASE o = n
      BY <1>3, <1>4, <1>8, <1>9, <3>1
    <3>2. CASE o # n
      <4>1. o \in 1 .. mi /\ QueueOf(o) \in Workers
        BY <1>1, <1>2, <3>2, PlaceType
      <4>2. /\ PlaceOf(o) \in 1 .. Len(queues[QueueOf(o)].tests)
            /\ queues[QueueOf(o)].tests[PlaceOf(o)].ord = o
        BY <1>1, <4>1 DEF Dealt
      <4>3. CASE QueueOf(o) = w
        <5>1. PICK k \in 1 .. L : k = PlaceOf(o) /\ queues[w].tests[k].ord = o
          BY <1>7, <4>2, <4>3
        <5>2. k \in 1 .. L + 1 /\ queues'[w].tests[k] = queues[w].tests[k]
          BY <1>9
        <5>3. QED
          BY <1>9, <4>3, <5>1, <5>2
      <4>4. CASE QueueOf(o) # w
        BY <1>10, <4>1, <4>2, <4>4
      <4>5. QED
        BY <4>3, <4>4
    <3>3. QED
      BY <3>1, <3>2
  <2>3. QED
    BY <1>14, <2>1, <2>2 DEF Dealt
<1>21. Outcome'
  <2>1. \A v \in Workers : Stored(v) = 0 /\ Stored(v)' = 0
    BY <1>10, <1>18 DEF Stored
  <2>2. \A v \in Workers : FirstOf(v, 0)' = FirstOf(v, 0)
    BY DEF FirstOf
  <2>3. \A v \in Workers : queues'[v].served = FirstOf(v, Stored(v))'
    BY <1>10, <2>1, <2>2 DEF Outcome
  <2>4. \A t \in Tests : results'[t] = None
    BY <1>1, <1>5 DEF Outcome, Preparing
  <2>5. ASSUME NEW v \in Workers, NEW m \in 1 .. Len(queues'[v].tests)
        PROVE  m > Stored(v)' /\ results'[queues'[v].tests[m].ind] = None
    <3>1. m > 0
      BY <1>7, <1>9, <1>10, QueueType
    <3>2. queues'[v].tests[m].ind \in Tests
      <4> DEFINE o == queues'[v].tests[m].ord
      <4>1. o \in 1 .. n /\ queues'[v].tests[m].ind = inds'[o - 1]
        BY <1>14, <1>20 DEF Dealt
      <4> HIDE DEF o
      <4>2. o - 1 \in Tests
        BY <1>11, <4>1, BatteryAssumption DEF Tests
      <4>3. inds'[o - 1] \in Tests
        BY <1>5, <4>2 DEF TypeOK
      <4>4. QED
        BY <4>1, <4>3 DEF o
    <3>3. QED
      BY <2>1, <2>4, <3>1, <3>2
  <2>6. QED
    BY <2>3, <2>4, <2>5 DEF Outcome
<1>22. QED
  BY <1>12, <1>13, <1>15, <1>16, <1>17, <1>19, <1>20, <1>21

(***************************************************************************)
(* Starting the threads.                                                   *)
(***************************************************************************)
LEMMA SpawnLockPreserves ==
    ASSUME IInv, SpawnLock
    PROVE  IInv'
<1> USE DEF IInv, SpawnLock, At
<1>1. mpc' = "create" /\ ordMutex' = Main
      /\ UNCHANGED <<status, mi, seedOrd, inds, slog, queues, registry, seedMutex, printfMutex,
                     wpc, prt, thrd, cur, draws, results>>
  BY DEF workerVars
<1>2. TypeOK'
  BY <1>1, BatteryAssumption DEF TypeOK, MainLabels, Owners, Main, Free
<1>3. Control'
  BY <1>1 DEF Control
<1>4. /\ Started' = Started /\ Joined' = Joined /\ Entered' = Entered
      /\ CrossedOut' = CrossedOut /\ DealtTo' = DealtTo
  BY <1>1 DEF Started, Joined, Entered, CrossedOut, DealtTo, Preparing
<1>5. Life' /\ Table' /\ Dealt'
  BY <1>1, <1>4, LifeMainFrame, TableMainFrame, DealtMainFrame
<1>6. Mutexes'
  BY <1>1 DEF Mutexes
<1>7. Identity' /\ Shuffled' /\ Progress' /\ Outcome'
  BY <1>1, IdentityFrame, ShuffledFrame, WorkerFrame DEF Preparing
<1>8. Seeding' /\ Attribution'
  BY <1>1, AttributionFrame DEF Seeding, Seeded, ReplaySeeds
<1>9. QED
  BY <1>2, <1>3, <1>5, <1>6, <1>7, <1>8

\* A thread that cannot be started leaves the main thread in exit, and the rest as it was.
LEMMA SpawnFailsPreserves ==
    ASSUME IInv, SpawnFails
    PROVE  IInv'
<1> USE DEF IInv, SpawnFails, At
<1>1. mpc = "create" /\ mpc' = "exiting" /\ ordMutex' = Free
      /\ UNCHANGED <<status, mi, seedOrd, inds, slog, queues, registry, seedMutex, printfMutex,
                     wpc, prt, thrd, cur, draws, results>>
  BY DEF workerVars
<1>2. TypeOK'
  BY <1>1, BatteryAssumption DEF TypeOK, MainLabels, Owners, Free
<1>3. Control'
  BY <1>1 DEF Control
<1>4. /\ Started' = Started /\ Joined' = Joined /\ Entered' = Entered
      /\ CrossedOut' = CrossedOut /\ DealtTo' = DealtTo
  BY <1>1 DEF Started, Joined, Entered, CrossedOut, DealtTo, Preparing
<1>5. Life' /\ Table' /\ Dealt'
  BY <1>1, <1>4, LifeMainFrame, TableMainFrame, DealtMainFrame
<1>6. Mutexes'
  BY <1>1, BatteryAssumption DEF Mutexes, Main, Free
<1>7. Identity' /\ Shuffled' /\ Progress' /\ Outcome'
  BY <1>1, IdentityFrame, ShuffledFrame, WorkerFrame DEF Preparing
<1>8. Seeding' /\ Attribution'
  BY <1>1, AttributionFrame DEF Seeding, Seeded, ReplaySeeds
<1>9. QED
  BY <1>2, <1>3, <1>5, <1>6, <1>7, <1>8

\* The new thread is not in the table yet, and the mutex keeps it from looking.
LEMMA SpawnThreadPreserves ==
    ASSUME IInv, SpawnThread
    PROVE  IInv'
<1> USE DEF IInv
<1>0. PICK w \in Workers : w = mi + 1
  BY BatteryAssumption DEF SpawnThread, At, Control, TypeOK, Workers
<1>1. /\ mi \in Nat /\ mi < NThreads /\ NThreads \in Nat \ {0, 1} /\ seedOrd = 0 /\ mpc = "create"
      /\ status = "running"
  BY BatteryAssumption DEF SpawnThread, At, Control, TypeOK
<1>2. /\ mpc' = "register"
      /\ \/ Threading = "stubs" /\ wpc' = wpc
         \/ Threading # "stubs" /\ wpc' = [wpc EXCEPT ![w] = "wrapper"]
      /\ UNCHANGED <<status, mi, seedOrd, inds, slog, queues, registry, ordMutex, seedMutex,
                     printfMutex, prt, thrd, cur, draws, results>>
  BY <1>0 DEF SpawnThread, mutexes
<1>3. /\ Started = mi /\ Started' = mi + 1 /\ Joined' = 0 /\ Entered' = Entered
      /\ CrossedOut' = CrossedOut /\ DealtTo' = DealtTo
  BY <1>1, <1>2 DEF Started, Joined, Entered, CrossedOut, DealtTo, Preparing
<1>4. wpc \in [Workers -> WorkerLabels] /\ wpc[w] = "none" /\ prt[w] = "no"
  BY <1>0, <1>1, <1>3 DEF TypeOK, Life, Identity
<1>5. /\ wpc' \in [Workers -> WorkerLabels]
      /\ wpc'[w] \in {"none", "wrapper"}
      /\ \A v \in Workers : v # w => wpc'[v] = wpc[v]
  BY <1>2, <1>4 DEF WorkerLabels
<1>6. TypeOK'
  BY <1>2, <1>5 DEF TypeOK, MainLabels
<1>7. Control'
  BY <1>1, <1>2 DEF Control
<1>8. Life'
  <2>1. ASSUME NEW v \in Workers
        PROVE  (v > mi + 1 => wpc'[v] = "none") /\ ~(v <= 0)
    BY <1>0, <1>1, <1>3, <1>5 DEF Life, Workers
  <2>2. Threading = "stubs" => wpc'[mi' + 1] = "none"
    BY <1>0, <1>2, <1>4
  <2>3. QED
    BY <1>3, <2>1, <2>2 DEF Life
<1>9. Table' /\ Shuffled' /\ Dealt'
  BY <1>2, <1>3, TableMainFrame, ShuffledFrame, DealtMainFrame
<1>10. Mutexes'
  <2>1. seedMutex # Free => seedMutex \in Workers /\ seedMutex # w
    BY <1>4, BatteryAssumption DEF Mutexes, TypeOK, Owners, Main, Free, Workers
  <2>2. QED
    BY <1>1, <1>2, <1>5, <2>1 DEF Mutexes
<1>11. Identity'
  BY <1>2, <1>4, <1>5 DEF Identity, Served, Knows
<1>12. Seeding' /\ Attribution'
  BY <1>1, <1>2, AttributionFrame DEF Seeding, Seeded, ReplaySeeds
<1>13. Progress'
  BY <1>2, <1>4, <1>5 DEF Progress, Served, Executing
<1>14. Outcome'
  <2>1. \A v \in Workers : Stored(v)' = Stored(v) /\ Labelled(v)' = Labelled(v)
    BY <1>2, <1>4, <1>5 DEF Stored, Labelled, Executing
  <2>2. QED
    BY <1>2, <2>1, OutcomeFrame DEF Preparing
<1>15. QED
  BY <1>6, <1>7, <1>8, <1>9, <1>10, <1>11, <1>12, <1>13, <1>14

(***************************************************************************)
(* The entry of a new thread goes behind those of the threads before it,   *)
(* unless the table is full.                                               *)
(***************************************************************************)
LEMMA RegisterKeepsTable ==
    ASSUME TypeOK, Table, CrossedOut = 0, CrossedOut' = 0, NEW w \in Workers,
           Entered \in Nat, w = Entered + 1, Entered' = Entered + 1,
           registry' = Register(registry, ThreadObj(w, w))
    PROVE  /\ Table'
           /\ registry' \in Seq([id : Workers, ord : Workers, exists : BOOLEAN])
           /\ Len(registry') \in Nat /\ Len(registry') >= Len(registry)
<1> DEFINE R == [id : Workers, ord : Workers, exists : BOOLEAN]
           e == ThreadObj(w, w)
<1>1. e \in R /\ e.id = w /\ e.ord = w /\ e.exists
  BY DEF ThreadObj
<1>2. registry \in Seq(R) /\ NTHREADS_MAX \in Nat
  BY CapacityAssumption DEF TypeOK
<1>3. /\ Len(registry) = IF Entered < NTHREADS_MAX THEN Entered ELSE NTHREADS_MAX
      /\ \A k \in 1 .. Len(registry) :
             registry[k].id = k /\ registry[k].ord = k /\ (registry[k].exists <=> k > 0)
  BY DEF Table
<1> HIDE DEF e, R
<1>4. CASE Len(registry) < NTHREADS_MAX
  <2>1. registry' = Append(registry, e)
    BY <1>4, RegisterRoom DEF e
  <2>2. /\ registry' \in Seq(R) /\ Len(registry') = Len(registry) + 1
        /\ registry'[Len(registry) + 1] = e
        /\ \A k \in 1 .. Len(registry) : registry'[k] = registry[k]
    BY <1>1, <1>2, <2>1, AppendIs
  <2>3. Len(registry) = Entered /\ Len(registry') = w
    BY <1>2, <1>3, <1>4, <2>2
  <2>4. ASSUME NEW k \in 1 .. Len(registry')
        PROVE  registry'[k].id = k /\ registry'[k].ord = k /\ (registry'[k].exists <=> k > 0)
    <3>1. CASE k = w
      BY <1>1, <2>2, <2>3, <3>1
    <3>2. CASE k # w
      <4>1. k \in 1 .. Len(registry)
        BY <2>3, <3>2
      <4>2. QED
        BY <1>3, <2>2, <4>1
    <3>3. QED
      BY <3>1, <3>2
  <2>5. Len(registry') = IF Entered' < NTHREADS_MAX THEN Entered' ELSE NTHREADS_MAX
    BY <1>2, <1>4, <2>3
  <2>6. QED
    BY <2>2, <2>3, <2>4, <2>5 DEF Table, R
<1>5. CASE ~(Len(registry) < NTHREADS_MAX)
  <2>1. registry' = registry
    BY <1>5, RegisterFull
  <2>2. Len(registry) = NTHREADS_MAX /\ ~(Entered' < NTHREADS_MAX)
    BY <1>2, <1>3, <1>5
  <2>3. QED
    BY <1>2, <1>3, <2>1, <2>2 DEF Table, R
<1>6. QED
  BY <1>4, <1>5

\* The mutex is free when the thread has been entered, if there was room.
LEMMA SpawnRegisterPreserves ==
    ASSUME IInv, SpawnRegister
    PROVE  IInv'
<1> USE DEF IInv
<1>0. PICK w \in Workers : w = mi + 1
  BY BatteryAssumption DEF SpawnRegister, At, Control, TypeOK, Workers
<1>1. /\ mi \in Nat /\ mi < NThreads /\ NThreads \in Nat \ {0, 1} /\ seedOrd = 0 /\ mpc = "register"
      /\ status = "running" /\ wpc \in [Workers -> WorkerLabels]
  BY BatteryAssumption DEF SpawnRegister, At, Control, TypeOK
<1>2. /\ mpc' = "created" /\ ordMutex' = Free
      /\ registry' = Register(registry, ThreadObj(w, w))
      /\ \/ Threading # "stubs" /\ wpc' = wpc
         \/ Threading = "stubs" /\ wpc' = [wpc EXCEPT ![w] = "wrapper"]
      /\ UNCHANGED <<status, mi, seedOrd, inds, slog, queues, seedMutex,
                     printfMutex, prt, thrd, cur, draws, results>>
  BY <1>0 DEF SpawnRegister, StoredId
<1>3. /\ Started = mi + 1 /\ Started' = mi + 1 /\ Joined = 0 /\ Joined' = 0
      /\ Entered = mi /\ Entered' = mi + 1
      /\ CrossedOut = 0 /\ CrossedOut' = 0 /\ DealtTo' = DealtTo
  BY <1>1, <1>2 DEF Started, Joined, Entered, CrossedOut, DealtTo, Preparing
<1>4. Threading = "stubs" => wpc[w] = "none" /\ prt[w] = "no"
  BY <1>0, <1>1 DEF Life, Identity
<1>5. /\ wpc' \in [Workers -> WorkerLabels]
      /\ wpc'[w] # wpc[w] => Threading = "stubs" /\ wpc'[w] = "wrapper"
      /\ \A v \in Workers : v # w => wpc'[v] = wpc[v]
  BY <1>1, <1>2 DEF WorkerLabels
<1>6. /\ Table' /\ registry' \in Seq([id : Workers, ord : Workers, exists : BOOLEAN])
      /\ Len(registry') \in Nat /\ Len(registry') >= Len(registry)
  BY <1>0, <1>1, <1>2, <1>3, RegisterKeepsTable
<1>7. TypeOK'
  <2>1. ordMutex' \in Owners
    BY <1>1, <1>2 DEF Owners, Free
  <2>2. QED
    BY <1>2, <1>5, <1>6, <2>1 DEF TypeOK, MainLabels
<1>8. Control'
  BY <1>1, <1>2 DEF Control
<1>9. Life'
  <2>1. ASSUME NEW v \in Workers
        PROVE  (v > mi + 1 => wpc'[v] = "none") /\ ~(v <= 0)
    BY <1>0, <1>1, <1>3, <1>5 DEF Life, Workers
  <2>2. QED
    BY <1>2, <1>3, <2>1 DEF Life
<1>10. Shuffled' /\ Dealt'
  BY <1>2, <1>3, ShuffledFrame, DealtMainFrame
<1>11. Mutexes'
  <2>1. seedMutex # Free => wpc'[seedMutex] = "seed"
    BY <1>4, <1>5, BatteryAssumption DEF Mutexes, TypeOK, Owners, Main, Free, Workers
  <2>2. ordMutex' # Main
    BY <1>1, <1>2 DEF Main, Free
  <2>3. QED
    BY <1>1, <1>2, <2>1, <2>2 DEF Mutexes
<1>12. Identity'
  <2>1. Len(registry) \in Nat
    BY DEF TypeOK
  <2>2. ASSUME NEW v \in Workers
        PROVE  thrd[v] = v => v <= Len(registry')
    BY <1>1, <1>6, <2>1 DEF Identity, Workers
  <2>3. QED
    BY <1>2, <1>4, <1>5, <2>2 DEF Identity, Served, Knows
<1>13. Seeding' /\ Attribution'
  BY <1>1, <1>2, AttributionFrame DEF Seeding, Seeded, ReplaySeeds
<1>14. Progress'
  BY <1>2, <1>4, <1>5 DEF Progress, Served, Executing
<1>15. Outcome'
  <2>1. \A v \in Workers : Stored(v)' = Stored(v) /\ Labelled(v)' = Labelled(v)
    BY <1>2, <1>4, <1>5 DEF Stored, Labelled, Executing
  <2>2. QED
    BY <1>2, <2>1, OutcomeFrame DEF Preparing
<1>16. QED
  BY <1>6, <1>7, <1>8, <1>9, <1>10, <1>11, <1>12, <1>13, <1>14, <1>15

\* The next thread, or the first one to join.
LEMMA SpawnReturnPreserves ==
    ASSUME IInv, SpawnReturn
    PROVE  IInv'
<1> USE DEF IInv
<1>1. /\ mi \in Nat /\ mi < NThreads /\ NThreads \in Nat \ {0, 1} /\ seedOrd = 0 /\ mpc = "created"
      /\ status = "running"
  BY BatteryAssumption DEF SpawnReturn, At, Control, TypeOK
<1>2. /\ \/ mi + 1 = NThreads /\ mpc' = "join" /\ mi' = 0
         \/ mi + 1 # NThreads /\ mpc' = "spawn" /\ mi' = mi + 1
      /\ UNCHANGED <<status, seedOrd, inds, slog, queues, registry, ordMutex, seedMutex,
                     printfMutex, wpc, prt, thrd, cur, draws, results>>
  BY DEF SpawnReturn, mutexes, workerVars
<1>3. TypeOK'
  BY <1>1, <1>2 DEF TypeOK, MainLabels
<1>4. Control'
  BY <1>1, <1>2 DEF Control
<1>5. /\ Started' = Started /\ Joined' = Joined /\ Entered' = Entered
      /\ CrossedOut' = CrossedOut /\ DealtTo' = DealtTo
  BY <1>1, <1>2 DEF Started, Joined, Entered, CrossedOut, DealtTo, Preparing
<1>6. Life' /\ Table' /\ Mutexes' /\ Dealt'
  BY <1>1, <1>2, <1>5, LifeMainFrame, TableMainFrame, MutexesMainFrame, DealtMainFrame DEF mutexes
<1>7. Identity' /\ Shuffled' /\ Progress' /\ Outcome'
  BY <1>1, <1>2, IdentityFrame, ShuffledFrame, WorkerFrame DEF Preparing
<1>8. Seeding' /\ Attribution'
  BY <1>1, <1>2, AttributionFrame DEF Seeding, Seeded, ReplaySeeds
<1>9. QED
  BY <1>3, <1>4, <1>6, <1>7, <1>8

(***************************************************************************)
(* The end of the run.                                                     *)
(***************************************************************************)
LEMMA WaitJoinPreserves ==
    ASSUME IInv, WaitJoin
    PROVE  IInv'
<1> USE DEF IInv
<1>1. /\ mi \in Nat /\ mi < NThreads /\ NThreads \in Nat \ {0, 1} /\ seedOrd = 0 /\ mpc = "join"
      /\ status = "running" /\ wpc[mi + 1] = "ended"
  BY BatteryAssumption DEF WaitJoin, At, Control, TypeOK
<1>2. /\ mpc' = "forget"
      /\ UNCHANGED <<status, mi, seedOrd, inds, slog, queues, registry, ordMutex, seedMutex,
                     printfMutex, wpc, prt, thrd, cur, draws, results>>
  BY DEF WaitJoin, mutexes, workerVars
<1>3. TypeOK'
  BY <1>2 DEF TypeOK, MainLabels
<1>4. Control'
  BY <1>1, <1>2 DEF Control
<1>5. /\ Started' = Started /\ Joined = mi /\ Joined' = mi + 1 /\ Entered' = Entered
      /\ CrossedOut' = CrossedOut /\ DealtTo' = DealtTo
  BY <1>1, <1>2 DEF Started, Joined, Entered, CrossedOut, DealtTo, Preparing
<1>6. Life'
  <2>1. ASSUME NEW v \in Workers, v <= mi + 1
        PROVE  wpc'[v] = "ended"
    <3>1. v <= mi \/ v = mi + 1
      BY <1>1, <2>1 DEF Workers
    <3>2. QED
      BY <1>1, <1>2, <1>5, <3>1 DEF Life
  <2>2. QED
    BY <1>2, <1>5, <2>1 DEF Life
<1>7. Table' /\ Mutexes' /\ Dealt'
  BY <1>1, <1>2, <1>5, TableMainFrame, MutexesMainFrame, DealtMainFrame DEF mutexes
<1>8. Identity' /\ Shuffled' /\ Progress' /\ Outcome'
  BY <1>1, <1>2, IdentityFrame, ShuffledFrame, WorkerFrame DEF Preparing
<1>9. Seeding' /\ Attribution'
  BY <1>1, <1>2, AttributionFrame DEF Seeding, Seeded, ReplaySeeds
<1>10. QED
  BY <1>3, <1>4, <1>6, <1>7, <1>8, <1>9

(***************************************************************************)
(* Crossing out the entry of the next thread.                              *)
(***************************************************************************)
LEMMA ForgetKeepsTable ==
    ASSUME TypeOK, Table, NEW w \in Workers, Entered' = Entered,
           CrossedOut \in Nat, w = CrossedOut + 1, CrossedOut' = CrossedOut + 1,
           registry' = Forget(registry, w)
    PROVE  /\ Table'
           /\ registry' \in Seq([id : Workers, ord : Workers, exists : BOOLEAN])
           /\ Len(registry') = Len(registry)
<1> DEFINE R == [id : Workers, ord : Workers, exists : BOOLEAN]
<1>1. registry \in Seq(R)
  BY DEF TypeOK
<1>2. registry' \in Seq(R)
  BY <1>1, ForgetInSeq
<1>3. Len(registry') = Len(registry)
  <2> HIDE DEF R
  <2>1. QED
    BY <1>1, ForgetLen
<1>4. ASSUME NEW k \in 1 .. Len(registry)
      PROVE  /\ registry'[k].id = k /\ registry'[k].ord = k
             /\ registry'[k].exists <=> k > CrossedOut + 1
  <2>1. k \in DOMAIN registry /\ registry[k] \in R /\ k \in Nat
    <3> HIDE DEF R
    <3>1. QED
      BY <1>1
  <2>2. registry'[k] = IF registry[k].id = w /\ registry[k].exists
                       THEN [registry[k] EXCEPT !.exists = FALSE] ELSE registry[k]
    BY <2>1, ForgetEntry
  <2>3. registry[k].id = k /\ registry[k].ord = k /\ (registry[k].exists <=> k > CrossedOut)
    BY DEF Table
  <2>4. QED
    BY <2>1, <2>2, <2>3
<1>5. QED
  BY <1>2, <1>3, <1>4 DEF Table

\* Threads are crossed out in the order in which they were entered.
LEMMA WaitForgetPreserves ==
    ASSUME IInv, WaitForget
    PROVE  IInv'
<1> USE DEF IInv
<1>0. PICK w \in Workers : w = mi + 1
  BY BatteryAssumption DEF WaitForget, At, Control, TypeOK, Workers
<1>1. /\ mi \in Nat /\ mi < NThreads /\ NThreads \in Nat \ {0, 1} /\ seedOrd = 0 /\ mpc = "forget"
      /\ status = "running"
  BY BatteryAssumption DEF WaitForget, At, Control, TypeOK
<1>2. /\ \/ mi + 1 = NThreads /\ mpc' = "destruct" /\ mi' = 0
         \/ mi + 1 # NThreads /\ mpc' = "join" /\ mi' = mi + 1
      /\ registry' = Forget(registry, w)
      /\ UNCHANGED <<status, seedOrd, inds, slog, queues, ordMutex, seedMutex,
                     printfMutex, wpc, prt, thrd, cur, draws, results>>
  BY <1>0 DEF WaitForget, StoredId, mutexes, workerVars
<1>3. /\ Started' = Started /\ Joined' = Joined /\ Entered' = Entered
      /\ CrossedOut = mi /\ CrossedOut' = mi + 1 /\ DealtTo' = DealtTo
  BY <1>1, <1>2 DEF Started, Joined, Entered, CrossedOut, DealtTo, Preparing
<1>4. /\ Table' /\ registry' \in Seq([id : Workers, ord : Workers, exists : BOOLEAN])
      /\ Len(registry') = Len(registry)
  BY <1>0, <1>1, <1>2, <1>3, ForgetKeepsTable
<1>5. TypeOK'
  BY <1>1, <1>2, <1>4 DEF TypeOK, MainLabels
<1>6. Control'
  BY <1>1, <1>2 DEF Control
<1>7. Life' /\ Mutexes' /\ Dealt'
  BY <1>1, <1>2, <1>3, LifeMainFrame, MutexesMainFrame, DealtMainFrame DEF mutexes
<1>8. Identity'
  BY <1>2, <1>4 DEF Identity, Knows
<1>9. Shuffled' /\ Progress' /\ Outcome'
  BY <1>1, <1>2, ShuffledFrame, WorkerFrame DEF Preparing
<1>10. Seeding' /\ Attribution'
  BY <1>1, <1>2, AttributionFrame DEF Seeding, Seeded, ReplaySeeds
<1>11. QED
  BY <1>4, <1>5, <1>6, <1>7, <1>8, <1>9, <1>10

\* The queues are destroyed when every worker has ended.
LEMMA DestructDispatcherPreserves ==
    ASSUME IInv, DestructDispatcher
    PROVE  IInv'
<1> USE DEF IInv
<1>1. /\ mpc = "destruct" /\ status = "running" /\ mpc' = "report"
      /\ queues' = [w \in Workers |-> [queues[w] EXCEPT !.allocated = FALSE]]
      /\ UNCHANGED <<status, mi, seedOrd, inds, slog, registry, ordMutex, seedMutex,
                     printfMutex, wpc, prt, thrd, cur, draws, results>>
  BY DEF DestructDispatcher, At, mutexes, workerVars
<1>2. queues \in [Workers -> Queue]
  BY DEF TypeOK
<1>3. \A w \in Workers : /\ queues'[w].tests = queues[w].tests
                         /\ queues'[w].front = queues[w].front
                         /\ queues'[w].seeds = queues[w].seeds
                         /\ queues'[w].served = queues[w].served
  BY <1>1, <1>2 DEF Queue
<1>4. TypeOK'
  <2>1. ASSUME NEW w \in Workers
        PROVE  [queues[w] EXCEPT !.allocated = FALSE] \in Queue
    <3>1. queues[w] \in Queue
      BY <1>2
    <3>2. QED
      BY <3>1 DEF Queue
  <2>2. queues' \in [Workers -> Queue]
    BY <1>1, <2>1
  <2>3. QED
    BY <1>1, <2>2 DEF TypeOK, MainLabels
<1>5. Control'
  BY <1>1 DEF Control
<1>6. /\ Started' = Started /\ Joined' = Joined /\ Entered' = Entered
      /\ CrossedOut' = CrossedOut /\ DealtTo' = DealtTo
  BY <1>1 DEF Started, Joined, Entered, CrossedOut, DealtTo, Preparing
<1>7. Life' /\ Table' /\ Mutexes' /\ Dealt'
  BY <1>1, <1>3, <1>6, LifeMainFrame, TableMainFrame, MutexesMainFrame, DealtMainFrame DEF mutexes
<1>8. Identity' /\ Shuffled' /\ Progress' /\ Outcome'
  BY <1>1, <1>3, IdentityFrame, ShuffledFrame, WorkerFrame DEF Preparing
<1>9. Seeding' /\ Attribution'
  BY <1>1, <1>3, AttributionFrame DEF Seeding, Seeded, ReplaySeeds
<1>10. QED
  BY <1>4, <1>5, <1>7, <1>8, <1>9

\* The report changes nothing but the status.
LEMMA PrintReportPreserves ==
    ASSUME IInv, PrintReport
    PROVE  IInv'
<1> USE DEF IInv
<1>1. /\ mpc = "report" /\ status' = "reported"
      /\ UNCHANGED <<mpc, mi, seedOrd, inds, slog, queues, registry, ordMutex, seedMutex,
                     printfMutex, wpc, prt, thrd, cur, draws, results>>
  BY DEF PrintReport, At, mainVars, mutexes, workerVars
<1>2. TypeOK' /\ Control' /\ Mutexes' /\ Seeding'
  BY <1>1 DEF TypeOK, Statuses, Control, Mutexes, Seeding, Seeded, ReplaySeeds
<1>3. Life' /\ Table' /\ Identity' /\ Attribution' /\ Shuffled' /\ Dealt' /\ Progress' /\ Outcome'
  BY <1>1, LifeFrame, TableFrame, IdentityFrame, AttributionFrame, ShuffledFrame, DealtFrame,
     WorkerFrame
<1>4. QED
  BY <1>2, <1>3

\* Nor does the end of the process.
LEMMA ExitPreserves ==
    ASSUME IInv, Exit
    PROVE  IInv'
<1> USE DEF IInv
<1>1. /\ status = "running" /\ status' = "exit_failure"
      /\ UNCHANGED <<mpc, mi, seedOrd, inds, slog, queues, registry, ordMutex, seedMutex,
                     printfMutex, wpc, prt, thrd, cur, draws, results>>
  BY DEF Exit, mainVars, mutexes, workerVars
<1>2. TypeOK' /\ Control' /\ Mutexes' /\ Seeding'
  BY <1>1 DEF TypeOK, Statuses, Control, Mutexes, Seeding, Seeded, ReplaySeeds
<1>3. Life' /\ Table' /\ Identity' /\ Attribution' /\ Shuffled' /\ Dealt' /\ Progress' /\ Outcome'
  BY <1>1, LifeFrame, TableFrame, IdentityFrame, AttributionFrame, ShuffledFrame, DealtFrame,
     WorkerFrame
<1>4. QED
  BY <1>2, <1>3

\* Every step preserves the invariant.
LEMMA NextPreserves == IInv /\ [Next]_vars => IInv'
BY CheckSizePreserves, CreateQueuePreserves, SeedShufflePreserves, ShuffleSwapPreserves,
   AssignTestPreserves, SpawnLockPreserves, SpawnThreadPreserves, SpawnFailsPreserves,
   SpawnRegisterPreserves, SpawnReturnPreserves, WaitJoinPreserves, WaitForgetPreserves,
   DestructDispatcherPreserves, PrintReportPreserves, WorkerPreserves, ExitPreserves,
   StutterPreserves
   DEF Next, MainThread, Ended

(***************************************************************************)
(* The inductive invariant holds in every run.                             *)
(***************************************************************************)
THEOREM Invariance == Spec => []IInv
<1>1. Init => IInv
  BY InitIInv
<1>2. IInv /\ [Next]_vars => IInv'
  BY NextPreserves
<1>3. QED
  BY <1>1, <1>2, PTL DEF Spec

-----------------------------------------------------------------------------
(***************************************************************************)
(* What the invariant says of a run: the properties that TLC checks on     *)
(* small instances, for every number of threads, tests, seeds and table    *)
(* entries.                                                                *)
(***************************************************************************)

(***************************************************************************)
(* Type correctness: ordinals and identifiers of threads and tests stay in *)
(* their ranges, and a mutex always has at most one known owner.           *)
(***************************************************************************)
THEOREM TypeCorrect == Spec => []TypeOK
<1>1. IInv => TypeOK
  BY DEF IInv
<1>2. QED
  BY <1>1, Invariance, PTL

(***************************************************************************)
(* Queues and generators are there as long as a worker runs: the run       *)
(* destroys them only after every thread has been joined.                  *)
(***************************************************************************)
THEOREM QueuesOutliveWorkers == Spec => []NoUseAfterFree
<1>1. IInv => NoUseAfterFree
  <2> SUFFICES ASSUME IInv, NEW w \in Workers, Alive(w)
               PROVE  queues[w].allocated
    BY DEF NoUseAfterFree
  <2> USE DEF IInv
  <2>1. mpc \notin Preparing /\ w > Joined
    BY AliveIsStarted DEF Alive
  <2>2. mpc # "report"
    <3>1. mpc = "report" => Joined = NThreads
      BY DEF Joined
    <3>2. QED
      BY <2>1, <3>1, BatteryAssumption DEF Workers
  <2>3. QED
    BY <2>1, <2>2 DEF Seeding, Seeded, Preparing
<1>2. QED
  BY <1>1, Invariance, PTL

(***************************************************************************)
(* Two workers that execute a test execute different ones: the unlocked    *)
(* array of results has one writer per slot.                               *)
(***************************************************************************)
THEOREM OneWriterPerSlot == Spec => []SlotsAreDisjoint
<1>1. IInv => SlotsAreDisjoint
  <2> SUFFICES ASSUME IInv, NEW v \in Workers, NEW w \in Workers,
                      Executing(v), Executing(w), cur[v] = cur[w]
               PROVE  v = w
    BY DEF SlotsAreDisjoint
  <2>1. PICK m \in 1 .. Len(queues[v].tests) : cur[v] = queues[v].tests[m].ind
    BY ExecutingIs
  <2>2. PICK n \in 1 .. Len(queues[w].tests) : cur[w] = queues[w].tests[n].ind
    BY ExecutingIs
  <2>3. TypeOK /\ Control /\ Shuffled /\ Dealt
    BY DEF IInv
  <2>4. queues[v].tests[m].ind = queues[w].tests[n].ind
    BY <2>1, <2>2
  <2>5. QED
    BY <2>3, <2>4, PlacesDiffer
<1>2. QED
  BY <1>1, Invariance, PTL

(***************************************************************************)
(* In a build with threads, and with room for all of them in the table, a  *)
(* worker that has asked for its ordinal has got its own: ThreadObj_create *)
(* keeps thread_ord_mutex until the entry is there.                        *)
(***************************************************************************)
THEOREM WorkersKnowThemselves ==
    ASSUME Threading = "pthreads", NThreads <= NTHREADS_MAX
    PROVE  Spec => []WorkerFindsItself
<1>1. IInv => WorkerFindsItself
  BY DEF IInv, Identity, WorkerFindsItself
<1>2. QED
  BY <1>1, Invariance, PTL

(***************************************************************************)
(* In any build, and however small the table, a worker never takes the     *)
(* ordinal of another one: it finds its own or none at all.                *)
(***************************************************************************)
NobodyElse == \A w \in Workers : thrd[w] \in {THREAD_ORD_UNKNOWN, w}

\* No worker ever works under the ordinal of another.
THEOREM NobodyIsMistaken == Spec => []NobodyElse
<1>1. IInv => NobodyElse
  BY DEF IInv, Identity, NobodyElse
<1>2. QED
  BY <1>1, Invariance, PTL

(***************************************************************************)
(* Every seed has one consumer, the one the log names, even when the tests *)
(* of several workers draw seeds at the same time.                         *)
(***************************************************************************)
THEOREM SeedsHaveOneConsumer == Spec => []SeedsAreAttributed
<1>1. IInv => SeedsAreAttributed
  <2> SUFFICES ASSUME IInv PROVE SeedsAreAttributed
    OBVIOUS
  <2>1. \A w \in Workers : \A k \in SeedsOf(w) : slog[k] = w
    BY DEF IInv, Attribution
  <2>2. \A v, w \in Workers : v # w => SeedsOf(v) \cap SeedsOf(w) = {}
    BY <2>1
  <2>3. QED
    BY <2>1, <2>2 DEF SeedsAreAttributed
<1>2. QED
  BY <1>1, Invariance, PTL

-----------------------------------------------------------------------------
(***************************************************************************)
(* The test at position k of the shuffled indexes is dealt as number k + 1 *)
(* and DealtAt finds k again.  Before it has been dealt, it has no result. *)
(***************************************************************************)
LEMMA PositionOf ==
    ASSUME IInv, NEW t \in Tests
    PROVE  \E k \in Tests : inds[k] = t /\ DealtAt(t) = k
<1>1. PICK k \in Tests : inds[k] = t
  BY DEF IInv, Shuffled
<1>2. \A i \in Tests : inds[i] = t => i = k
  BY <1>1 DEF IInv, Shuffled
<1>3. DealtAt(t) = k
  BY <1>1, <1>2 DEF DealtAt
<1>4. QED
  BY <1>1, <1>3

\* Its place in the queues, once all tests have been dealt.
LEMMA SlotOf ==
    ASSUME IInv, mpc \notin Preparing, NEW k \in Tests
    PROVE  /\ k + 1 \in Nat \ {0}
           /\ QueueOf(k + 1) \in Workers
           /\ PlaceOf(k + 1) \in 1 .. Len(queues[QueueOf(k + 1)].tests)
           /\ queues[QueueOf(k + 1)].tests[PlaceOf(k + 1)].ord = k + 1
           /\ queues[QueueOf(k + 1)].tests[PlaceOf(k + 1)].ind = inds[k]
<1> DEFINE n == k + 1
<1>1. n \in 1 .. DealtTo /\ n \in Nat \ {0} /\ n - 1 = k
  <2>1. DealtTo = NTests
    BY DEF DealtTo, Preparing
  <2>2. QED
    BY <2>1, BatteryAssumption DEF Tests
<1> HIDE DEF n
<1>2. QueueOf(n) \in Workers
  BY <1>1, PlaceType
<1>3. /\ PlaceOf(n) \in 1 .. Len(queues[QueueOf(n)].tests)
      /\ queues[QueueOf(n)].tests[PlaceOf(n)].ord = n
  BY <1>1 DEF IInv, Dealt
<1>4. queues[QueueOf(n)].tests[PlaceOf(n)].ind = inds[n - 1]
  BY <1>2, <1>3 DEF IInv, Dealt
<1>5. QED
  BY <1>1, <1>2, <1>3, <1>4 DEF n

(***************************************************************************)
(* When the main thread comes to the report every worker has ended and has *)
(* labelled every test of its queue.                                       *)
(***************************************************************************)
LEMMA ReadyToReport ==
    ASSUME IInv, mpc = "report"
    PROVE  /\ \A w \in Workers : wpc[w] = "ended"
           /\ \A t \in Tests : /\ results[t].p # <<>>
                               /\ results[t].id = t + 1
                               /\ results[t].thread = Replay(t).thread
<1> USE DEF IInv
<1>1. mpc \notin Preparing
  BY DEF Preparing
<1>2. \A w \in Workers : wpc[w] = "ended"
  <2>1. Joined = NThreads
    BY DEF Joined
  <2>2. QED
    BY <2>1, BatteryAssumption DEF Life, Workers
<1>3. \A w \in Workers : /\ Stored(w) = Len(queues[w].tests)
                         /\ Labelled(w) = Len(queues[w].tests)
  BY <1>2 DEF Progress, Stored, Labelled, Executing
<1>4. ASSUME NEW t \in Tests
      PROVE  /\ results[t].p # <<>> /\ results[t].id = t + 1
             /\ results[t].thread = Replay(t).thread
  <2>1. PICK k \in Tests : inds[k] = t /\ DealtAt(t) = k
    BY PositionOf
  <2>2. PICK w \in Workers : w = QueueOf(k + 1)
    BY <1>1, SlotOf
  <2>3. PICK m \in 1 .. Len(queues[w].tests) : m = PlaceOf(k + 1) /\ queues[w].tests[m].ind = t
    BY <1>1, <2>1, <2>2, SlotOf
  <2>4. Len(queues[w].tests) \in Nat
    BY QueueType
  <2>5. ~(m > Stored(w)) /\ m <= Labelled(w)
    BY <1>3, <2>4
  <2>6. PICK d \in Seq(Nat) : results[t] = Result(w, m, d)
    BY <2>3, <2>5 DEF Outcome
  <2>7. results[t].thread = w /\ results[t].id = t + 1
        /\ results[t].p = <<t, queues[w].seeds, FirstOf(w, m - 1), d>>
    BY <2>3, <2>5, <2>6 DEF Result
  <2>8. Replay(t).thread = w
    BY <2>1, <2>2 DEF Replay, QueueOf
  <2>9. QED
    BY <2>7, <2>8
<1>5. QED
  BY <1>2, <1>4

(***************************************************************************)
(* The report has a result for every test, labelled with the test and the  *)
(* worker it was dealt to, and the mutexes are free when it is printed.    *)
(***************************************************************************)
THEOREM ReportsAreComplete == Spec => []ReportIsComplete
<1>1. IInv => ReportIsComplete
  <2> SUFFICES ASSUME IInv, status = "reported"
               PROVE  /\ \A t \in Tests : /\ results[t].p # <<>>
                                           /\ results[t].id = t + 1
                                           /\ results[t].thread = Replay(t).thread
                      /\ \A m \in {ordMutex, seedMutex, printfMutex} : m = Free
    BY DEF ReportIsComplete
  <2> USE DEF IInv
  <2>1. mpc = "report"
    BY DEF Control
  <2>2. \A w \in Workers : wpc[w] = "ended"
    BY <2>1, ReadyToReport
  <2>3. ordMutex = Free
    BY <2>1 DEF Mutexes
  <2>4. seedMutex = Free
    BY <2>2, BatteryAssumption DEF Mutexes, TypeOK, Owners, Main, Free, Workers
  <2>5. printfMutex = Free
    BY <2>2, BatteryAssumption DEF Mutexes, Identity, TypeOK, Owners, Main, Free, Workers
  <2>6. QED
    BY <2>1, <2>3, <2>4, <2>5, ReadyToReport
<1>2. QED
  BY <1>1, Invariance, PTL

(***************************************************************************)
(* The tests a worker has served before place m of its queue are those of  *)
(* the replay, NThreads positions apart in the shuffled order.             *)
(***************************************************************************)
LEMMA ServedIsReplay ==
    ASSUME IInv, mpc \notin Preparing, NEW k \in Tests,
           NEW w \in Workers, w = QueueOf(k + 1),
           NEW m \in 1 .. Len(queues[w].tests), m = PlaceOf(k + 1)
    PROVE  FirstOf(w, m - 1) = ReplayServed(k)
<1>1. /\ k \in Nat /\ NThreads \in Nat \ {0} /\ m - 1 = k \div NThreads
      /\ Len(queues[w].tests) \in Nat
  <2>1. k \in Nat /\ NThreads \in Nat \ {0}
    BY BatteryAssumption DEF Tests
  <2>2. k \div NThreads \in Nat /\ (k + 1) - 1 = k
    <3>1. PICK q \in Nat, r \in 0 .. NThreads - 1 : k \div NThreads = q
      BY <2>1, DivModOf
    <3>2. QED
      BY <2>1, <3>1
  <2>3. m = (k \div NThreads) + 1
    BY <2>2 DEF PlaceOf
  <2>4. Len(queues[w].tests) \in Nat
    BY QueueType DEF IInv
  <2>5. QED
    BY <2>1, <2>2, <2>3, <2>4
<1>2. ASSUME NEW j \in 1 .. m - 1
      PROVE  queues[w].tests[j].ind = inds[(k % NThreads) + (j - 1) * NThreads]
  <2>1. PICK q \in Nat, r \in 0 .. NThreads - 1 :
            k = q * NThreads + r /\ k \div NThreads = q /\ k % NThreads = r
    BY <1>1, DivModOf
  <2>2. PICK i \in Nat : i = (j - 1) * NThreads + r
    BY <1>1
  <2>3. i \div NThreads = j - 1 /\ i % NThreads = r
    BY <1>1, <2>2, DivModIs, j - 1 \in Nat
  <2>4. PlaceOf(i + 1) = j
    BY <1>1, <2>2, <2>3 DEF PlaceOf
  <2>5. QueueOf(i + 1) = w
    <3>1. \A a \in Nat : (a + 1) % NThreads =
              IF a % NThreads = NThreads - 1 THEN 0 ELSE (a % NThreads) + 1
      BY <1>1, DivModNext
    <3>2. (i + 1) % NThreads = (k + 1) % NThreads
      <4>1. i \in Nat /\ k \in Nat /\ i % NThreads = k % NThreads
        BY <1>1, <2>1, <2>3
      <4>2. QED
        BY <3>1, <4>1
    <3>3. QED
      BY <3>2 DEF QueueOf
  <2>6. j \in 1 .. Len(queues[w].tests)
    BY <1>1
  <2>7. PICK o \in Nat \ {0} : /\ o = queues[w].tests[j].ord
                               /\ w = QueueOf(o) /\ j = PlaceOf(o)
                               /\ queues[w].tests[j].ind = inds[o - 1]
    <3> DEFINE n == queues[w].tests[j].ord
    <3>1. n \in 1 .. DealtTo /\ w = QueueOf(n) /\ j = PlaceOf(n)
          /\ queues[w].tests[j].ind = inds[n - 1]
      BY <2>6 DEF IInv, Dealt
    <3> HIDE DEF n
    <3>2. n \in Nat \ {0}
      BY <3>1, DealtToType DEF IInv
    <3>3. QED
      BY <3>1, <3>2 DEF n
  <2>8. o = i + 1
    <3>1. PICK n \in Nat \ {0} : n = i + 1
      OBVIOUS
    <3>2. QueueOf(n) = QueueOf(o) /\ PlaceOf(n) = PlaceOf(o)
      BY <2>4, <2>5, <2>7, <3>1
    <3>3. QED
      BY <2>7, <3>1, <3>2, PlaceIsUnique
  <2>9. o - 1 = (k % NThreads) + (j - 1) * NThreads
    <3>1. (j - 1) * NThreads \in Nat
      BY <1>1
    <3>2. QED
      BY <2>1, <2>2, <2>8, <3>1
  <2>10. QED
    BY <2>7, <2>9
<1>3. QED
  BY <1>1, <1>2 DEF FirstOf, ReplayServed

(***************************************************************************)
(* Reproducible results: when the generator draws no seeds while it is     *)
(* tested, what a test returns depends on the shuffled order alone, not on *)
(* the scheduler.  (The run "reproduce" shows that the condition is needed.)*)
(***************************************************************************)
THEOREM ResultsAreReproducible ==
    ASSUME SeedsPerTest = 0
    PROVE  Spec => []ReproducibleResults
<1>1. IInv /\ ReportIsComplete => ReproducibleResults
  <2> SUFFICES ASSUME IInv, ReportIsComplete, NEW t \in Tests,
                      results[t].id # 0 \/ status = "reported"
               PROVE  results[t] = Replay(t)
    BY DEF ReproducibleResults
  <2> USE DEF IInv
  <2>1. results[t].id # 0
    BY DEF ReportIsComplete, Tests
  <2>2. mpc \notin Preparing
    BY <2>1 DEF Outcome, None
  <2>3. PICK k \in Tests : inds[k] = t /\ DealtAt(t) = k
    BY PositionOf
  <2>4. PICK w \in Workers : w = QueueOf(k + 1)
    BY <2>2, SlotOf
  <2>5. PICK m \in 1 .. Len(queues[w].tests) : m = PlaceOf(k + 1) /\ queues[w].tests[m].ind = t
    BY <2>2, <2>3, <2>4, SlotOf
  <2>6. ~(m > Stored(w))
    BY <2>1, <2>5 DEF Outcome, None
  <2>7. PICK d \in Seq(Nat) : Len(d) = SeedsPerTest /\ results[t] = Result(w, m, d)
    BY <2>5, <2>6 DEF Outcome
  <2>8. d = <<>> /\ ReplayDraws(k) = <<>>
    BY <2>7 DEF ReplayDraws
  <2>9. m <= Labelled(w)
    BY <2>1, <2>7 DEF Result
  <2>10. queues[w].seeds = ReplaySeeds(w)
    BY <2>2 DEF Seeding, Seeded, Preparing
  <2>11. FirstOf(w, m - 1) = ReplayServed(k)
    BY <2>2, <2>4, <2>5, ServedIsReplay
  <2>12. results[t] = [thread |-> w, id |-> t + 1,
                       p |-> <<t, ReplaySeeds(w), ReplayServed(k), <<>>>>]
    BY <2>5, <2>7, <2>8, <2>9, <2>10, <2>11 DEF Result
  <2>13. Replay(t) = [thread |-> w, id |-> t + 1,
                      p |-> <<t, ReplaySeeds(w), ReplayServed(k), <<>>>>]
    BY <2>3, <2>4, <2>8 DEF Replay, QueueOf
  <2>14. QED
    BY <2>12, <2>13
<1>2. QED
  BY <1>1, Invariance, ReportsAreComplete, PTL

-----------------------------------------------------------------------------
(***************************************************************************)
(* A worker stores into an empty slot and labels a result without a label. *)
(***************************************************************************)
LEMMA SlotBeforeStore ==
    ASSUME IInv, NEW w \in Workers, wpc[w] \in {"run", "seed"}
    PROVE  results[cur[w]] = None
<1> USE DEF IInv
<1>1. PICK m \in 1 .. Len(queues[w].tests) :
          m = queues[w].front /\ cur[w] = queues[w].tests[m].ind
  BY ExecutingIs DEF Executing
<1>2. m > Stored(w)
  BY <1>1, QueueType DEF Stored
<1>3. QED
  BY <1>1, <1>2 DEF Outcome

\* It has labelled none of the tests behind those it has stored.
LEMMA SlotBeforeLabel ==
    ASSUME IInv, NEW w \in Workers, wpc[w] = "label"
    PROVE  results[cur[w]].id = 0
<1> USE DEF IInv
<1>1. PICK m \in 1 .. Len(queues[w].tests) :
          m = queues[w].front /\ cur[w] = queues[w].tests[m].ind
  BY ExecutingIs DEF Executing
<1>2. ~(m > Stored(w)) /\ ~(m <= Labelled(w))
  BY <1>1, QueueType DEF Stored, Labelled, Executing
<1>3. PICK d \in Seq(Nat) : results[cur[w]] = Result(w, m, d)
  BY <1>1, <1>2 DEF Outcome
<1>4. QED
  BY <1>2, <1>3 DEF Result

(***************************************************************************)
(* Only these two steps of a worker touch the results.                     *)
(***************************************************************************)
LEMMA WhoWritesResults ==
    ASSUME [Next]_vars
    PROVE  \/ UNCHANGED results
           \/ \E w \in Workers : StoreResult(w) \/ LabelResult(w)
BY DEF Next, MainThread, CheckSize, CreateQueue, SeedShuffle, ShuffleSwap, AssignTest, SpawnLock,
       SpawnThread, SpawnFails, SpawnRegister, SpawnReturn, WaitJoin, WaitForget,
       DestructDispatcher, PrintReport, Worker, ThreadWrapper, BatteryThreadStart, PrintWho,
       PrintLock, PrintUnlock, FindQueue, PopFront, SeedLock, SeedDraw, BatteryThreadReturn,
       Exit, Ended, vars

(***************************************************************************)
(* No step overwrites a stored result or a label.                          *)
(***************************************************************************)
THEOREM StoredResultsStay == Spec => ResultsAreFinal
<1> DEFINE Final == \A t \in Tests :
                        /\ results[t].p # <<>> => results'[t].p = results[t].p
                        /\ results[t].id # 0 => results'[t] = results[t]
<1>1. IInv /\ [Next]_vars => [Final]_vars
  <2> SUFFICES ASSUME IInv, [Next]_vars, NEW t \in Tests
               PROVE  /\ results[t].p # <<>> => results'[t].p = results[t].p
                      /\ results[t].id # 0 => results'[t] = results[t]
    OBVIOUS
  <2>1. results \in [Tests -> [thread : 0 .. NThreads, id : 0 .. NTests, p : PValue]]
    BY DEF IInv, TypeOK
  <2>2. CASE UNCHANGED results
    BY <2>2
  <2>3. ASSUME NEW w \in Workers, StoreResult(w)
        PROVE  t # cur[w] => results'[t] = results[t]
    BY <2>1, <2>3 DEF StoreResult
  <2>4. ASSUME NEW w \in Workers, StoreResult(w)
        PROVE  results[cur[w]].p = <<>> /\ results[cur[w]].id = 0
    BY <2>4, SlotBeforeStore DEF StoreResult, WorkerAt, None
  <2>5. ASSUME NEW w \in Workers, LabelResult(w)
        PROVE  /\ t # cur[w] => results'[t] = results[t]
               /\ results'[t].p = results[t].p
    BY <2>1, <2>5 DEF LabelResult
  <2>6. ASSUME NEW w \in Workers, LabelResult(w)
        PROVE  results[cur[w]].id = 0
    BY <2>6, SlotBeforeLabel DEF LabelResult, WorkerAt
  <2>7. QED
    BY <2>2, <2>3, <2>4, <2>5, <2>6, WhoWritesResults
<1>2. QED
  BY <1>1, Invariance, PTL DEF Spec, ResultsAreFinal

-----------------------------------------------------------------------------
(***************************************************************************)
(* The refinement: a test is taken by the worker in whose queue it lies    *)
(* before the front, and by no other.                                      *)
(***************************************************************************)
OneOf(S) == IF S = {} THEN 0 ELSE CHOOSE w \in S : TRUE
RunnerOf == [t \in Tests |-> OneOf(TakenBy(t))]
CompleteOf == {t \in Tests : results[t].id # 0}
PhaseOf == IF status = "running" THEN "open"
           ELSE IF status = "reported" THEN "reported" ELSE "failed"

\* Nobody else takes it.
LEMMA TakenByOne ==
    ASSUME IInv, NEW t \in Tests, NEW v \in TakenBy(t), NEW w \in TakenBy(t)
    PROVE  v = w
<1>0. ASSUME NEW u \in TakenBy(t)
      PROVE  u \in Workers /\ \E m \in 1 .. Len(queues[u].tests) : queues[u].tests[m].ind = t
  <2>1. u \in Workers /\ \E m \in 1 .. queues[u].front : queues[u].tests[m].ind = t
    BY DEF TakenBy
  <2>2. /\ queues[u].front \in Nat /\ Len(queues[u].tests) \in Nat
        /\ queues[u].front <= Len(queues[u].tests)
    BY <2>1, QueueType DEF IInv, Progress
  <2>3. QED
    BY <2>1, <2>2
<1>1. PICK m \in 1 .. Len(queues[v].tests) : v \in Workers /\ queues[v].tests[m].ind = t
  BY <1>0
<1>2. PICK n \in 1 .. Len(queues[w].tests) : w \in Workers /\ queues[w].tests[n].ind = t
  BY <1>0
<1>3. TypeOK /\ Control /\ Shuffled /\ Dealt
  BY DEF IInv
<1>4. queues[v].tests[m].ind = queues[w].tests[n].ind
  BY <1>1, <1>2
<1>5. QED
  BY <1>1, <1>2, <1>3, <1>4, PlacesDiffer

\* The runner is the one that has taken it.
LEMMA RunnerIs ==
    ASSUME IInv, NEW t \in Tests
    PROVE  /\ RunnerOf[t] = 0 <=> TakenBy(t) = {}
           /\ \A w \in Workers : RunnerOf[t] = w <=> w \in TakenBy(t)
<1>1. TakenBy(t) \subseteq Workers /\ 0 \notin Workers
  BY DEF TakenBy, Workers
<1>2. CASE TakenBy(t) = {}
  <2>1. RunnerOf[t] = 0
    BY <1>2 DEF RunnerOf, OneOf
  <2>2. QED
    BY <1>1, <1>2, <2>1
<1>3. CASE TakenBy(t) # {}
  <2>1. RunnerOf[t] \in TakenBy(t)
    BY <1>3 DEF RunnerOf, OneOf
  <2>2. QED
    BY <1>1, <1>3, <2>1, TakenByOne
<1>4. QED
  BY <1>2, <1>3

(***************************************************************************)
(* A step that takes no test from a queue leaves the runners alone.        *)
(***************************************************************************)
LEMMA RunnerFrame ==
    ASSUME \A w \in Workers :
               /\ queues'[w].front = queues[w].front
               /\ \A k \in 1 .. queues[w].front : queues'[w].tests[k] = queues[w].tests[k]
    PROVE  RunnerOf' = RunnerOf
<1>1. ASSUME NEW t \in Tests
      PROVE  TakenBy(t)' = TakenBy(t)
  BY DEF TakenBy
<1>2. QED
  BY <1>1 DEF RunnerOf

\* At the end of its queue a worker takes nothing ...
LEMMA PopFrontTakes ==
    ASSUME IInv, IInv', NEW w \in Workers, PopFront(w), UNCHANGED queues
    PROVE  UNCHANGED <<RunnerOf, CompleteOf, PhaseOf>>
BY RunnerFrame DEF PopFront, CompleteOf, PhaseOf

\* ... and before the end it takes a test that nobody has taken, all its own being complete.
LEMMA PopFrontTakesNext ==
    ASSUME IInv, IInv', NEW w \in Workers, PopFront(w), queues[w].front # Len(queues[w].tests)
    PROVE  \E t \in Tests :
               /\ PhaseOf = "open"
               /\ RunnerOf[t] = 0
               /\ \A u \in Tests : RunnerOf[u] = w => u \in CompleteOf
               /\ RunnerOf' = [RunnerOf EXCEPT ![t] = w]
               /\ UNCHANGED <<CompleteOf, PhaseOf>>
<1> USE DEF IInv
<1>1. thrd[w] = w /\ wpc[w] = "pop" /\ status = "running"
  BY DEF Identity, Served, PopFront, WorkerAt
<1>2. PICK m \in 1 .. Len(queues[w].tests) : m = queues[w].front + 1
  BY QueueType DEF Progress
<1>3. PICK t \in Tests : t = queues[w].tests[m].ind
  BY TestType
<1>4. queues' = [queues EXCEPT ![w].front = m] /\ UNCHANGED <<results, status>>
  BY <1>1, <1>2 DEF PopFront
<1>5. /\ queues'[w].front = m
      /\ \A v \in Workers : /\ queues'[v].tests = queues[v].tests
                            /\ v # w => queues'[v].front = queues[v].front
  <2>1. queues \in [Workers -> Queue]
    BY DEF TypeOK
  <2>2. queues[w] \in Queue /\ queues'[w] = [queues[w] EXCEPT !.front = m]
    BY <1>4, <2>1
  <2>3. queues'[w].front = m /\ queues'[w].tests = queues[w].tests
    BY <2>2 DEF Queue
  <2>4. \A v \in Workers : v # w => queues'[v] = queues[v]
    BY <1>4, <2>1
  <2>5. QED
    BY <2>3, <2>4
<1>6. \A v \in Workers : queues[v].front \in Nat /\ queues[v].front <= Len(queues[v].tests)
                         /\ Len(queues[v].tests) \in Nat
  BY QueueType DEF Progress
<1>7. TakenBy(t) = {}
  <2> SUFFICES ASSUME NEW v \in Workers, NEW k \in 1 .. queues[v].front,
                      queues[v].tests[k].ind = t
               PROVE  FALSE
    BY DEF TakenBy
  <2>1. k \in 1 .. Len(queues[v].tests)
    BY <1>6
  <2>2. v = w /\ k = m
    BY <1>3, <2>1, PlacesDiffer
  <2>3. QED
    BY <1>2, <1>6, <2>2
<1>8. TakenBy(t)' = {w}
  <2>1. w \in TakenBy(t)'
    BY <1>2, <1>3, <1>5 DEF TakenBy
  <2>2. \A v \in Workers : v # w => v \notin TakenBy(t)'
    BY <1>5, <1>7 DEF TakenBy
  <2>3. QED
    BY <2>1, <2>2 DEF TakenBy
<1>9. ASSUME NEW u \in Tests, u # t
      PROVE  TakenBy(u)' = TakenBy(u)
  <2>1. \A v \in Workers : v # w => (v \in TakenBy(u)' <=> v \in TakenBy(u))
    BY <1>5 DEF TakenBy
  <2>2. w \in TakenBy(u)' <=> w \in TakenBy(u)
    <3>1. \A k \in 1 .. m : k # m <=> k \in 1 .. queues[w].front
      BY <1>2, <1>6
    <3>2. 1 .. queues[w].front \subseteq 1 .. m
      BY <1>2, <1>6
    <3>3. QED
      BY <1>3, <1>5, <1>9, <3>1, <3>2 DEF TakenBy
  <2>3. QED
    BY <2>1, <2>2 DEF TakenBy
<1>10. RunnerOf' = [RunnerOf EXCEPT ![t] = w]
  <2>1. RunnerOf'[t] = w
    BY <1>8 DEF RunnerOf, OneOf
  <2>2. \A u \in Tests : u # t => RunnerOf'[u] = RunnerOf[u]
    BY <1>9 DEF RunnerOf
  <2>3. QED
    BY <2>1, <2>2 DEF RunnerOf
<1>11. ASSUME NEW u \in Tests, RunnerOf[u] = w
       PROVE  u \in CompleteOf
  <2>1. w \in TakenBy(u)
    BY <1>11, RunnerIs
  <2>2. PICK k \in 1 .. queues[w].front : queues[w].tests[k].ind = u
    BY <2>1 DEF TakenBy
  <2>3. k \in 1 .. Len(queues[w].tests) /\ ~(k > Stored(w)) /\ k <= Labelled(w)
    BY <1>1, <1>6 DEF Stored, Labelled, Executing
  <2>4. PICK d \in Seq(Nat) : results[u] = Result(w, k, d)
    BY <2>2, <2>3 DEF Outcome
  <2>5. results[u].id = u + 1
    BY <2>2, <2>3, <2>4 DEF Result
  <2>6. QED
    BY <2>5, BatteryAssumption DEF CompleteOf, Tests
<1>12. RunnerOf[t] = 0 /\ PhaseOf = "open" /\ UNCHANGED <<CompleteOf, PhaseOf>>
  BY <1>1, <1>4, <1>7 DEF RunnerOf, OneOf, PhaseOf, CompleteOf
<1>13. QED
  BY <1>10, <1>11, <1>12

\* A test is complete when its result is labelled ...
LEMMA LabelCompletes ==
    ASSUME IInv, NEW w \in Workers, LabelResult(w)
    PROVE  \E t \in Tests : /\ PhaseOf = "open" /\ RunnerOf[t] # 0 /\ t \notin CompleteOf
                           /\ CompleteOf' = CompleteOf \cup {t}
                           /\ UNCHANGED <<RunnerOf, PhaseOf>>
<1> USE DEF IInv
<1>1. wpc[w] = "label" /\ status = "running"
  BY DEF LabelResult, WorkerAt
<1>2. PICK t \in Tests : /\ t = cur[w] /\ queues[w].front \in 1 .. Len(queues[w].tests)
                        /\ t = queues[w].tests[queues[w].front].ind
  BY <1>1, ExecutingIs DEF Executing
<1>3. results[t].id = 0
  BY <1>1, <1>2, SlotBeforeLabel
<1>4. /\ results'[t].id # 0 /\ \A u \in Tests : u # t => results'[u] = results[u]
      /\ UNCHANGED <<queues, status>>
  <2>1. results \in [Tests -> [thread : 0 .. NThreads, id : 0 .. NTests, p : PValue]]
    BY DEF TypeOK
  <2>2. /\ results' = [results EXCEPT ![t].id = t + 1, ![t].thread = thrd[w]]
        /\ UNCHANGED <<queues, status>>
    BY <1>2 DEF LabelResult
  <2>3. results'[t].id = t + 1 /\ \A u \in Tests : u # t => results'[u] = results[u]
    BY <2>1, <2>2
  <2>4. t + 1 # 0
    BY BatteryAssumption DEF Tests
  <2>5. QED
    BY <2>2, <2>3, <2>4
<1>5. w \in TakenBy(t)
  <2>1. queues[w].front \in 1 .. queues[w].front
    BY <1>2, QueueType
  <2>2. QED
    BY <1>2, <2>1 DEF TakenBy
<1>6. RunnerOf[t] # 0
  BY <1>5, RunnerIs
<1>7. CompleteOf' = CompleteOf \cup {t} /\ t \notin CompleteOf
  BY <1>3, <1>4 DEF CompleteOf
<1>8. UNCHANGED <<RunnerOf, PhaseOf>> /\ PhaseOf = "open"
  BY <1>1, <1>4, RunnerFrame DEF PhaseOf
<1>9. QED
  BY <1>6, <1>7, <1>8

\* ... and not before.
LEMMA StoreCompletesNothing ==
    ASSUME IInv, NEW w \in Workers, StoreResult(w)
    PROVE  UNCHANGED <<RunnerOf, CompleteOf, PhaseOf>>
<1> USE DEF IInv
<1>1. wpc[w] = "run" /\ thrd[w] = w
  BY DEF StoreResult, WorkerAt, Identity, Served
<1>2. cur[w] \in Tests /\ results[cur[w]].id = 0
  BY <1>1, ExecutingIs, SlotBeforeStore DEF Executing, None
<1>3. /\ results'[cur[w]].id = 0 /\ \A u \in Tests : u # cur[w] => results'[u] = results[u]
      /\ status' = status
  BY <1>2 DEF StoreResult, TypeOK
<1>4. \A v \in Workers : /\ queues'[v].tests = queues[v].tests
                         /\ queues'[v].front = queues[v].front
  <2>1. /\ queues \in [Workers -> Queue]
        /\ queues' = [queues EXCEPT ![w].served = Append(@, cur[w])]
    BY <1>1 DEF StoreResult, TypeOK
  <2>2. QED
    BY <2>1 DEF Queue
<1>5. CompleteOf' = CompleteOf /\ PhaseOf' = PhaseOf
  BY <1>2, <1>3 DEF CompleteOf, PhaseOf
<1>6. QED
  BY <1>4, <1>5, RunnerFrame

(***************************************************************************)
(* While the run is prepared the main thread writes the queues, but no     *)
(* test has been taken from them.                                          *)
(***************************************************************************)
LEMMA PreparingTakesNothing ==
    ASSUME IInv, CreateQueue \/ AssignTest
    PROVE  UNCHANGED <<RunnerOf, CompleteOf, PhaseOf>>
<1>1. mpc \in Preparing /\ UNCHANGED <<results, status>>
  BY DEF CreateQueue, AssignTest, At, Preparing
<1>2. ASSUME NEW v \in Workers
      PROVE  queues[v].front = 0 /\ queues'[v].front = 0
  <2>1. queues[v].front = 0
    BY <1>1, NobodyWorks DEF IInv, Progress, Served
  <2>2. queues'[v].front = queues[v].front
    <3>1. queues \in [Workers -> Queue]
      BY DEF IInv, TypeOK
    <3>2. CASE CreateQueue
      BY <3>1, <3>2 DEF CreateQueue, Queue
    <3>3. CASE AssignTest
      <4>1. PICK x, e : queues' = [queues EXCEPT ![x].tests = Append(@, e)]
        BY <3>3, Zenon DEF AssignTest
      <4>2. QED
        BY <3>1, <4>1 DEF Queue
    <3>4. QED
      BY <3>2, <3>3
  <2>3. QED
    BY <2>1, <2>2
<1>3. QED
  BY <1>1, <1>2, RunnerFrame DEF CompleteOf, PhaseOf

\* Destroying the queues takes no test from them.
LEMMA DestructTakesNothing ==
    ASSUME IInv, DestructDispatcher
    PROVE  UNCHANGED <<RunnerOf, CompleteOf, PhaseOf>>
<1>1. \A v \in Workers : /\ queues'[v].tests = queues[v].tests
                         /\ queues'[v].front = queues[v].front
  BY DEF DestructDispatcher, IInv, TypeOK, Queue
<1>2. QED
  BY <1>1, RunnerFrame DEF DestructDispatcher, CompleteOf, PhaseOf

(***************************************************************************)
(* The run fails when the output is too wide, or when a thread has called  *)
(* exit; it reports when all tests are complete.                           *)
(***************************************************************************)
LEMMA WhatEndsTheRun ==
    ASSUME IInv, UNCHANGED <<queues, results>>, status # status',
           \/ \E sizeOk \in BOOLEAN : CheckSize(sizeOk)
           \/ Exit
           \/ PrintReport
    PROVE  /\ PhaseOf = "open" /\ UNCHANGED <<RunnerOf, CompleteOf>>
           /\ PhaseOf' = "failed" \/ (PhaseOf' = "reported" /\ CompleteOf = Tests)
<1>1. PhaseOf = "open" /\ UNCHANGED <<RunnerOf, CompleteOf>>
  BY RunnerFrame DEF CheckSize, Exit, PrintReport, At, PhaseOf, CompleteOf
<1>2. CASE PrintReport
  <2>1. mpc = "report" /\ PhaseOf' = "reported"
    BY <1>2 DEF PrintReport, At, PhaseOf
  <2>2. CompleteOf = Tests
    BY <2>1, ReadyToReport, BatteryAssumption DEF CompleteOf, Tests
  <2>3. QED
    BY <1>1, <2>1, <2>2
<1>3. CASE ~PrintReport
  <2>1. status' \in {"BATTERY_ERROR", "exit_failure"}
    BY <1>3 DEF CheckSize, Exit
  <2>2. QED
    BY <1>1, <2>1 DEF PhaseOf
<1>4. QED
  BY <1>2, <1>3

(***************************************************************************)
(* The other steps touch neither queues nor results nor the status.        *)
(***************************************************************************)
LEMMA WhoMovesThePool ==
    ASSUME [Next]_vars
    PROVE  \/ UNCHANGED <<queues, results, status>>
           \/ CreateQueue \/ AssignTest \/ DestructDispatcher
           \/ \E w \in Workers : PopFront(w) \/ StoreResult(w) \/ LabelResult(w)
           \/ /\ UNCHANGED <<queues, results>>
              /\ \/ \E sizeOk \in BOOLEAN : CheckSize(sizeOk)
                 \/ Exit
                 \/ PrintReport
BY DEF Next, MainThread, CheckSize, SeedShuffle, ShuffleSwap, SpawnLock, SpawnThread,
       SpawnFails, SpawnRegister, SpawnReturn, WaitJoin, WaitForget, PrintReport, Worker,
       ThreadWrapper, BatteryThreadStart, PrintWho, PrintLock, PrintUnlock, FindQueue, SeedLock,
       SeedDraw, BatteryThreadReturn, Exit, Ended, vars

\* Every step takes a test, completes one, ends the run, or changes nothing in the pool.
LEMMA PoolStep ==
    ASSUME IInv, IInv', [Next]_vars
    PROVE  [Pool!Next]_(Pool!vars)
<1>1. ASSUME UNCHANGED <<RunnerOf, CompleteOf, PhaseOf>>
      PROVE  UNCHANGED Pool!vars
  BY <1>1 DEF RunnerOf, OneOf, CompleteOf, PhaseOf, Pool!vars
<1>2. CASE UNCHANGED <<queues, results, status>>
  <2>1. UNCHANGED <<RunnerOf, CompleteOf, PhaseOf>>
    BY <1>2, RunnerFrame DEF CompleteOf, PhaseOf
  <2>2. QED
    BY <1>1, <2>1
<1>3. CASE CreateQueue \/ AssignTest
  BY <1>1, <1>3, PreparingTakesNothing
<1>4. CASE DestructDispatcher
  BY <1>1, <1>4, DestructTakesNothing
<1>5. ASSUME NEW w \in Workers, PopFront(w)
      PROVE  [Pool!Next]_(Pool!vars)
  <2>1. thrd[w] = w
    BY <1>5 DEF PopFront, WorkerAt, IInv, Identity, Served
  <2>2. CASE queues[w].front = Len(queues[w].tests)
    <3>1. UNCHANGED queues
      BY <1>5, <2>1, <2>2 DEF PopFront
    <3>2. QED
      BY <1>1, <1>5, <3>1, PopFrontTakes
  <2>3. CASE queues[w].front # Len(queues[w].tests)
    <3>1. PICK t \in Tests : /\ PhaseOf = "open"
                             /\ RunnerOf[t] = 0
                             /\ \A u \in Tests : RunnerOf[u] = w => u \in CompleteOf
                             /\ RunnerOf' = [RunnerOf EXCEPT ![t] = w]
                             /\ UNCHANGED <<CompleteOf, PhaseOf>>
      BY <1>5, <2>3, PopFrontTakesNext
    <3>2. Pool!Take(w, t)
      BY <3>1 DEF RunnerOf, OneOf, CompleteOf, PhaseOf, Pool!Take
    <3>3. QED
      BY <3>2 DEF Pool!Next
  <2>4. QED
    BY <2>2, <2>3
<1>6. ASSUME NEW w \in Workers, StoreResult(w)
      PROVE  [Pool!Next]_(Pool!vars)
  BY <1>1, <1>6, StoreCompletesNothing
<1>7. ASSUME NEW w \in Workers, LabelResult(w)
      PROVE  [Pool!Next]_(Pool!vars)
  <2>1. PICK t \in Tests : /\ PhaseOf = "open" /\ RunnerOf[t] # 0 /\ t \notin CompleteOf
                           /\ CompleteOf' = CompleteOf \cup {t}
                           /\ UNCHANGED <<RunnerOf, PhaseOf>>
    BY <1>7, LabelCompletes
  <2>2. Pool!Complete(t)
    BY <2>1 DEF RunnerOf, OneOf, CompleteOf, PhaseOf, Pool!Complete
  <2>3. QED
    BY <2>2 DEF Pool!Next
<1>8. ASSUME UNCHANGED <<queues, results>>, status # status',
             \/ \E sizeOk \in BOOLEAN : CheckSize(sizeOk)
             \/ Exit
             \/ PrintReport
      PROVE  [Pool!Next]_(Pool!vars)
  <2>1. /\ PhaseOf = "open" /\ UNCHANGED <<RunnerOf, CompleteOf>>
        /\ PhaseOf' = "failed" \/ (PhaseOf' = "reported" /\ CompleteOf = Tests)
    BY <1>8, WhatEndsTheRun
  <2>2. CASE PhaseOf' = "failed"
    <3>1. Pool!Fail
      BY <2>1, <2>2 DEF RunnerOf, OneOf, CompleteOf, PhaseOf, Pool!Fail
    <3>2. QED
      BY <3>1 DEF Pool!Next
  <2>3. CASE PhaseOf' = "reported" /\ CompleteOf = Tests
    <3>1. Pool!Report
      BY <2>1, <2>3 DEF RunnerOf, OneOf, CompleteOf, PhaseOf, Pool!Report
    <3>2. QED
      BY <3>1 DEF Pool!Next
  <2>4. QED
    BY <2>1, <2>2, <2>3
<1>9. QED
  BY <1>2, <1>3, <1>4, <1>5, <1>6, <1>7, <1>8, WhoMovesThePool

(***************************************************************************)
(* The dispatcher implements the pool of tests, but for the fairness of    *)
(* the pool: whatever is scheduled, every test is taken by one worker, no  *)
(* worker takes a test before it has completed its last, and a report is   *)
(* made of the complete pool only.                                         *)
(***************************************************************************)
THEOREM PoolIsImplemented == Spec => Pool!Init /\ [][Pool!Next]_(Pool!vars)
<1>1. Init => Pool!Init
  BY DEF Init, Pool!Init, TakenBy, None
<1>2. IInv /\ IInv' /\ [Next]_vars => [Pool!Next]_(Pool!vars)
  BY PoolStep
<1>3. QED
  BY <1>1, <1>2, Invariance, PTL DEF Spec

=============================================================================
