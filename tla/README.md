# SmokeRand in TLA+

A verification project for [SmokeRand](https://github.com/alvoskov/SmokeRand), a
set of statistical tests for pseudorandom number generators. TLA+ modules model
the parts of the program where state, order, threads, bits and indexes decide
what a report says; TLC checks them on small instances; the most important
properties of the state machines are proved for all parameters with TLAPS.

Source paths below are relative to the repository, which is expected in `src/`
next to this directory (so `src/src/core.c` is `src/core.c` of the repository).

## 1. The system

A user runs `smokerand battery generator [options]`. The program loads the
generator (a *plugin*, a shared library with `create`, `get_bits`, `free`, or the
standard input), gives it an API with memory, messages and seeds, and runs a
*battery* of tests on it, in the main thread or in several threads, each with a
generator of its own. It prints a report with the p-values and with the seed that
reproduces it.

| Component | Source | State | Operations |
|---|---|---|---|
| Thread abstraction | `threads_intf.c`, `.h` | table `threads[]`, `nthreads`, `thread_ord_mutex` | `init_thread_dispatcher`, `ThreadObj_create`, `_wait`, `_current`, `_equal`, `thread_wrapper` |
| Battery dispatcher | `core.c` | indexes of the tests, one `ThreadQueue` per worker, results, two mutexes, `seed64_mt_current_thread_ord` | `TestsBattery_run_threads`, `TestsDispatcher_init/run/destruct`, `ThreadQueue_push/pop`, `battery_thread`, `get_seed64_mt`, `printf_mt` |
| Command line and battery control flow | `apps/smokerand.c`, `core.c` | `SmokeRandSettings`, the API in use, exit code | `main`, `SmokeRandSettings_load`, `run_battery`, `TestsBattery_run`, `BatteryResults_print_report` |
| Seed generator and log | `entropy.c` | ChaCha20 key, counter, position; log buffer | `Entropy_init_from_key`, `Entropy_seed64`, `Entropy_free` |
| Linear dependence | `lineardep.c` | none between calls | `calc_bin_matrix_rank`, `berlekamp_massey` |
| LFSR period | `lfsr_period.c`, `lfsr_period_factors.c` | matrices, polynomials, long integers over words | `lfsr_period_test`, `make_jump_pow2`, `battery_lfsr_period`, `battery_lfsr_poly` |
| Core tests | `coretests.c` | counters of one test | one function per test |
| Extra tests | `extratests.c` | sample, counters, lattice of spins | collision test, block frequency, Ising model, unit sphere |
| Hamming weights tests | `hwtests.c` | tables of frequencies, a buffer of bits | byte streams, tuple generation, `reduce_table`, `hamming_distr_test` |
| Sorting | `core.c` | none between calls | `quicksort64`, `radixsort64`, `fastsort64` and their 32-bit forms |
| Envelopes | `core.c` | wrapped generator, buffered word, filler | filters, dumps to stdout, `make_accurate_float` |
| stdin collector | `fileio.c` | buffer, position, byte counter | `StdinCollector_fill_buffer`, `get_bits` |
| Custom batteries | `bat_file.c` | tokenizer, list of tests, memory | `load_tests`, `ParserState_process_token`, one parser per kind of test |
| base64 | `base64.c` | none | encode, decode |
| Plugins | `generators/*.c` | private state of a generator | `create`, `get_bits`, `free` |
| Search for triples | `apps/find_xorshift_params.c` | one array of triples shared by threads | `make_triples_array`, `xorshift_thread`, `run_triples_search` |
| Calibration | `apps/calibrate_*.c` | results of a search | clients of the thread abstraction |
| Special functions | `specfuncs.c` | none | distributions |
| Built-in batteries | `bat_*.c` | constant tables | |

How they interact:

* `main` loads the settings and chooses `CallerAPI_init` or `CallerAPI_init_mthr`
  by the number of threads; `TestsBattery_run` decides *again*, by another
  condition, whether to start workers.
* The dispatcher calls the plugin's `create` for each worker; `create` calls back
  into `get_seed64_mt`, which asks the seed generator for a seed and the thread
  table for the caller's ordinal, under two mutexes.
* A worker runs a test; the test calls `get_bits`, which for
  `generators/seed.c` calls `get_seed64_mt` again, in the middle of a test. Between
  test and plugin there may be a filter or the reader of stdin, which hand out
  words one by one and keep what is left of them.
* Workers write into the one array of results without a lock; the main thread
  reads it after it has joined them all. `find_xorshift_params` shares its array
  of triples in the same way.
* The seed printed in the report carries the key (in base64) *and* the number of
  threads; the option `--seed` reads both back.
* The proof of a period runs the generator itself: it needs a state that is
  exactly what `create` has allocated, which it learns by counting calls of `malloc`.

### What is hard

* **Concurrency.** Identity of threads by a table that is filled by the creator
  while the new thread already runs; identifiers that the system reuses; results
  and queues shared without locks because of an argument about who owns what;
  two nested mutexes; termination through joins.
* **Order and reproducibility.** The seeds of all generators and of the shuffle
  come from one stream, and a report promises to be reproducible from a key. Any
  dependence of the order of requests on the schedule breaks this silently.
* **Failure.** A thread that cannot be started, a plugin that does not load, an
  input that ends, a battery file that is wrong in its last entry; the exit code
  is all a script sees.
* **Boundaries.** A thread table of 256, a log that doubles up to a limit, block
  counters of two words, elimination in matrices with columns without pivots, a
  linear complexity as long as the sequence, buckets of a radix sort, bins of a
  table that is too thin.
* **Silent arithmetic.** A generator with a wrong shift, a missing cast or an index
  that wraps one too late compiles, runs and prints numbers. Its state merges, its
  period shrinks or its recurrence is another one, and no self-test of the first
  outputs need notice.

### What makes the components correct

* Thread abstraction: a thread that asks who it is gets its own ordinal.
* Dispatcher: each test is run exactly once, by the worker it was dealt to, with a
  generator still allocated; the complete report is printed, is the same under
  every schedule, and is the one the key determines.
* Command line: a seed from a report repeats the report; workers are started only
  with locks; exit code 0 means what it says; messages do not pollute binary output.
* Seed log: what is logged is what was issued; seeds are distinct and are
  determined by the key in the report.
* Pure algorithms: rank, complexity, period, sorts, counters, samples, parsers agree
  with definitions that do not follow the code.
* Everything between a source of words and a test: no bit is handed out twice, lost
  or reordered.
* Plugins: a step merges no two states, keeps the period it was chosen for, never
  stands still, looks back exactly as far as its recurrence says, and gives outputs
  of the width it declares.

`PROJECT.json` lists the hazards, with the line where each one bites and the
properties that would notice it.

## 2. Modules

```
ThreadRegistry      the table of threads: entries, lookup, registration + _proofs
  |-- ThreadsIntf       threads_intf.c under its most general client    + _proofs
  |-- BatteryThreads    the dispatcher with its workers                 + _proofs
  |                     --refines--> TestPool
SmokeRandCli        main, options, control flow around the tests        + _proofs
SeedLog             the seed generator and its log                      + _proofs

MCKernels           composes the algorithms, one task at a time
  |-- KernelTasks       the tasks whose results are proved
  |     |-- LfsrPeriod    the proof of the period 2^n - 1, jumps
  |     |     `-- LinearDep  rank and Berlekamp-Massey
  |     |-- Sorting       quicksort and the radix sorts                + _proofs
  |     |-- Base64        the key as text
  |     |-- GapTests      the two gap tests
  |     |-- Envelopes     filters, dumps, the reader of stdin
  |     `-- BlockPlugins  plugins that make blocks of outputs
  |-- CoreTests         what the other core tests count, with the sorts
  |     `-- ExtraTests    collision test, block counters, Ising model
  |-- HammingTests      streams of bytes and tuples, bins, nested blocks
  |-- BatFile           custom batteries and the memory they take
  `-- TripleSearch      find_xorshift_params and its threads

Kernels_proofs      what KernelTasks promises except of the sorts, and the search
                    for triples, proved
NumberLemmas        quotients, remainders and parities, for the proofs

MCGenerators        composes the plugins behind their interface
  |-- Words             unsigned integers of C as sets of bits
  |     `-- PluginIntf    load, create, get_bits; what is asked of a step
  |-- XorshiftPlugins, LcgPlugins, MwcPlugins, KissPlugins, ArxPlugins,
  |   MulPlugins        six families, one action per plugin
  `-- LaggedPlugins     plugins that keep an array of their last numbers
```

### ThreadRegistry, ThreadsIntf

`registry` is `threads[0 .. nthreads-1]`, a sequence of records `id`, `ord`,
`exists`. A *job* is one call of `ThreadObj_create`. `CreateLock`, `CreateSpawn`
and `CreateRegister` are the three parts of that call at which another thread can
observe a difference: the mutex is taken; the system starts the thread with any
identifier no thread that is not yet joined holds; the entry is appended, if there is room, and
the mutex released. `CreateFail` is the exit of the process. `ThreadWrapper` is
the empty critical section in which a new thread waits for its registration;
`ThreadObj_current` may then be called any number of times. `WaitJoin` and
`WaitForget` are `pthread_join` and the loop that clears `exists`. Between them
the identifier is already free and the entry still live.
`InitThreadDispatcher` empties the table between rounds.

`ThreadRegistry` is extended both by `ThreadsIntf`, which explores everything a
client may do with the table, and by `BatteryThreads`, which is one particular
client in full detail.

### BatteryThreads, TestPool

The main thread has a control point `mpc` and a loop counter `mi`: it checks the
output size, creates the queues with their generators, shuffles the indexes,
deals them out, starts the workers, joins them, frees the queues and prints.
Each worker has a control point `wpc` (and `prt` within `printf_mt`). Steps are
cut at every access to state another thread can see: locking, looking up the own
ordinal, popping an element, drawing a seed, storing a result, and labelling it
with name, id and thread, which the code does after a message to the user.

A p-value is abstracted to what determines it: the test, the seeds of the
generator that served it, the tests this generator served before, and the seeds
drawn in the test. Two runs print the same p-value exactly when these agree, so
`ReproducibleResults` compares each stored result with a *replay* computed from
the dealt order alone.

`NThreads`, `NTests`, `NTHREADS_MAX` are the sizes; `SeedsPerCreate` and
`SeedsPerTest` describe the plugin (1 and 0 for most, 1 and 1 for
`generators/seed.c`); `Threading = "stubs"` is the build without a thread API, and
`SpawnMayFail` lets `pthread_create` fail. A thread that calls `exit` stays at
"exiting", and the others run on until the step `Exit` ends the process. Seeds are
named by their place in the stream; `SeedLog` is about the claim that key and place
determine the seed.

`TestPool` is the abstract promise of the dispatcher: a pool of tests, each taken
once, run by whoever took it, until the results are complete.

### SmokeRandCli

`phase` is how far a process has got. Options are processed one at a time, in any
order, with repetitions; each is an action on `opts`. Then `main` decides what to
do, and the control flow of `run_battery` and `TestsBattery_run` follows until the
process exits with `code`. The user then starts the program again, with any
options, the printed seed among them. `key` is the key of the seed generator:
none, from a text, or random and different in each process. `out` is what reached
stdout, text or output of the generator. The workers are a single step.

### SeedLog

`gen` is the ChaCha20 state (key, the two counter words, the position in the
block), `slog` the buffer, `slog_len` and `slog_pos` its fields. A seed is named by
key, counter and position in the block: the cipher is taken to be injective.
`issued` is a history variable. `Entropy_init_from_key`, `Entropy_seed64` (when
initialized, and when it initializes itself first) and `Entropy_free` are actions.
The lock that makes them atomic is `get_seed64_mt_mutex`, modelled in
`BatteryThreads`.

### The algorithms: MCKernels and the modules it composes

A state is a `task` with its `input` and, later, the `answer`; `work` holds the
object that a longer task steps. A pure function takes one step; filters, the
reader of stdin, plugins with blocks and the search for triples take one step per
word, per block or per triple. The tasks about which `Kernels_proofs` and `Sorting_proofs`
have theorems (complexity, sorts, base64, gap tests, filters, stdin, blocks) are a
specification of their own, `TaskSpec` of `KernelTasks`, and `MCKernels` adds the
others to its actions: TLC checks, and the theorems are about, the same definitions.

* `LinearDep`: `CalcRank` follows `calc_bin_matrix_rank` column by column, including
  the row from which it searches for the next pivot; `BerlekampMassey` follows the
  loop with its three arrays and their copies, a polynomial as the set of its
  exponents.
* `LfsrPeriod`: long integers with the borrows and carries of their words,
  polynomials reduced by a degree that may be a multiple of the word, the Krylov
  matrix, the verdict of `lfsr_period_test`, the jumps, and the two
  pseudo-batteries with their checks of the generator.
* `Sorting`: Hoare's partition with the insertion sort, the radix sort that copies
  and the one in place. Each loop is a recursive function on the number of its
  steps, each recursion one on the depth left: the length of the range in
  `quicksort_range`, the levels that may still be begun in `countsort_inplace`. The
  digit below the lowest is read with a negative shift: `Wild` is what the build
  may make of it.
* `GapTests`, `CoreTests`, `ExtraTests`: what each test makes of the stream of outputs before
  statistics begins. A stream is a function that is repeated; an output has
  `OutBits` bits. The collision test with its decimation, the size of its sample and
  the tries it draws; the lattice of the Ising model with the moves of both
  algorithms and their chances.
* `HammingTests`: where each bit of each output goes, whatever part of it a mode
  takes; the merging of rare tuples into bins; blocks that are nested in each other.
* `Envelopes`: each bit is named by the output it comes from and its place there,
  so a filter that hands one out twice, or an old one, is seen.
* `BatFile`: a file is a sequence of tokens; a value is not a number but where it
  lies between the limits of its argument. Memory is a set of blocks with the
  accesses to it, so that leaks, double frees and reads behind an array are
  visible.
* `BlockPlugins`: when the buffer is filled, whether the counter is stepped before
  or after, how many copies work side by side, how a counter carries, in which
  order the words leave. An output is named by its counter and its place. The numbers
  of a plugin (words of a block, copies) are one record, which both the steps and
  `BlocksAreInOrder` read: the property is about the order in which they use these
  numbers, and a wrong number of copies that both share would not be seen by it.
* `TripleSearch`: the array of triples, who examines which, and the steps of the
  generators of which the triples are the shifts, with shorter words.

### The plugins: MCGenerators and the modules it composes

A plugin is one definition with its `Create` and its `Get`, translated from
`create` and `get_bits` of its file, and one disjunct of the family's next-state
relation. A word is the set of the places of its ones: `&` is intersection, and a
word of 64 or 128 bits is no harder for TLC than one of 8. What C leaves exact is
exact (`\ll`, `++`), and only `U8` to `U128` and `Cut` reduce a result to a width,
where the code casts or the type of the variable does.

`PluginIntf` has the life of a plugin: `Load`, `Create` from one of the streams of
seeds, `GetBits` up to `MaxOutputs` times, and a last step, `Examine`, in which the
step of the plugin is applied to the states around the object. Its kind says which:
all that differ in at most one bit (`Mixing`); also those that follow, where a
counter makes the period (`Counted`); all states with one 1, if it is linear over
GF(2) (`Linear`), where the period can also be known (`Maximal`: the minimal
polynomial of one bit of the state and the factors of 2^n - 1). Names like
`Shr3Lossy` are mutants, kept next to the plugin they are mutants of.

`LaggedPlugins` has cells that hold no bits but the place of their number in the
sequence: what can go wrong in these plugins is the walk over the array. `history`
is how far back each number has looked, and where the plugin skips numbers.

A plugin with variants (`--param`) is several plugins here.

`PeriodsAreComplete` is about the kinds `Maximal` and `Counted` only. Of the others,
and so of the linear generators wider than 128 bits (kind `Linear`: `xorrot256`,
`xorrot320`, `xorshift160`, `xoshiro256*`, ...), it is examined that a step merges no
states, but not how long the period is.

## 3. What is checked

| Run | Properties | Bounds |
|---|---|---|
| `threads_intf` | `TypeOK`, `CurrentIsOwn`, `UnlistedIsUnknown`, `AtMostOneLiveEntry` | 3 jobs, 2 identifiers, 3 ordinals (0 included), a table of 2; symmetry of the jobs |
| `battery_threads` | `TypeOK`, `WorkerFindsItself`, `NoUseAfterFree`, `SlotsAreDisjoint`, `ReproducibleResults`, `ResultsAreFinal` | 3 workers, 4 tests, every shuffle, failing starts |
| `battery_threads_seed` | `SeedsAreAttributed`, `ReportIsComplete`, `ReportIsPrinted`, `ImplementsPool` | 2 workers, 3 tests, a seed per creation and per test |
| `cli` | `TypeOK`, `SeedReproducesRun`, `ThreadsNeedLocks`, `ZeroMeansPassed`, `PluginOutputIsClean` | 2 processes, 3 options each, 2 tests, 4 threads |
| `seed_log` | `TypeOK`, `LogIsHistory`, `SeedsAreReplayable`, `SeedsAreDistinct` | 2 keys, 9 seeds, blocks of 3 seeds, counter words of 2 values |
| `kernels` | one property per kind of algorithm: `RanksAreCounted`, `ComplexitiesAreMinimal`, `LfsrIsExact`, `SortsAreExact`, `GapsAreCounted`, `TestsAreExact` (`CoreTests` and `ExtraTests`), `HammingTestsAreExact`, `Base64IsCanonical`, `WordsAreDelivered`, `BlocksAreInOrder`, `BatteryFileIsExact`, `SearchIsComplete` | `Kernels.cfg` |
| `generators` | `StatesStayApart`, `PeriodsAreComplete`, `NeverStands`, `OutputsFit`, `LagsAreKept` | 3 streams of seeds, 3 outputs, every third bit of wide words |
| `battery_threads_stubs`, `battery_threads_reproduce`, `cli_filter`, `kernels_unset`, `kernels_monobit` | disagreements of code and documentation, section 5 | |

Why the bounds are enough:

* Three jobs over two identifiers force the reuse of an identifier, while two
  threads can still be alive together; the table of two is full for the third. The
  ordinal 0 is the one `find_xorshift_params.c` gives its first thread and also the
  code's `THREAD_ORD_UNKNOWN`.
* With three workers and four tests one worker gets two tests, so queues have
  different lengths, a generator is used twice, and the deal wraps round. All
  permutations of the tests are explored: the shuffle is a swap with any index.
* A key of one process is either derived from the text, or its own; two processes
  are what "reproduce a report" needs. Three options are enough for a seed, a
  number of threads and a selection in every order. `Radix = 2` with
  `MaxThreads = 4` makes the number 4 unprintable in two digits, as 256 is for
  radix 16.
* The log of length 2 doubles to 4, is cut to the limit 7, and fills up; the
  counter of 2 x 2 blocks carries once and wraps.
* The algorithms see *all* inputs of small sizes. Their constants are shrunk so
  that every branch is taken: matrices up to 3 x 3 with a chunk of 2 columns,
  sequences up to 8 bits, radix sorts with 2 digits of 2 bits and cutoffs of 1 or
  2, outputs of 4 bits, streams with a period of 5, tables of up to 4 rows, the
  Ising lattice of 2 x 2 and 3 x 3, words of 3 bits in the long integers of the
  period test, which has the sizes 2 to 4, battery files of up to 3 entries with at
  most 2 wrong arguments, `mvalues` with up to 8 fixed bits and 3 tries. The
  generators of the triple search work on words of 3 to 5 bits, with 2 or 3 threads
  over a table of 2, so that the table is large enough in one case and too small in
  the other.
* Plugins keep their real widths. The states of `StatesStayApart` are those around
  three seeded objects; an injective step is injective there, and a wrong shift, a
  lost carry or a swapped assignment merges two of them or makes one step look at
  bits it should not. In words wider than 32 bits every third bit is flipped.

**Exceptions.** What plugins do against the properties of `MCGenerators`, and is
therefore listed there by name: random mappings by design (`ranrot_bi`,
`yasmarang`, `prvhash12c`, `prvhash12cw`, `msws`, `msws64`, `cwg64`), two forms of
one residue (`lcg127prime_mul2`, `grube73_mrg3`, `mzran13`, the multiply-with-carry
parts of `kiss93` and `xkiss*_awc`), copies that are kept in the state (`smwc24`,
`smwc48`, `smwc48lux`, `smwc96`), bad parameters kept as examples
(`xorrot32_bad1/2`, `xorrot256_bad1`), states that stand still (`flea32x1` with
zero seeds, `lcg127prime_mul*` with all ones), recurrences that look back one
further or less than their names say (`swb53dec`, `ranrot32`, `rwc4157`,
`rwc16446`), and a first block given twice (`leptonflurry32x2/x4`, `xtea2`).

**Fairness.** Only `BatteryThreads` has liveness properties. It assumes weak
fairness of the main thread and of each worker, the operating system keeps
scheduling every runnable thread, and of `Exit`: a call of `exit` ends the process.
Weak fairness is enough for the mutexes, since each thread takes each of them a
bounded number of times, so nobody can be overtaken forever. Nothing is assumed
about starts of threads succeeding; the liveness run has `SpawnMayFail = FALSE`,
because a failed start is an exit of the process. `TestPool` assumes weak fairness
of taking, completing and reporting together, and none of failing.

`CHECK_DEADLOCK FALSE` is set only for `MCKernels` and `MCGenerators`, whose runs
end with the last answer. In the other models a process that has ended has an
explicit stuttering step (`Exited`, `Ended`, `Finished`, `Done`), so a deadlock of
threads would be reported.

## 4. What is proved

With TLAPS, for all values of the constants that satisfy the assumptions named in
the modules. Every safety property that TLC checks of the four state machines is
also a theorem.

| Module | Theorems |
|---|---|
| `ThreadRegistry_proofs` | lemmas on lookup and registration |
| `ThreadsIntf_proofs` | `TypeCorrect`, `CurrentIsCaller`, `UnlistedAreUnknown`, `OneLiveEntry` |
| `BatteryThreads_proofs` | `TypeCorrect`, `QueuesOutliveWorkers`, `OneWriterPerSlot`, `WorkersKnowThemselves`, `NobodyIsMistaken`, `SeedsHaveOneConsumer`, `ReportsAreComplete`, `ResultsAreReproducible`, `StoredResultsStay`, `PoolIsImplemented` |
| `SmokeRandCli_proofs` | `TypeCorrect`, `ThreadsHaveLocks`, `SeedReproduces`, `OutputIsClean`, `ZeroIsPassed` |
| `SeedLog_proofs` | `TypeCorrect`, `LogIsComplete`, `SeedsCanBeReplayed`, `SeedsDiffer` |
| `Kernels_proofs` | `ComplexitiesMinimal`, `MasseyIsExact`, `ArraysSuffice`, `WordsDelivered`, `StdinIsDelivered`, `BlocksInOrder`, `Base64Canonical`, `DecodingIsExact`, `GapsCounted`, `SearchIsExhaustive`, `TriplesAreNotShared` |
| `Sorting_proofs` | `SortsExact` |
| `NumberLemmas` | quotient and remainder of a number, of the next one, of a sum and of one a round before; induction, the first and the last number of a set; powers of 2; parity |

### BatteryThreads

None of the properties is inductive. `IInv` has twelve parts, and each is there
because a step of another part needs it:

* `TypeOK`; `Control`: the loop counter and the ordinal for seeds follow the control
  point of the main thread. Together they say how many workers have been started,
  entered in the table, joined and crossed out (`Started`, `Entered`, `Joined`,
  `CrossedOut`), and how many tests have been dealt (`DealtTo`).
* `Life`: workers not yet started have done nothing, joined ones have ended;
  `Table`: the entries are those of the workers entered, in this order, live until
  crossed out, and as many as fit; `Mutexes`: `thread_ord_mutex` is held between two
  steps only by the main thread, from the start of a worker to its entry, the
  other two by the worker that is inside.
* `Identity`: a worker behind its lookup has its own ordinal or is unknown, and has
  it if it goes on to its queue. It needs `Life`, `Table` and `Mutexes` together:
  between the start and the entry no worker can look, and an identifier in the
  table belongs to one thread.
* `Seeding`, `Attribution`: how many seeds have been drawn while the generators are
  created, which ones belong to whom, that a seeded queue is allocated, and that
  the log names the consumer of each.
* `Shuffled`: the indexes are a permutation of the tests; `Dealt`: test number `n` of
  the deal is in queue `n % NThreads + 1` at place `(n - 1) \div NThreads + 1`, and
  nothing else is in the queues. That two queues share no test is the uniqueness of
  quotient and remainder (`PlaceIsUnique`, from `NumberLemmas`).
* `Progress`: how far a worker is in its queue, from its control point; `Outcome`:
  which results exist and are labelled then, and what they say.

The other theorems follow from `IInv`. Two of them have an extra assumption:

* `WorkersKnowThemselves` assumes `Threading = "pthreads"` and
  `NThreads <= NTHREADS_MAX`. It is false otherwise: for stubs this is the
  run `battery_threads_stubs`, and more workers than 256 do not find themselves.
  `NobodyIsMistaken` is what remains true without it: a worker that does not know
  itself is never taken for another.
* `ResultsAreReproducible` assumes `SeedsPerTest = 0`, plugins that ask for seeds
  when they are created only. The run `battery_threads_reproduce` shows that this
  is needed.

`PoolIsImplemented` is the safety part of the property `ImplementsPool`: initial
states map to initial states, a step that stores a result to the pool's step, all
others to a step of the pool or to stuttering.

### ThreadsIntf

`CurrentIsOwn` needs that a running thread was registered before it could ask. The
invariant adds that the mutex is held exactly from lock to registration, that a
thread in front of its empty critical section is the one being created, that
threads with an identifier have distinct ones, and that the live entries are
exactly those of the listed threads that have not been forgotten.

### SmokeRandCli

For the locks the invariant `ApiInv` says that between the initialisation of the
API and the end of the battery the number of threads and the API still agree, and
that the input from stdin never has more than one thread. For the seed `SeedInv`
says that printed seed and report were made of the same settings, and that the
number in the seed, once the options have been read, is the number of threads in
use; both need that this is never 0, the value for "no number in the seed". For
`OutputIsClean`, `OutInv` says that stdout belongs to the generator in the modes
that write its output, and to messages in all others. For `ZeroIsPassed`, `PassInv`
says that the answer of a battery is unknown until its end, that tests run only if
one selection of an existing test, or none, was made, that a plugin is read through
the filter of the options, and that 0 comes with a report that has all this and no
failure in it.

### SeedLog

`slog_pos < slog_len` holds with every write, for any initial length and any limit,
because the log is either absent (before a key, after the end) or agrees in
buffer, length and position with the history and has room for one more or is at
its limit. `SeedsCanBeReplayed` needs the state of ChaCha20 as a function of the
number of outputs: `StreamInv` gives counter words and position by quotient and
remainder, and `DivModNext` carries it over a step. `SeedsDiffer` follows since
different numbers below the period have different pairs of words and places.

### Linear complexity

`ComplexitiesMinimal` is Massey's theorem about this loop: for every sequence of
every length the register handed out reproduces the sequence, and no shorter one
does. `MasseyInv` has the bounds: polynomial and copy have no terms beyond the
length of the register, the saved polynomial none beyond the length before the last
change, `m + 1 - L`, and `m + 1 <= 2 L <= 2 N`. `MasseyExact` adds what the
polynomials mean: `C` predicts the first `N` bits, the saved `B` all bits before the
one at which it failed, and none of the first `N` bits has a shorter register. Two
facts carry it over a step. A product of two polynomials has, at each bit, the parity
of the products of their terms, so adding a shifted `B` to `C` corrects the bit `C`
got wrong and no earlier one; sums are parities of cardinalities of sets here
(`NumberLemmas`). And two registers that agree on a bit up to which both predict
everything cannot differ on the next one if their lengths sum to at most its number
(`NoShorterRegister`), so the length must grow to `N + 1 - L`. That the recursion of
the model ends in a state of this loop is an induction over `N`.

`ArraysSuffice` says that arrays of `n` elements are enough, with the one exception
of section 5.

### Sorting

`SortsExact`: whatever way an array is sorted, the result has the same elements in
order. It holds for arrays of any length, any base and number of digits, and
wherever a method hands over to the next: the cutoffs 12, 32, 128, 5 and 65536 only
decide how fast. The one assumption on the elements is that they are numbers of
`Digits` digits.

Two notions carry it: `y` *rearranges* `x` on a part (there is a permutation that
moves nothing outside it), and `y` is *in order* there. A loop is a recursive
function (`LoopExists`: it exists because its steps keep the invariant, so each
proof about a loop is at once the one that its recursion is defined), and each loop
has its invariant:

* `insertsort`: the part passed is in order (`InsertionStep`).
* `quicksort_range` (`PartitionInv`): what is left of `i` is at most the pivot, what
  is right of `j` at least, and `j - i` is bounded by the steps left. Between them
  there is a pivot until the first swap, which is why both parts are shorter than the
  range and the recursion ends (`PartitionSplits`).
* `countsort32` (`CountInv`): after `k` elements the offset of a digit is the number
  of elements not yet placed that belong in front of its next place, so each element
  gets its rank: the order of the digits and, among equals, of the places. Stability
  then makes `LowInOrder` an invariant of the passes: the array is in order of its
  last `k` digits.
* One level in place (`ScanInv`): the buckets in front of `i` are filled, each bucket
  holds only its own elements up to `lb`, and the steps done are at most the elements
  placed plus the buckets passed. That a swap never runs over the end of a bucket is a
  count: an element still outside a bucket that is full would be one more than the
  bucket has (`RoomInBucket`).
* The levels (`BucketInv`): the elements of a bucket agree in all digits above, so
  a bucket in order and the order of the buckets make the part in order
  (`LevelOrders`). Below the last digit they agree entirely. Hence the undefined
  shift does no harm: whichever digit it reads, the elements it moves are equal.

### Envelopes and stdin

For the filters `FilterInv` has the state after `n` words in closed form
(`EnvelopeAfter`: outputs drawn, buffer and position, fillers) and the bit at every
place of every word delivered (`BitAt`): the output it is from and its place there.
That no bit is named twice is then arithmetic of halves and parities.

For stdin there are two results. `StdinIsDelivered` is about steps: the next word
follows the last one, or begins the next block if the object is new. Its `StdinInv`:
a buffer in use is the last block read, up to the word delivered last.
`WordsDelivered` is about what all objects have delivered so far, which needs
(`ReadersInv`) that each of them has only blocks behind those of its predecessors
and in front of what has been read.

### Plugins that make blocks

`BlocksInOrder` gives every output of every listed plugin, for any range of the
counter and any number of outputs. `Counters` is the state of all copies after a
number of batches in closed form, carries included; `RoundAt` follows it through one
round, so that an argument about one batch holds for each. `After(p, obj, t)` is the
state after `t` words from creation, in terms of `t` alone: the batch, the position,
and whether the next batch is made already (`eager`), only on demand, or at creation
(`made`), with the counter stepped before or after. Outputs thrown away by `create`
are an induction over their number (`DiscardedIs`). The plugins enter by their kind
(`Sound`), and `PluginsAreSound` goes through the list of 60. The one assumption
on the counter is that 2, 4, 8 and 16 divide its range, which is 2^32 or 2^64 in the
code: copies side by side must come back to 0 together.

### base64

`DecodingIsExact` is about every sequence of words and every text: words come back
from their text, and whatever text is accepted, its symbols are those of the words
it is decoded to. Words and symbols are pieces of the same sequence of bits, and
cutting it and joining the pieces undo each other but for the rest
(`PiecesOfJoined`, `JoinedPieces`). The rest decides: 1, 2 and 3 words modulo 3
leave 4, 2 and 0 bits in their symbols (`ExtraBitsAre`), so the table
`nextrabits_ok` admits exactly the numbers of symbols that words have, and the test
`queue != 0` exactly the rest that encoding leaves. What the loops see between the
symbols, padding or other characters, is an invariant of the recursion over the text
(`SymbolsLoop`). `Base64Canonical` is the property of the run.

### Gap tests

`GapsCounted` compares both tests with a definition of gaps that knows the whole
stream: a gap ends where an output hits and began after the hit before it
(`LastIn`). `TableStep` and `GapCounted` say that one step of the code, from the
table of the first `n` outputs, makes that of the first `n + 1`; an induction gives
all tables in closed form (`GapTablesAre`, `Gap16Is`). For `gap_test` it remains that
the loop ends: as long as no gap is too long, the gaps that have ended take up all
outputs but those of the open one (`GapsTakeOutputs`), so after
`ngaps * max_gap_len` outputs both tables are complete, unless it has given up
before (`GapLoopEnds`). For `gap16_count0` the last 0 is updated before the gaps that
end at a word are looked at, and its own last place after: `WordGapsHold` shows that
the comparison of these two places is the question whether a 0, or the word, lies in
the gap, and that a 0 is never the end of a gap that began with a 0 in the second
table, for the difference of the places is -1 then, which no bin has. The theorem
is about streams with any period, outputs and words of any width, and all options
with at least one gap; `nbins` and `max_gap_len`, which the code computes in floating
point, are parameters.

### The search for triples

By any number of threads. `SearchInv`: a triple has been examined as often as
threads that take it for theirs have passed it. `SearchIsExhaustive` says what this
comes to at the end, also when there are more threads than the table of threads has
room for. `TriplesAreNotShared` is why no lock is needed. The number of triples is a
parameter, as the length of a filtered sequence is out of reach: `SearchIsComplete`,
which is about the triples that pass the filters, stays with TLC.

### Only model-checked

* The liveness property `ReportIsPrinted` and the fairness in `ImplementsPool`:
  liveness and ENABLED are beyond this prover.
* `RanksAreCounted`, a statement about numbers of matrices of a size;
  `SearchIsComplete`, which needs the triples that pass the filters of the search;
  `LfsrIsExact`, `TestsAreExact`, `HammingTestsAreExact` and `BatteryFileIsExact`,
  made of operators that are declared RECURSIVE or that need an induction for each
  loop. The induction theorems of the library take an operator
  and cannot be instantiated; `NumberLemmas` has induction with the predicate as a set
  of numbers, which is what the proofs above use.
* The plugins (`MCGenerators`): their questions are about periods and injectivity of
  particular numbers, evaluated state by state.

## 5. Findings

Checked as runs that end in a violation:

* `battery_threads_stubs`: `threads_intf.h` promises POSIX threads for Clang, but
  its condition excludes compilers that define `__clang__`. Such a build has no
  threads, no thread knows its ordinal, and every multithreaded battery ends the
  process in its first worker.
* `battery_threads_reproduce`: results are documented as completely reproducible
  from the seed. A generator that asks for seeds in `get_bits` gets them in the
  order of the schedule.
* `cli_filter`: `--filter` is accepted and ignored when the generator is
  `stdin32` or `stdin64`.
* `kernels_unset`: plugins whose `create` leaves part of the state unset and whose
  output depends on it: the vector forms of `xoroshiro128pp` and `xorshift128pp`,
  `xxtea256`, forms of `ghsc`, `threefry2x64`, `mularx256`.
* `kernels_monobit`: the sum of the monobit test is half of the documented one,
  but is divided by the documented standard deviation.

Noticed while reading or modelling, not stated as runs:

*Core.* The thread table has 256 entries, but the number of threads is not limited
to that: surplus workers do not find themselves and end the process, and the seed
of such a report would have three digits, which `--seed` refuses
(`smokerand.c:234`, `core.c:961`). A p-value that is not a number counts as passed
(`core.c:238`). `make_accurate_float` subtracts `lz2 + 11` where twelve zeros are
known (`core.c:1598`), which gives exponents from -12 down wrong frequencies.
`calc_bin_matrix_rank` searches for the next pivot above the row it fills, so the
rank of a singular matrix may come out wrong; a full rank is recognised exactly, and
every rank comes out for the right *number* of matrices, so the test that uses it
is not biased (`RanksAreCounted`). `berlekamp_massey` copies `n + 1` of `n`
elements if the only 1 of the sequence is its last bit (`lineardep.c:240`);
`ArraysSuffice` proves that this is the only case.

*Command line.* `--threads=2`, and `--nthreads` without a number, are refused, while
`smokerand.c:65-66` and `smokerand.1:408-411` describe them. The condition on
`maxlen_log2` at `smokerand.c:187` is always true. The modes that write to stdout
end with exit code 3 after a success (`smokerand.c:465-470`); the end of stdin
gives the code of a failed battery. `StdinCollector_print_report` writes text to
stdout even if stdout carries output (`smokerand.c:620`), so
`PluginOutputIsClean` is about plugins. The filter `uint31_low` is not
among those whose width `main` checks (`smokerand.c:658-673`).

*Tests.* `collover64`: the number of outputs drawn by its speed measurement depends
on the clock, so a printed seed does not reproduce its result; a match in the last
try counts as a failure. `battery_blockfreq` never returns "passed".
`hamming_distr_calc_zemp` leaves out the last element (`hwtests.c`). In the Ising
test a conversion is undefined for two candidates and a 64-bit generator
(`extratests.c:714`), which does not disturb the balance.

*LFSR period.* A plugin that calls `malloc` other than once has no known size of its
state and is reported as "not maximal". `make_jump_pow2` with an unusable polynomial
sets the state to 0. Whether a generator is linear is decided by trying.

*Battery files.* The example of the man page (`smokerand.1:512-529`) lacks `lambda`,
which `parse_bspace_nd` requires; the man page omits `end`, `n` of `collisionover`
and the arguments of three tests. An entry without `test=` or `bitpos=` compares a
NULL pointer. A name of 64 or more characters is written one past its array. Numbers
like `12abc` are accepted.

*find_xorshift_params.* `xorrot24b` steps like a xorshift but keeps the filter
`b < c`, so triples with `b >= c` are never tried (946). `create` leaves the shifts
unset for the first test of some generators (1037, 1119, 1200, 1283). With more
threads than the table has room for, the triples of the surplus ones are
skipped. `check_validity = 0` (174) has no effect.

*Plugins.* Unset memory in places that the run above does not reach:
`smwc192.c:60-66`, `xorgens256.c:52-62`, `mrg_denglin_4.c:82-88`. `smwc8x16.c:34`:
the carry is always 0. `xoroshiro128p.c`: two words of a state get the same
seed. `swb53dec.c:36-39`, `ranrot32.c:86`, `rwc4157.c:93`, `rwc16446.c:103`: lags
that are off by one or exchanged. `mwc256xxa64`: the result depends on the order in
which C evaluates arguments. The blocks of `leptonflurry` repeat after 2^32, since
its counter does not carry, as in the vector forms of `speck128` and `threefry`.
`lcg61prime` and `lcg127prime` can start at a multiple of their modulus. `kiss11`,
`lfsr113`, `lfsr258`, `mrg32k3a`, `mwc32x` and `mwc63x2` loop forever if all seeds are the
same bad one.

## 6. What is not modelled

* Floating-point statistics: `specfuncs.c`, and what the tests make of their counts
  (p-values, the volume of the unit sphere, `make_accurate_float`). TLA+ has no such
  numbers, and their questions are numerical.
* Tables: the built-in batteries (`bat_*.c`), factors of 2^n - 1.
* `blake2s.c`, `cpuinfo.c`, `pe32loader.c`, sources of entropy, dynamic loading:
  published algorithms, processor instructions, operating system services.
* `sr_tiny.c` and the other stand-alone programs; of the calibration tools only
  their use of threads.
* Errors before a run has begun: `gi->create` that returns NULL (`core.c:273`, for
  instance for an unknown parameter) and the self-test `entfuncs_test` of the seed
  generator (`smokerand.c:627`). In a battery run both end the process before there is
  a worker.
* That a log of more than 1024 seeds is printed with its middle left out
  (`entropy.c:608`): `SeedLog` is about the log in memory.
* Parameters of modelled plugins that repeat a walk with other numbers: the pairs of
  lags of `lfib_par` from 3217 on, and its differences (`55-`, ...), which walk as the
  sums do.
* Options that only change the layout of a report, and `param`, `batparam`,
  `maxlen_log2`. Self-tests of the plugins.
* The plugins of these files: arata, bbs64, biski64_mul, combmrg96, coveyou128,
  dandelion128, dandelion32, dandelion64, efiix64x48, ia, ia64, ibaa, icg31x2,
  icg64, jkiss32, kiss11_32, kiss11_64, lcg128, lcg128prime, lcg64bd, lcg64prime,
  lcg96, lcg_hp48, lfsr113, lfsr258, loop_7fff_w64, lrnd64_255, macmarsa,
  mall16ex, minstd, mixmax, mrg32k3a, mrg_denglin_4, mularx64_r2, mularx64_u32,
  mwc63x2, mwc_decimal, mwcfp, pqrng128, pqrng64, ran, ran2, ranecu, ranshi, rc4,
  rc4ok, rdrand, rge256lite, rwc64, seed, sezgin63, shioi128, skiss32, skiss64,
  smwc192, smwc192lux, speck64_128, taus88, tf0_128, tinymt32, tinymt64,
  tt1600mrt, tt800, ultra, ultra64, well1024a, wich2006, xorgens256, xorgens512,
  xoroshiro1024st, xoroshiro1024stst, xorrot512, xorrot512mrt, xorrot64w8arx,
  xorrot64w8sc, xorshift256, xoshiro512pp.

## 7. What could follow

All modules of section 2 are done, with proofs of every safety property of the state
machines and of the algorithms in `KernelTasks`. Next would be, in this order:

1. `LinearDep`: the rank is full exactly for the regular matrices.
2. `LaggedPlugins`: the look-back of a walk with two positions, for any length of
   the array.
3. `LfsrPeriod`: single carries and borrows of the long integers.
