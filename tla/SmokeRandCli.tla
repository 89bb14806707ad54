---------------------------- MODULE SmokeRandCli ----------------------------
(***************************************************************************)
(* The program smokerand (src/apps/smokerand.c): main, the command line,   *)
(* the choice of the single- or multithreaded API, the choice of a battery *)
(* and the control flow of TestsBattery_run (src/src/core.c) around the    *)
(* tests themselves.  What the threads do is in BatteryThreads.            *)
(*                                                                         *)
(* The behaviour is that of a user who starts the program, and, when it    *)
(* has printed a report with a seed, starts it again for the same battery  *)
(* and generator with any other options, that seed among them.             *)
(***************************************************************************)
EXTENDS Naturals

CONSTANTS
    NTests,        \* tests in the battery
    MaxThreads,    \* bound on the numbers of threads a user asks for
    Cores,         \* get_cpu_numcores()
    Radix,         \* values of a digit of the seed, 16 in the program
    MaxArgs,       \* bound on the number of options
    Batteries,     \* kinds of battery_name
    Generators     \* kinds of generator_lib

ASSUME CliAssumption ==
    /\ NTests \in Nat \ {0}
    /\ MaxThreads \in Nat \ {0} /\ Cores \in Nat \ {0} /\ Radix \in Nat \ {0}
    /\ MaxArgs \in Nat
    /\ Batteries \subseteq {"tests", "badfile", "special", "stdout", "unknown"}
    /\ Generators \subseteq [kind : {"plugin", "stdin", "missing", "list"},
                             nbits : {32, 64},
                             seeded : BOOLEAN,    \* create asks for a seed
                             fits : BOOLEAN]      \* GeneratorState_check_size
    /\ \A g \in Generators : g.nbits = 64 => g.fits

TESTS_ALL    == 0
TEST_UNKNOWN == NTests + 1

BATTERY_PASSED  == 0
BATTERY_FAILED  == 1
BATTERY_ERROR   == 2
BATTERY_UNKNOWN == 3
EXIT_FAILURE    == 1

(***************************************************************************)
(* The 256-bit key of the generator of seeds: not chosen yet, the hash of  *)
(* a text seed, or random, a different one in every process.               *)
(***************************************************************************)
NoKey        == 0
TextKey      == 1
RandomKey(r) == r + 1
Keys         == 0 .. 3

Filters == {"none", "reverse-bits", "uint31", "uint63"}

VARIABLES
    run,          \* first or second process of the user
    phase,        \* how far the process is
    battery, gen, \* the first two arguments
    nargs,        \* options processed so far
    opts,         \* SmokeRandSettings
    key,          \* the key in `entropy`
    api,          \* the CallerAPI in use
    mutexes,      \* state of the two mutexes of core.c
    filter,       \* the filter around the generator
    workers,      \* worker threads are running
    out,          \* what has been written to stdout
    code,         \* the answer of the battery, then the exit code
    printed,      \* the seed in the report of the first process, if any
    reports       \* reports of the two processes, if any

user == <<run, battery, gen, printed, reports>>
vars == <<user, phase, nargs, opts, key, api, mutexes, filter, workers, out, code>>

(***************************************************************************)
(* SmokeRandSettings_init.  A test name is the position of the test that   *)
(* has it (TEST_UNKNOWN: no test has it), 0 stands for NULL.               *)
(***************************************************************************)
DefaultSettings ==
    [nthreads |-> 1, nthreads_from_seed |-> 0, testid |-> TESTS_ALL,
     testname |-> 0, filter |-> "none"]

Init ==
    /\ run = 1 /\ phase = "args"
    /\ battery \in Batteries /\ gen \in Generators
    /\ nargs = 0 /\ opts = DefaultSettings /\ key = NoKey
    /\ api = "none" /\ mutexes = "none" /\ filter = "none"
    /\ workers = FALSE /\ out = {} /\ code = BATTERY_UNKNOWN
    /\ printed = {} /\ reports = [r \in 1 .. 2 |-> {}]

-----------------------------------------------------------------------------
(***************************************************************************)
(* SmokeRandSettings_load, one option at a time.  Options that decide      *)
(* nothing but the layout, and batparam, param and maxlen_log2, are left   *)
(* out.                                                                    *)
(***************************************************************************)
NextArg == phase = "args" /\ nargs < MaxArgs

\* Mutant: an option with a value also consumes the next argument.
AcceptTwo(settings) ==
    /\ opts' = settings /\ nargs' = nargs + 2
    /\ UNCHANGED <<user, phase, api, mutexes, filter, workers, out, code>>

Accept(settings) ==
    /\ opts' = settings /\ nargs' = nargs + 1
    /\ UNCHANGED <<user, phase, api, mutexes, filter, workers, out, code>>

(***************************************************************************)
(* A process that ends before the API is initialised.                      *)
(***************************************************************************)
EndEarly(c) ==
    /\ phase' = "exited" /\ code' = c
    /\ UNCHANGED <<user, nargs, opts, key, api, mutexes, filter, workers, out>>

DefaultThreads == IF Cores > 4 THEN Cores - 1 ELSE Cores

ArgThreads ==
    /\ NextArg /\ UNCHANGED key
    /\ Accept([opts EXCEPT !.nthreads = DefaultThreads])

ArgNumber ==
    /\ NextArg /\ UNCHANGED key
    /\ \/ \E n \in 1 .. MaxThreads : Accept([opts EXCEPT !.nthreads = n])
       \/ \E n \in 1 .. TEST_UNKNOWN : Accept([opts EXCEPT !.testid = n])

ArgTestname ==
    /\ NextArg /\ UNCHANGED key
    /\ \E t \in 1 .. TEST_UNKNOWN : Accept([opts EXCEPT !.testname = t])

ArgFilter ==
    /\ NextArg /\ UNCHANGED key
    /\ \E f \in Filters \ {"none"} : Accept([opts EXCEPT !.filter = f])

ArgTextSeed ==
    /\ NextArg
    /\ key' = TextKey
    /\ Accept(opts)

(***************************************************************************)
(* "_XX_key": two digits, whatever number of threads the report printed;   *)
(* a third digit is in the place of the underscore and ends the program.   *)
(* The user writes the seed of the report, or changes its digits.          *)
(***************************************************************************)
ArgKeySeed ==
    /\ NextArg
    /\ \E s \in printed, n \in 0 .. MaxThreads :
        /\ n < Radix * Radix
        /\ key' = s.key
        /\ Accept([opts EXCEPT !.nthreads_from_seed = n])

(***************************************************************************)
(* Everything SmokeRandSettings_load rejects: a layout, a name or a value  *)
(* it does not know, and a seed with more than two digits.                 *)
(***************************************************************************)
ArgRefused == NextArg /\ EndEarly(BATTERY_ERROR)

\* Mutant: an explicit number of threads takes precedence over the seed.
ArgsDoneOwnThreads ==
    /\ phase = "args" /\ phase' = "dispatch"
    /\ opts' = IF opts.nthreads_from_seed # 0 /\ opts.nthreads = 1
               THEN [opts EXCEPT !.nthreads = opts.nthreads_from_seed]
               ELSE opts
    /\ UNCHANGED <<user, nargs, key, api, mutexes, filter, workers, out, code>>

(***************************************************************************)
(* No option is left: the seed decides the number of threads, wherever it  *)
(* stands among the options.                                               *)
(***************************************************************************)
ArgsDone ==
    /\ phase = "args" /\ phase' = "dispatch"
    /\ opts' = IF opts.nthreads_from_seed # 0
               THEN [opts EXCEPT !.nthreads = opts.nthreads_from_seed]
               ELSE opts
    /\ UNCHANGED <<user, nargs, key, api, mutexes, filter, workers, out, code>>

SettingsLoad ==
    \/ ArgThreads \/ ArgNumber \/ ArgTestname \/ ArgFilter
    \/ ArgTextSeed \/ ArgKeySeed \/ ArgRefused \/ ArgsDone

-----------------------------------------------------------------------------
(***************************************************************************)
(* main between the options and the battery.                               *)
(***************************************************************************)
IsStdout == battery = "stdout"

StdinThreads ==
    /\ phase = "dispatch" /\ gen.kind = "stdin" /\ opts.nthreads > 1
    /\ EndEarly(BATTERY_ERROR)

(***************************************************************************)
(* "list" prints what print_battery_info knows of the battery.             *)
(***************************************************************************)
ListTests ==
    /\ phase = "dispatch" /\ gen.kind = "list"
    /\ EndEarly(IF battery \in {"tests", "badfile"} THEN 0 ELSE 1)

(***************************************************************************)
(* CallerAPI_init for stdin.  GeneratorInfo_print, the only message so     *)
(* far, goes to stderr when stdout is the output of the generator.         *)
(***************************************************************************)
OpenStdin ==
    /\ phase = "dispatch" /\ gen.kind = "stdin" /\ opts.nthreads <= 1
    /\ api' = "serial"
    /\ out' = IF IsStdout THEN out ELSE out \cup {"text"}
    /\ phase' = "battery"
    /\ UNCHANGED <<user, nargs, opts, key, mutexes, filter, workers, code>>

\* Mutant: the thread-safe functions are chosen for more than two threads.
InitApiTwo ==
    /\ phase = "dispatch" /\ gen.kind \in {"plugin", "missing"}
    /\ \/ /\ opts.nthreads <= 2
          /\ api' = "serial" /\ UNCHANGED mutexes
       \/ /\ opts.nthreads > 2
          /\ api' = "mthr" /\ mutexes' = "live"
    /\ phase' = "load"
    /\ UNCHANGED <<user, nargs, opts, key, filter, workers, out, code>>

(***************************************************************************)
(* CallerAPI_init or CallerAPI_init_mthr for a plugin ...                  *)
(***************************************************************************)
InitApi ==
    /\ phase = "dispatch" /\ gen.kind \in {"plugin", "missing"}
    /\ \/ /\ opts.nthreads = 1
          /\ api' = "serial" /\ UNCHANGED mutexes
       \/ /\ opts.nthreads # 1
          /\ api' = "mthr" /\ mutexes' = "live"
    /\ phase' = "load"
    /\ UNCHANGED <<user, nargs, opts, key, filter, workers, out, code>>

(***************************************************************************)
(* CallerAPI_free.                                                         *)
(***************************************************************************)
FreeApi == mutexes' = IF api = "mthr" THEN "destroyed" ELSE mutexes

FilterSuits ==
    /\ opts.filter = "uint31" => gen.nbits = 32
    /\ opts.filter = "uint63" => gen.nbits = 64

(***************************************************************************)
(* ... which may not load, or not suit the filter ...                      *)
(***************************************************************************)
LoadFails ==
    /\ phase = "load"
    /\ gen.kind = "missing" \/ ~FilterSuits
    /\ FreeApi
    /\ phase' = "exited" /\ code' = BATTERY_ERROR
    /\ UNCHANGED <<user, nargs, opts, key, api, filter, workers, out>>

\* Mutant: the messages of main do not respect set_use_stderr_for_printf.
LoadModuleLoud ==
    /\ phase = "load" /\ gen.kind = "plugin" /\ FilterSuits
    /\ filter' = opts.filter
    /\ out' = out \cup {"text"}
    /\ phase' = "battery"
    /\ UNCHANGED <<user, nargs, opts, key, api, mutexes, workers, code>>

(***************************************************************************)
(* ... or goes to the battery inside its filter.                           *)
(***************************************************************************)
LoadModule ==
    /\ phase = "load" /\ gen.kind = "plugin" /\ FilterSuits
    /\ filter' = opts.filter
    /\ out' = IF IsStdout THEN out ELSE out \cup {"text"}
    /\ phase' = "battery"
    /\ UNCHANGED <<user, nargs, opts, key, api, mutexes, workers, code>>

-----------------------------------------------------------------------------
(***************************************************************************)
(* run_battery: the answer is BATTERY_UNKNOWN until something else is      *)
(* known.                                                                  *)
(***************************************************************************)
Answer(c) ==
    /\ code' = c /\ phase' = "finish"
    /\ UNCHANGED <<user, nargs, opts, api, mutexes, filter, workers>>

TwoSelections == opts.testid # TESTS_ALL /\ opts.testname # 0

RunRefused ==
    /\ phase = "battery" /\ UNCHANGED <<key, out>>
    /\ \/ TwoSelections /\ Answer(BATTERY_ERROR)
       \/ ~TwoSelections /\ battery = "badfile" /\ Answer(BATTERY_ERROR)
       \/ ~TwoSelections /\ battery = "unknown" /\ Answer(BATTERY_UNKNOWN)

(***************************************************************************)
(* help, speed, selftest, lfsr, freq, ... and shared libraries: they print *)
(* what they like and have an answer of their own.                         *)
(***************************************************************************)
RunSpecial ==
    /\ phase = "battery" /\ ~TwoSelections /\ battery = "special"
    /\ out' = out \cup {"text"} /\ UNCHANGED key
    /\ \E c \in {BATTERY_PASSED, BATTERY_FAILED, BATTERY_ERROR} : Answer(c)

(***************************************************************************)
(* stdout, stdoutfl, stdoutflx: a success leaves the answer as it was.     *)
(***************************************************************************)
RunStdout ==
    /\ phase = "battery" /\ ~TwoSelections /\ IsStdout
    /\ out' = out \cup {"data"}
    /\ key' = IF key = NoKey /\ gen.seeded THEN RandomKey(run) ELSE key
    /\ Answer(code)

\* Mutant: a name that no test has selects all tests.
TestIdLenient ==
    IF opts.testid > NTests \/ opts.testname = TEST_UNKNOWN THEN TESTS_ALL
    ELSE IF opts.testid # TESTS_ALL THEN opts.testid
    ELSE opts.testname

(***************************************************************************)
(* TestsBattery_get_testid                                                 *)
(***************************************************************************)
TestId ==
    IF opts.testid > NTests \/ opts.testname = TEST_UNKNOWN THEN TEST_UNKNOWN
    ELSE IF opts.testid # TESTS_ALL THEN opts.testid
    ELSE opts.testname

(***************************************************************************)
(* TestsBattery_run: the selection is checked ...                          *)
(***************************************************************************)
CheckTestId ==
    /\ phase = "battery" /\ ~TwoSelections /\ battery = "tests"
    /\ out' = out \cup {"text"}
    /\ IF TestId = TEST_UNKNOWN
       THEN Answer(BATTERY_ERROR)
       ELSE /\ phase' = "generator"
            /\ UNCHANGED <<user, nargs, opts, api, mutexes, filter, workers, code>>
    /\ UNCHANGED key

(***************************************************************************)
(* ... an example of the generator is made and its output size checked ... *)
(***************************************************************************)
CheckGenerator ==
    /\ phase = "generator"
    /\ key' = IF key = NoKey /\ gen.seeded THEN RandomKey(run) ELSE key
    /\ IF ~gen.fits
       THEN Answer(BATTERY_ERROR)
       ELSE /\ phase' = IF opts.nthreads <= 1 \/ TestId # TESTS_ALL
                        THEN "serial" ELSE "threads"
            /\ UNCHANGED <<user, nargs, opts, api, mutexes, filter, workers, code>>
    /\ UNCHANGED out

(***************************************************************************)
(* ... the tests run in the main thread, or in workers that are started    *)
(* and joined (BatteryThreads); their dispatcher asks for seeds ...        *)
(***************************************************************************)
RunSerial ==
    /\ phase = "serial" /\ phase' = "report"
    /\ UNCHANGED <<user, nargs, opts, key, api, mutexes, filter, workers, out, code>>

StartThreads ==
    /\ phase = "threads" /\ phase' = "join"
    /\ workers' = TRUE
    /\ key' = IF key = NoKey THEN RandomKey(run) ELSE key
    /\ UNCHANGED <<user, nargs, opts, api, mutexes, filter, out, code>>

JoinThreads ==
    /\ phase = "join" /\ phase' = "report"
    /\ workers' = FALSE
    /\ UNCHANGED <<user, nargs, opts, key, api, mutexes, filter, out, code>>

(***************************************************************************)
(* What decides the results of the tests, for a given battery and          *)
(* generator: the key, the tests selected, the filter, and how many        *)
(* generators the tests are dealt to.  That nothing else does is the       *)
(* subject of BatteryThreads.                                              *)
(***************************************************************************)
Report(failed) ==
    [test |-> TestId, filter |-> filter, asked |-> opts.filter, key |-> key,
     threads |-> IF opts.nthreads <= 1 \/ TestId # TESTS_ALL
                 THEN 1 ELSE opts.nthreads,
     failed |-> failed]

(***************************************************************************)
(* ... and the report has a line with the seed when there is one.          *)
(***************************************************************************)
PrintReport ==
    /\ phase = "report"
    /\ \E failed \in BOOLEAN :
        /\ reports' = [reports EXCEPT ![run] = {Report(failed)}]
        /\ code' = IF failed THEN BATTERY_FAILED ELSE BATTERY_PASSED
    /\ printed' = IF run = 1 /\ key # NoKey
                  THEN {[nthreads |-> opts.nthreads, key |-> key]} ELSE printed
    /\ phase' = "finish"
    /\ UNCHANGED <<run, battery, gen, nargs, opts, key, api, mutexes, filter,
                   workers, out>>

(***************************************************************************)
(* The end of input in a generator that reads stdin: exit(EXIT_FAILURE),   *)
(* in a battery or while the output size is checked.                       *)
(***************************************************************************)
StdinEnds ==
    /\ gen.kind = "stdin"
    /\ \/ phase = "generator" /\ gen.nbits = 32
       \/ phase = "serial"
       \/ phase = "battery" /\ ~TwoSelections /\ battery \in {"stdout", "special"}
    /\ out' = IF IsStdout THEN out \cup {"data"} ELSE out
    /\ phase' = "exited" /\ code' = EXIT_FAILURE
    /\ UNCHANGED <<user, nargs, opts, key, api, mutexes, filter, workers>>

(***************************************************************************)
(* The end of main: StdinCollector_print_report uses printf, whatever      *)
(* stdout is used for.                                                     *)
(***************************************************************************)
Finish ==
    /\ phase = "finish"
    /\ FreeApi
    /\ out' = IF gen.kind = "stdin" THEN out \cup {"text"} ELSE out
    /\ phase' = "exited"
    /\ UNCHANGED <<user, nargs, opts, key, api, filter, workers, code>>

Main ==
    \/ StdinThreads \/ ListTests \/ OpenStdin \/ InitApi \/ LoadFails \/ LoadModule
    \/ RunRefused \/ RunSpecial \/ RunStdout \/ CheckTestId \/ CheckGenerator
    \/ RunSerial \/ StartThreads \/ JoinThreads \/ PrintReport \/ StdinEnds
    \/ Finish

-----------------------------------------------------------------------------
(***************************************************************************)
(* The user starts a second process with the same battery and generator.   *)
(***************************************************************************)
Rerun ==
    /\ phase = "exited" /\ run = 1 /\ printed # {}
    /\ run' = 2 /\ phase' = "args"
    /\ nargs' = 0 /\ opts' = DefaultSettings /\ key' = NoKey
    /\ api' = "none" /\ mutexes' = "none" /\ filter' = "none"
    /\ workers' = FALSE /\ out' = {} /\ code' = BATTERY_UNKNOWN
    /\ UNCHANGED <<battery, gen, printed, reports>>

Done == phase = "exited" /\ (run = 2 \/ printed = {}) /\ UNCHANGED vars

Next == SettingsLoad \/ Main \/ Rerun \/ Done

Spec == Init /\ [][Next]_vars

-----------------------------------------------------------------------------
Phases == {"args", "dispatch", "load", "battery", "generator", "serial",
           "threads", "join", "report", "finish", "exited"}

Settings == [nthreads : Nat, nthreads_from_seed : Nat, testid : Nat,
             testname : Nat, filter : Filters]

Reports == [test : Nat, filter : Filters, asked : Filters, key : Keys,
            threads : Nat, failed : BOOLEAN]

TypeOK ==
    /\ run \in 1 .. 2 /\ phase \in Phases
    /\ battery \in Batteries /\ gen \in Generators
    /\ nargs \in 0 .. MaxArgs
    /\ opts \in Settings
    /\ key \in Keys
    /\ api \in {"none", "serial", "mthr"}
    /\ mutexes \in {"none", "live", "destroyed"}
    /\ filter \in Filters
    /\ workers \in BOOLEAN
    /\ out \subseteq {"text", "data"}
    /\ code \in BATTERY_PASSED .. BATTERY_UNKNOWN
    /\ printed \subseteq [nthreads : Nat, key : Keys]
    /\ reports \in [1 .. 2 -> SUBSET Reports]

(***************************************************************************)
(* "Such seeds are printed in all PRNG testing reports and allow to fully  *)
(* reproduce obtained results" (smokerand.1:398-400): a process that is given  *)
(* the seed of an earlier report and asked for the same tests and filter   *)
(* makes a report from the same key, tests and number of generators,       *)
(* whatever other options it gets and in whatever order.                   *)
(***************************************************************************)
SeedReproducesRun ==
    \A s \in printed, first \in reports[1], second \in reports[2] :
        (/\ opts.nthreads_from_seed = s.nthreads /\ second.key = s.key
         /\ second.test = first.test /\ second.filter = first.filter)
        => second.threads = first.threads /\ second.key = first.key

(***************************************************************************)
(* Workers only run under the thread-safe API, with its mutexes alive:     *)
(* main chooses the API, TestsBattery_run the number of threads, each by a *)
(* condition of its own.                                                   *)
(***************************************************************************)
ThreadsNeedLocks == workers => api = "mthr" /\ mutexes = "live"

(***************************************************************************)
(* An exit code 0 of a battery of tests means that a report was printed,   *)
(* on the tests and with the filter that were asked for, and that it has   *)
(* no failed test (core.h:101, "All battery tests have been passed").      *)
(***************************************************************************)
ZeroMeansPassed ==
    (phase = "exited" /\ code = 0 /\ battery = "tests" /\ gen.kind = "plugin") =>
        \E r \in reports[run] :
            /\ ~r.failed /\ r.filter = opts.filter
            /\ opts.testid # TESTS_ALL => r.test = opts.testid
            /\ opts.testname # 0 => r.test = opts.testname

(***************************************************************************)
(* "Messages mustn't be in PRNG output" (smokerand.c:620), for the plugins:*)
(* text and the output of the generator never share stdout.                *)
(***************************************************************************)
PluginOutputIsClean ==
    gen.kind = "plugin" => ~({"text", "data"} \subseteq out)

(***************************************************************************)
(* "--filter=name Apply pre-defined filter to the generator output"        *)
(* (smokerand.c:53): a report is about the filtered generator.             *)
(***************************************************************************)
FilterIsApplied ==
    \A r \in 1 .. 2 : \A report \in reports[r] : report.filter = report.asked

=============================================================================
