------------------------- MODULE SmokeRandCli_proofs -------------------------
(***************************************************************************)
(* Proofs about SmokeRandCli, for every number of tests, threads, options, *)
(* every radix of the seed and every set of batteries and generators.      *)
(***************************************************************************)
EXTENDS SmokeRandCli, TLAPS

(***************************************************************************)
(* The thread-safe API is in use, with its mutexes alive, unless there is  *)
(* one thread, and workers exist only between start and join.              *)
(***************************************************************************)
Running == {"load", "battery", "generator", "serial", "threads", "join",
            "report", "finish"}

ApiInv ==
    /\ opts.nthreads # 0
    /\ phase \in Running =>
        \/ api = "mthr" /\ mutexes = "live"
        \/ api = "serial" /\ opts.nthreads = 1
    /\ phase \in {"threads", "join"} => opts.nthreads # 1
    /\ workers => phase = "join"

(***************************************************************************)
(* Number of generators the selected tests are dealt to.                   *)
(***************************************************************************)
Dealt(test, nthreads) == IF nthreads <= 1 \/ test # TESTS_ALL THEN 1 ELSE nthreads

(***************************************************************************)
(* A seed is printed with the report of the first process and agrees with  *)
(* it; the number of threads of a report is the one in force.              *)
(***************************************************************************)
SeedInv ==
    /\ run = 1 => reports[2] = {}
    /\ (run = 1 /\ phase \notin {"finish", "exited"}) => reports[1] = {} /\ printed = {}
    /\ \A s \in printed, first \in reports[1] :
        /\ s.nthreads # 0 /\ first.key = s.key
        /\ first.threads = Dealt(first.test, s.nthreads)
    /\ (phase \notin {"args", "exited"} /\ opts.nthreads_from_seed # 0) =>
            opts.nthreads = opts.nthreads_from_seed
    /\ \A second \in reports[2] :
        /\ phase \in {"finish", "exited"}
        /\ second.threads = Dealt(second.test, opts.nthreads)
        /\ opts.nthreads_from_seed # 0 => opts.nthreads = opts.nthreads_from_seed

IInv == TypeOK /\ ApiInv /\ SeedInv

(***************************************************************************)
(* The helper of main gives at least one thread.                           *)
(***************************************************************************)
LEMMA DefaultThreadsPositive == DefaultThreads \in Nat \ {0}
  BY CliAssumption DEF DefaultThreads

(***************************************************************************)
(* TestsBattery_get_testid answers with a number.                          *)
(***************************************************************************)
LEMMA TestIdType == TypeOK => TestId \in Nat
  BY CliAssumption DEF TypeOK, Settings, TestId, TEST_UNKNOWN, TESTS_ALL

(***************************************************************************)
(* The settings of SmokeRandSettings_init are settings.                    *)
(***************************************************************************)
LEMMA DefaultSettingsType == DefaultSettings \in Settings
  BY DEF DefaultSettings, Settings, Filters, TESTS_ALL

(***************************************************************************)
(* The invariant holds initially and every action preserves it.            *)
(***************************************************************************)
THEOREM Invariance == Spec => []IInv
<1>1. Init => IInv
  <2> SUFFICES ASSUME Init PROVE IInv
    OBVIOUS
  <2>1. TypeOK
    <3>1. reports \in [1 .. 2 -> SUBSET Reports]
      BY DEF Init
    <3>2. opts \in Settings
      BY DefaultSettingsType DEF Init
    <3>3. /\ run \in 1 .. 2 /\ nargs \in 0 .. MaxArgs /\ key \in Keys
          /\ code \in BATTERY_PASSED .. BATTERY_UNKNOWN
      BY CliAssumption DEF Init, Keys, NoKey, BATTERY_PASSED, BATTERY_UNKNOWN
    <3>4. printed \subseteq [nthreads : Nat, key : Keys] /\ out \subseteq {"text", "data"}
      BY DEF Init
    <3> QED
      BY <3>1, <3>2, <3>3, <3>4 DEF Init, TypeOK, Phases, Filters
  <2>2. ApiInv
    BY DEF Init, ApiInv, DefaultSettings, Running
  <2>3. SeedInv
    BY DEF Init, SeedInv
  <2> QED
    BY <2>1, <2>2, <2>3 DEF IInv
<1>2. IInv /\ [Next]_vars => IInv'
  <2> SUFFICES ASSUME IInv, [Next]_vars PROVE IInv'
    OBVIOUS
  <2> USE CliAssumption
  <2>1. CASE ArgThreads
    <3>1. TypeOK'
      BY <2>1, DefaultThreadsPositive
         DEF ArgThreads, NextArg, Accept, IInv, TypeOK, user, Settings
    <3>2. ApiInv'
      BY <2>1, DefaultThreadsPositive
         DEF ArgThreads, NextArg, Accept, IInv, ApiInv, Running
    <3>3. SeedInv'
      BY <2>1 DEF ArgThreads, NextArg, Accept, IInv, SeedInv, user
    <3> QED BY <3>1, <3>2, <3>3 DEF IInv
  <2>2. CASE ArgNumber
    <3>1. TypeOK'
      BY <2>2 DEF ArgNumber, NextArg, Accept, IInv, TypeOK, user, Settings
    <3>2. ApiInv'
      BY <2>2
         DEF ArgNumber, NextArg, Accept, IInv, TypeOK, ApiInv, Settings,
             Running
    <3>3. SeedInv'
      BY <2>2 DEF ArgNumber, NextArg, Accept, IInv, SeedInv, user
    <3> QED BY <3>1, <3>2, <3>3 DEF IInv
  <2>3. CASE ArgTestname
    <3>1. TypeOK'
      BY <2>3 DEF ArgTestname, NextArg, Accept, IInv, TypeOK, user, Settings
    <3>2. ApiInv'
      BY <2>3 DEF ArgTestname, NextArg, Accept, IInv, ApiInv
    <3>3. SeedInv'
      BY <2>3 DEF ArgTestname, NextArg, Accept, IInv, SeedInv, user
    <3> QED BY <3>1, <3>2, <3>3 DEF IInv
  <2>4. CASE ArgFilter
    <3>1. TypeOK'
      BY <2>4 DEF ArgFilter, NextArg, Accept, IInv, TypeOK, user, Settings
    <3>2. ApiInv'
      BY <2>4 DEF ArgFilter, NextArg, Accept, IInv, ApiInv
    <3>3. SeedInv'
      BY <2>4 DEF ArgFilter, NextArg, Accept, IInv, SeedInv, user
    <3> QED BY <3>1, <3>2, <3>3 DEF IInv
  <2>5. CASE ArgTextSeed
    <3>1. TypeOK'
      BY <2>5
         DEF ArgTextSeed, NextArg, Accept, TextKey, IInv, TypeOK, user, Keys
    <3>2. ApiInv'
      BY <2>5 DEF ArgTextSeed, NextArg, Accept, TextKey, IInv, ApiInv
    <3>3. SeedInv'
      BY <2>5 DEF ArgTextSeed, NextArg, Accept, TextKey, IInv, SeedInv, user
    <3> QED BY <3>1, <3>2, <3>3 DEF IInv
  <2>6. CASE ArgKeySeed
    <3>1. TypeOK'
      BY <2>6 DEF ArgKeySeed, NextArg, Accept, IInv, TypeOK, user, Settings
    <3>2. ApiInv'
      BY <2>6 DEF ArgKeySeed, NextArg, Accept, IInv, ApiInv
    <3>3. SeedInv'
      BY <2>6 DEF ArgKeySeed, NextArg, Accept, IInv, SeedInv, user
    <3> QED BY <3>1, <3>2, <3>3 DEF IInv
  <2>7. CASE ArgRefused
    <3>1. TypeOK'
      BY <2>7
         DEF ArgRefused, NextArg, EndEarly, IInv, TypeOK, user, Phases,
             BATTERY_PASSED, BATTERY_ERROR, BATTERY_UNKNOWN
    <3>2. ApiInv'
      BY <2>7 DEF ArgRefused, NextArg, EndEarly, IInv, ApiInv, Running
    <3>3. SeedInv'
      BY <2>7 DEF ArgRefused, NextArg, EndEarly, IInv, SeedInv, user
    <3> QED BY <3>1, <3>2, <3>3 DEF IInv
  <2>8. CASE ArgsDone
    <3>1. TypeOK'
      BY <2>8 DEF ArgsDone, IInv, TypeOK, user, Phases, Settings
    <3>2. ApiInv'
      BY <2>8 DEF ArgsDone, IInv, ApiInv, Running
    <3>3. SeedInv'
      BY <2>8 DEF ArgsDone, IInv, SeedInv, user
    <3> QED BY <3>1, <3>2, <3>3 DEF IInv
  <2>9. CASE StdinThreads
    <3>1. TypeOK'
      BY <2>9
         DEF StdinThreads, EndEarly, IInv, TypeOK, user, Phases,
             BATTERY_PASSED, BATTERY_ERROR, BATTERY_UNKNOWN
    <3>2. ApiInv'
      BY <2>9 DEF StdinThreads, EndEarly, IInv, ApiInv, Running
    <3>3. SeedInv'
      BY <2>9 DEF StdinThreads, EndEarly, IInv, SeedInv, user
    <3> QED BY <3>1, <3>2, <3>3 DEF IInv
  <2>10. CASE ListTests
    <3>1. TypeOK'
      BY <2>10
         DEF ListTests, EndEarly, IInv, TypeOK, user, Phases, BATTERY_PASSED,
             BATTERY_UNKNOWN
    <3>2. ApiInv'
      BY <2>10 DEF ListTests, EndEarly, IInv, ApiInv, Running
    <3>3. SeedInv'
      BY <2>10 DEF ListTests, EndEarly, IInv, SeedInv, user
    <3> QED BY <3>1, <3>2, <3>3 DEF IInv
  <2>11. CASE OpenStdin
    <3>1. TypeOK'
      BY <2>11 DEF OpenStdin, IInv, TypeOK, user, Phases
    <3>2. ApiInv'
      BY <2>11 DEF OpenStdin, IInv, TypeOK, ApiInv, Settings
    <3>3. SeedInv'
      BY <2>11 DEF OpenStdin, IInv, SeedInv, user
    <3> QED BY <3>1, <3>2, <3>3 DEF IInv
  <2>12. CASE InitApi
    <3>1. TypeOK'
      BY <2>12 DEF InitApi, IInv, TypeOK, user, Phases
    <3>2. ApiInv'
      BY <2>12 DEF InitApi, IInv, ApiInv
    <3>3. SeedInv'
      BY <2>12 DEF InitApi, IInv, SeedInv, user
    <3> QED BY <3>1, <3>2, <3>3 DEF IInv
  <2>13. CASE LoadFails
    <3>1. TypeOK'
      BY <2>13
         DEF LoadFails, FreeApi, IInv, TypeOK, user, Phases, BATTERY_PASSED,
             BATTERY_ERROR, BATTERY_UNKNOWN
    <3>2. ApiInv'
      BY <2>13 DEF LoadFails, FreeApi, IInv, ApiInv, Running
    <3>3. SeedInv'
      BY <2>13 DEF LoadFails, FreeApi, IInv, SeedInv, user
    <3> QED BY <3>1, <3>2, <3>3 DEF IInv
  <2>14. CASE LoadModule
    <3>1. TypeOK'
      BY <2>14 DEF LoadModule, IInv, TypeOK, user, Phases, Settings
    <3>2. ApiInv'
      BY <2>14 DEF LoadModule, IInv, ApiInv, Running
    <3>3. SeedInv'
      BY <2>14 DEF LoadModule, IInv, SeedInv, user
    <3> QED BY <3>1, <3>2, <3>3 DEF IInv
  <2>15. CASE RunRefused
    <3>1. TypeOK'
      BY <2>15
         DEF RunRefused, Answer, IInv, TypeOK, user, Phases, BATTERY_PASSED,
             BATTERY_ERROR, BATTERY_UNKNOWN
    <3>2. ApiInv'
      BY <2>15 DEF RunRefused, Answer, IInv, ApiInv, Running
    <3>3. SeedInv'
      BY <2>15 DEF RunRefused, Answer, IInv, SeedInv, user
    <3> QED BY <3>1, <3>2, <3>3 DEF IInv
  <2>16. CASE RunSpecial
    <3>1. TypeOK'
      BY <2>16
         DEF RunSpecial, Answer, IInv, TypeOK, user, Phases, BATTERY_PASSED,
             BATTERY_FAILED, BATTERY_ERROR, BATTERY_UNKNOWN
    <3>2. ApiInv'
      BY <2>16 DEF RunSpecial, Answer, IInv, ApiInv, Running
    <3>3. SeedInv'
      BY <2>16 DEF RunSpecial, Answer, IInv, SeedInv, user
    <3> QED BY <3>1, <3>2, <3>3 DEF IInv
  <2>17. CASE RunStdout
    <3>1. TypeOK'
      BY <2>17
         DEF RunStdout, Answer, RandomKey, IInv, TypeOK, user, Phases, Keys
    <3>2. ApiInv'
      BY <2>17 DEF RunStdout, Answer, RandomKey, IInv, ApiInv, Running
    <3>3. SeedInv'
      BY <2>17 DEF RunStdout, Answer, RandomKey, IInv, SeedInv, user
    <3> QED BY <3>1, <3>2, <3>3 DEF IInv
  <2>18. CASE CheckTestId
    <3>1. TypeOK'
      BY <2>18
         DEF CheckTestId, Answer, IInv, TypeOK, user, Phases, BATTERY_PASSED,
             BATTERY_ERROR, BATTERY_UNKNOWN
    <3>2. ApiInv'
      BY <2>18 DEF CheckTestId, Answer, IInv, ApiInv, Running
    <3>3. SeedInv'
      BY <2>18 DEF CheckTestId, Answer, IInv, SeedInv, user
    <3> QED BY <3>1, <3>2, <3>3 DEF IInv
  <2>19. CASE CheckGenerator
    <3>1. TypeOK'
      BY <2>19
         DEF CheckGenerator, Answer, RandomKey, IInv, TypeOK, user, Phases,
             Keys, BATTERY_PASSED, BATTERY_ERROR, BATTERY_UNKNOWN
    <3>2. ApiInv'
      BY <2>19 DEF CheckGenerator, Answer, RandomKey, IInv, ApiInv, Running
    <3>3. SeedInv'
      BY <2>19 DEF CheckGenerator, Answer, RandomKey, IInv, SeedInv, user
    <3> QED BY <3>1, <3>2, <3>3 DEF IInv
  <2>20. CASE RunSerial
    <3>1. TypeOK'
      BY <2>20 DEF RunSerial, IInv, TypeOK, user, Phases
    <3>2. ApiInv'
      BY <2>20 DEF RunSerial, IInv, ApiInv, Running
    <3>3. SeedInv'
      BY <2>20 DEF RunSerial, IInv, SeedInv, user
    <3> QED BY <3>1, <3>2, <3>3 DEF IInv
  <2>21. CASE StartThreads
    <3>1. TypeOK'
      BY <2>21 DEF StartThreads, RandomKey, IInv, TypeOK, user, Phases, Keys
    <3>2. ApiInv'
      BY <2>21 DEF StartThreads, RandomKey, IInv, ApiInv, Running
    <3>3. SeedInv'
      BY <2>21 DEF StartThreads, RandomKey, IInv, SeedInv, user
    <3> QED BY <3>1, <3>2, <3>3 DEF IInv
  <2>22. CASE JoinThreads
    <3>1. TypeOK'
      BY <2>22 DEF JoinThreads, IInv, TypeOK, user, Phases
    <3>2. ApiInv'
      BY <2>22 DEF JoinThreads, IInv, ApiInv, Running
    <3>3. SeedInv'
      BY <2>22 DEF JoinThreads, IInv, SeedInv, user
    <3> QED BY <3>1, <3>2, <3>3 DEF IInv
  <2>23. CASE PrintReport
    <3>1. TypeOK'
      BY <2>23, TestIdType
         DEF PrintReport, IInv, TypeOK, Phases, Settings, Reports, Report,
             BATTERY_PASSED, BATTERY_FAILED, BATTERY_UNKNOWN
    <3>2. ApiInv'
      BY <2>23 DEF PrintReport, IInv, ApiInv, Running
    <3>3. SeedInv'
      <4>1. PICK failed \in BOOLEAN :
                reports' = [reports EXCEPT ![run] = {Report(failed)}]
        BY <2>23 DEF PrintReport
      <4>2. /\ Report(failed).key = key
            /\ Report(failed).threads = Dealt(Report(failed).test, opts.nthreads)
        BY DEF Report, Dealt
      <4>3. CASE run = 1
        <5>1. reports'[1] = {Report(failed)} /\ reports'[2] = {}
          BY <4>1, <4>3, <2>23 DEF PrintReport, IInv, TypeOK, SeedInv
        <5>2. \A s \in printed' : s.key = key /\ s.nthreads = opts.nthreads
          BY <4>3, <2>23 DEF PrintReport, IInv, SeedInv
        <5> QED
          BY <5>1, <5>2, <4>2, <4>3, <2>23
             DEF PrintReport, IInv, ApiInv, SeedInv
      <4>4. CASE run = 2
        <5>1. reports'[1] = reports[1] /\ reports'[2] = {Report(failed)}
          BY <4>1, <4>4 DEF IInv, TypeOK
        <5>2. printed' = printed
          BY <4>4, <2>23 DEF PrintReport
        <5> QED
          BY <5>1, <5>2, <4>2, <4>4, <2>23 DEF PrintReport, IInv, SeedInv
      <4> QED
        BY <4>3, <4>4 DEF IInv, TypeOK
    <3> QED BY <3>1, <3>2, <3>3 DEF IInv
  <2>24. CASE StdinEnds
    <3>1. TypeOK'
      BY <2>24
         DEF StdinEnds, IInv, TypeOK, user, Phases, BATTERY_PASSED,
             BATTERY_UNKNOWN, EXIT_FAILURE
    <3>2. ApiInv'
      BY <2>24 DEF StdinEnds, IInv, ApiInv, Running
    <3>3. SeedInv'
      BY <2>24 DEF StdinEnds, IInv, SeedInv, user
    <3> QED BY <3>1, <3>2, <3>3 DEF IInv
  <2>25. CASE Finish
    <3>1. TypeOK'
      BY <2>25 DEF Finish, FreeApi, IInv, TypeOK, user, Phases
    <3>2. ApiInv'
      BY <2>25 DEF Finish, FreeApi, IInv, ApiInv, Running
    <3>3. SeedInv'
      BY <2>25 DEF Finish, FreeApi, IInv, SeedInv, user
    <3> QED BY <3>1, <3>2, <3>3 DEF IInv
  <2>26. CASE Rerun
    <3>1. TypeOK'
      <4>1. opts' \in Settings
        BY <2>26, DefaultSettingsType DEF Rerun, DefaultSettings, Settings
      <4>2. /\ run' \in 1 .. 2 /\ nargs' \in 0 .. MaxArgs /\ key' \in Keys
            /\ code' \in BATTERY_PASSED .. BATTERY_UNKNOWN
        BY <2>26 DEF Rerun, Keys, NoKey, BATTERY_PASSED, BATTERY_UNKNOWN
      <4>3. /\ printed' \subseteq [nthreads : Nat, key : Keys]
            /\ reports' \in [1 .. 2 -> SUBSET Reports]
            /\ battery' \in Batteries /\ gen' \in Generators
        BY <2>26 DEF Rerun, IInv, TypeOK, Keys
      <4>4. out' \subseteq {"text", "data"}
        BY <2>26 DEF Rerun
      <4> QED
        BY <2>26, <4>1, <4>2, <4>3, <4>4 DEF Rerun, TypeOK, Phases, Filters
    <3>2. ApiInv'
      BY <2>26 DEF Rerun, DefaultSettings, NoKey, ApiInv, Running
    <3>3. SeedInv'
      BY <2>26 DEF Rerun, DefaultSettings, NoKey, IInv, SeedInv
    <3> QED BY <3>1, <3>2, <3>3 DEF IInv
  <2>27. CASE Done
    <3>1. TypeOK'
      BY <2>27 DEF Done, IInv, TypeOK, user, vars
    <3>2. ApiInv'
      BY <2>27 DEF Done, IInv, ApiInv, vars
    <3>3. SeedInv'
      BY <2>27 DEF Done, IInv, SeedInv, user, vars
    <3> QED BY <3>1, <3>2, <3>3 DEF IInv
  <2>28. CASE UNCHANGED vars
    BY <2>28
       DEF IInv, TypeOK, ApiInv, SeedInv, user, vars, Settings, Filters, Keys,
           Reports
  <2> QED
    BY <2>1, <2>2, <2>3, <2>4, <2>5, <2>6, <2>7, <2>8, <2>9, <2>10, <2>11,
       <2>12, <2>13, <2>14, <2>15, <2>16, <2>17, <2>18, <2>19, <2>20, <2>21,
       <2>22, <2>23, <2>24, <2>25, <2>26, <2>27, <2>28
       DEF Next, SettingsLoad, Main
<1> QED
  BY <1>1, <1>2, PTL DEF Spec

(***************************************************************************)
(* The variables keep their types, for any numbers of tests, threads and   *)
(* options (SmokeRandSettings, run_battery, TestsBattery_run).             *)
(***************************************************************************)
THEOREM TypeCorrect == Spec => []TypeOK
<1>1. IInv => TypeOK
  BY DEF IInv
<1> QED
  BY <1>1, Invariance, PTL

(***************************************************************************)
(* Worker threads only ever run under the thread-safe API, although main   *)
(* and TestsBattery_run decide independently of each other.                *)
(***************************************************************************)
THEOREM ThreadsHaveLocks == Spec => []ThreadsNeedLocks
<1>1. IInv => ThreadsNeedLocks
  BY DEF IInv, ApiInv, ThreadsNeedLocks, Running
<1> QED
  BY <1>1, Invariance, PTL

(***************************************************************************)
(* The seed of a report leads to the same report again, whatever other     *)
(* options the second process gets and in whatever order.                  *)
(***************************************************************************)
THEOREM SeedReproduces == Spec => []SeedReproducesRun
<1>1. IInv => SeedReproducesRun
  BY DEF IInv, SeedInv, SeedReproducesRun
<1> QED
  BY <1>1, Invariance, PTL

-----------------------------------------------------------------------------
(***************************************************************************)
(* Stdout belongs to the generator in the modes that write its output, and *)
(* to messages in all others; only a plugin keeps them apart.              *)
(***************************************************************************)
OutInv ==
    gen.kind = "plugin" =>
        /\ battery = "stdout" => "text" \notin out
        /\ battery # "stdout" => "data" \notin out

(***************************************************************************)
(* Whatever the options and the battery, the messages of main and of the   *)
(* battery never get into the output of a plugin.                          *)
(***************************************************************************)
THEOREM OutputIsClean == Spec => []PluginOutputIsClean
<1>1. Init => OutInv
  BY DEF Init, OutInv
<1>2. OutInv /\ [Next]_vars => OutInv'
  <2> SUFFICES ASSUME OutInv, [Next]_vars PROVE OutInv'
    OBVIOUS
  <2>1. CASE ArgThreads
    BY <2>1
       DEF ArgThreads, NextArg, Accept, user, OutInv
  <2>2. CASE ArgNumber
    BY <2>2
       DEF ArgNumber, NextArg, Accept, user, OutInv
  <2>3. CASE ArgTestname
    BY <2>3
       DEF ArgTestname, NextArg, Accept, user, OutInv
  <2>4. CASE ArgFilter
    BY <2>4
       DEF ArgFilter, NextArg, Accept, user, OutInv
  <2>5. CASE ArgTextSeed
    BY <2>5
       DEF ArgTextSeed, NextArg, Accept, user, OutInv
  <2>6. CASE ArgKeySeed
    BY <2>6
       DEF ArgKeySeed, NextArg, Accept, user, OutInv
  <2>7. CASE ArgRefused
    BY <2>7
       DEF ArgRefused, NextArg, EndEarly, user, OutInv
  <2>8. CASE ArgsDone
    BY <2>8
       DEF ArgsDone, user, OutInv
  <2>9. CASE StdinThreads
    BY <2>9
       DEF StdinThreads, EndEarly, user, OutInv
  <2>10. CASE ListTests
    BY <2>10
       DEF ListTests, EndEarly, user, OutInv
  <2>11. CASE OpenStdin
    BY <2>11
       DEF OpenStdin, IsStdout, user, OutInv
  <2>12. CASE InitApi
    BY <2>12
       DEF InitApi, user, OutInv
  <2>13. CASE LoadFails
    BY <2>13
       DEF LoadFails, FreeApi, user, OutInv
  <2>14. CASE LoadModule
    BY <2>14
       DEF LoadModule, IsStdout, user, OutInv
  <2>15. CASE RunRefused
    BY <2>15
       DEF RunRefused, Answer, user, OutInv
  <2>16. CASE RunSpecial
    BY <2>16
       DEF RunSpecial, Answer, user, OutInv
  <2>17. CASE RunStdout
    BY <2>17
       DEF RunStdout, Answer, IsStdout, user, OutInv
  <2>18. CASE CheckTestId
    BY <2>18
       DEF CheckTestId, Answer, user, OutInv
  <2>19. CASE CheckGenerator
    BY <2>19
       DEF CheckGenerator, Answer, user, OutInv
  <2>20. CASE RunSerial
    BY <2>20
       DEF RunSerial, user, OutInv
  <2>21. CASE StartThreads
    BY <2>21
       DEF StartThreads, user, OutInv
  <2>22. CASE JoinThreads
    BY <2>22
       DEF JoinThreads, user, OutInv
  <2>23. CASE PrintReport
    BY <2>23
       DEF PrintReport, user, OutInv
  <2>24. CASE StdinEnds
    BY <2>24
       DEF StdinEnds, IsStdout, user, OutInv
  <2>25. CASE Finish
    BY <2>25
       DEF Finish, FreeApi, user, OutInv
  <2>26. CASE Rerun
    BY <2>26
       DEF Rerun, user, OutInv
  <2>27. CASE Done
    BY <2>27
       DEF Done, vars, user, OutInv
  <2>28. CASE UNCHANGED vars
    BY <2>28
       DEF OutInv, user, vars
  <2> QED
    BY <2>1, <2>2, <2>3, <2>4, <2>5, <2>6, <2>7, <2>8, <2>9, <2>10, <2>11,
       <2>12, <2>13, <2>14, <2>15, <2>16, <2>17, <2>18, <2>19, <2>20, <2>21,
       <2>22, <2>23, <2>24, <2>25, <2>26, <2>27, <2>28
       DEF Next, SettingsLoad, Main
<1>3. OutInv => PluginOutputIsClean
  BY DEF OutInv, PluginOutputIsClean
<1> QED
  BY <1>1, <1>2, <1>3, PTL DEF Spec

-----------------------------------------------------------------------------
(***************************************************************************)
(* What an answer 0 rests on.  Until a battery has answered, the answer is *)
(* BATTERY_UNKNOWN; from CheckTestId to the report the options select one  *)
(* existing test, or all; a plugin is read through the filter of the       *)
(* options; and nothing but PrintReport makes the answer of a battery of   *)
(* tests BATTERY_PASSED.                                                   *)
(***************************************************************************)
Testing == {"generator", "serial", "threads", "join", "report"}

Unanswered == Testing \cup {"args", "dispatch", "load", "battery"}

Filtered == Testing \cup {"battery"}

PassedReport ==
    \E r \in reports[run] :
        /\ ~r.failed /\ r.filter = opts.filter
        /\ opts.testid # TESTS_ALL => r.test = opts.testid
        /\ opts.testname # 0 => r.test = opts.testname

PassInv ==
    /\ phase \in Unanswered => code = BATTERY_UNKNOWN
    /\ phase \in Testing =>
        /\ battery = "tests" /\ ~TwoSelections /\ TestId # TEST_UNKNOWN
    /\ (gen.kind = "plugin" /\ phase \in Filtered) => filter = opts.filter
    /\ (/\ phase \in {"finish", "exited"} /\ code = 0
        /\ battery = "tests" /\ gen.kind = "plugin") => PassedReport

(***************************************************************************)
(* A test that exists and is the only one selected is the test of the      *)
(* report.                                                                 *)
(***************************************************************************)
LEMMA SelectedIsReported ==
    ASSUME TypeOK, ~TwoSelections, TestId # TEST_UNKNOWN
    PROVE  /\ opts.testid # TESTS_ALL => TestId = opts.testid
           /\ opts.testname # 0 => TestId = opts.testname
BY DEF TestId, TwoSelections, TESTS_ALL

(***************************************************************************)
(* The exit code 0 of a battery of tests means a report without failures   *)
(* on the tests and with the filter that were asked for, for any sequence  *)
(* of options.                                                             *)
(***************************************************************************)
THEOREM ZeroIsPassed == Spec => []ZeroMeansPassed
<1>1. Init => PassInv
  BY DEF Init, PassInv, Unanswered, Testing, Filtered
<1>2. TypeOK /\ PassInv /\ [Next]_vars => PassInv'
  <2> SUFFICES ASSUME TypeOK, PassInv, [Next]_vars PROVE PassInv'
    OBVIOUS
  <2> USE DEF Unanswered, Testing, Filtered
  <2>1. CASE ArgThreads
    BY <2>1
       DEF ArgThreads, NextArg, Accept, user, PassInv, PassedReport
  <2>2. CASE ArgNumber
    BY <2>2
       DEF ArgNumber, NextArg, Accept, user, PassInv, PassedReport
  <2>3. CASE ArgTestname
    BY <2>3
       DEF ArgTestname, NextArg, Accept, user, PassInv, PassedReport
  <2>4. CASE ArgFilter
    BY <2>4
       DEF ArgFilter, NextArg, Accept, user, PassInv, PassedReport
  <2>5. CASE ArgTextSeed
    BY <2>5
       DEF ArgTextSeed, NextArg, Accept, user, PassInv, PassedReport
  <2>6. CASE ArgKeySeed
    BY <2>6
       DEF ArgKeySeed, NextArg, Accept, user, PassInv, PassedReport
  <2>7. CASE ArgRefused
    BY <2>7
       DEF ArgRefused, NextArg, EndEarly, user, PassInv, PassedReport,
       BATTERY_PASSED, BATTERY_FAILED, BATTERY_ERROR, BATTERY_UNKNOWN,
       EXIT_FAILURE
  <2>8. CASE ArgsDone
    BY <2>8
       DEF ArgsDone, user, PassInv, PassedReport
  <2>9. CASE StdinThreads
    BY <2>9
       DEF StdinThreads, EndEarly, user, PassInv, PassedReport,
       BATTERY_PASSED, BATTERY_FAILED, BATTERY_ERROR, BATTERY_UNKNOWN,
       EXIT_FAILURE
  <2>10. CASE ListTests
    BY <2>10
       DEF ListTests, EndEarly, user, PassInv, PassedReport, BATTERY_PASSED,
       BATTERY_FAILED, BATTERY_ERROR, BATTERY_UNKNOWN, EXIT_FAILURE
  <2>11. CASE OpenStdin
    BY <2>11
       DEF OpenStdin, IsStdout, user, PassInv, PassedReport
  <2>12. CASE InitApi
    BY <2>12
       DEF InitApi, user, PassInv, PassedReport
  <2>13. CASE LoadFails
    BY <2>13
       DEF LoadFails, FreeApi, user, PassInv, PassedReport, BATTERY_PASSED,
       BATTERY_FAILED, BATTERY_ERROR, BATTERY_UNKNOWN, EXIT_FAILURE
  <2>14. CASE LoadModule
    BY <2>14
       DEF LoadModule, IsStdout, user, PassInv, PassedReport
  <2>15. CASE RunRefused
    BY <2>15
       DEF RunRefused, Answer, user, PassInv, PassedReport, BATTERY_PASSED,
       BATTERY_FAILED, BATTERY_ERROR, BATTERY_UNKNOWN, EXIT_FAILURE
  <2>16. CASE RunSpecial
    BY <2>16
       DEF RunSpecial, Answer, user, PassInv, PassedReport, BATTERY_PASSED,
       BATTERY_FAILED, BATTERY_ERROR, BATTERY_UNKNOWN, EXIT_FAILURE
  <2>17. CASE RunStdout
    BY <2>17
       DEF RunStdout, Answer, IsStdout, user, PassInv, PassedReport
  <2>18. CASE CheckTestId
    BY <2>18
       DEF CheckTestId, Answer, user, PassInv, PassedReport, BATTERY_ERROR,
       TwoSelections, TestId
  <2>19. CASE CheckGenerator
    BY <2>19
       DEF CheckGenerator, Answer, user, PassInv, PassedReport,
       BATTERY_ERROR, TwoSelections, TestId
  <2>20. CASE RunSerial
    BY <2>20
       DEF RunSerial, user, PassInv, PassedReport, TwoSelections, TestId
  <2>21. CASE StartThreads
    BY <2>21
       DEF StartThreads, user, PassInv, PassedReport, TwoSelections, TestId
  <2>22. CASE JoinThreads
    BY <2>22
       DEF JoinThreads, user, PassInv, PassedReport, TwoSelections, TestId
  <2>23. CASE PrintReport
    <3>1. PICK failed \in BOOLEAN :
              /\ reports' = [reports EXCEPT ![run] = {Report(failed)}]
              /\ code' = IF failed THEN BATTERY_FAILED ELSE BATTERY_PASSED
      BY <2>23 DEF PrintReport
    <3>2. Report(failed) \in reports'[run]
      BY <3>1 DEF TypeOK
    <3>3. /\ Report(failed).failed = failed /\ Report(failed).filter = filter
          /\ Report(failed).test = TestId
      BY DEF Report
    <3>4. ~TwoSelections /\ TestId # TEST_UNKNOWN
      BY <2>23 DEF PrintReport, PassInv
    <3>5. CASE failed
      BY <2>23, <3>1, <3>5 DEF PrintReport, PassInv, BATTERY_FAILED
    <3>6. CASE ~failed /\ gen.kind = "plugin"
      <4>1. PassedReport'
        BY <2>23, <3>2, <3>3, <3>4, <3>6, SelectedIsReported
           DEF PrintReport, PassInv, PassedReport
      <4> QED
        BY <2>23, <4>1 DEF PrintReport, PassInv
    <3>7. CASE gen.kind # "plugin"
      BY <2>23, <3>7 DEF PrintReport, PassInv
    <3> QED
      BY <3>5, <3>6, <3>7
  <2>24. CASE StdinEnds
    BY <2>24
       DEF StdinEnds, IsStdout, user, PassInv, PassedReport, BATTERY_PASSED,
       BATTERY_FAILED, BATTERY_ERROR, BATTERY_UNKNOWN, EXIT_FAILURE
  <2>25. CASE Finish
    BY <2>25
       DEF Finish, FreeApi, user, PassInv, PassedReport
  <2>26. CASE Rerun
    BY <2>26
       DEF Rerun, user, PassInv, PassedReport, BATTERY_UNKNOWN
  <2>27. CASE Done
    BY <2>27
       DEF Done, vars, user, PassInv, PassedReport, TwoSelections, TestId
  <2>28. CASE UNCHANGED vars
    BY <2>28
       DEF PassInv, user, vars, PassedReport, TwoSelections, TestId
  <2> QED
    BY <2>1, <2>2, <2>3, <2>4, <2>5, <2>6, <2>7, <2>8, <2>9, <2>10, <2>11,
       <2>12, <2>13, <2>14, <2>15, <2>16, <2>17, <2>18, <2>19, <2>20, <2>21,
       <2>22, <2>23, <2>24, <2>25, <2>26, <2>27, <2>28
       DEF Next, SettingsLoad, Main
<1>3. PassInv => ZeroMeansPassed
  BY DEF PassInv, PassedReport, ZeroMeansPassed
<1> QED
  BY <1>1, <1>2, <1>3, TypeCorrect, PTL DEF Spec

=============================================================================
