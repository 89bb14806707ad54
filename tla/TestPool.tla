------------------------------ MODULE TestPool ------------------------------
(***************************************************************************)
(* What a run of a battery promises, whatever executes it: a pool of tests *)
(* of which every worker takes one at a time, no test is taken twice, a    *)
(* report is made only of a complete pool, and a run that does not fail    *)
(* gets there.                                                             *)
(***************************************************************************)
EXTENDS Naturals

CONSTANTS Workers, Tests

VARIABLES
    runner,     \* the worker that took a test, 0 if none has
    complete,   \* the tests that have their result
    phase       \* "open", "reported", or "failed" if the run broke off

vars == <<runner, complete, phase>>

Init ==
    /\ runner = [t \in Tests |-> 0]
    /\ complete = {}
    /\ phase = "open"

Take(w, t) ==
    /\ phase = "open"
    /\ runner[t] = 0
    /\ \A u \in Tests : runner[u] = w => u \in complete
    /\ runner' = [runner EXCEPT ![t] = w]
    /\ UNCHANGED <<complete, phase>>

Complete(t) ==
    /\ phase = "open"
    /\ runner[t] # 0
    /\ t \notin complete
    /\ complete' = complete \cup {t}
    /\ UNCHANGED <<runner, phase>>

Report ==
    /\ phase = "open"
    /\ complete = Tests
    /\ phase' = "reported"
    /\ UNCHANGED <<runner, complete>>

Fail ==
    /\ phase = "open"
    /\ phase' = "failed"
    /\ UNCHANGED <<runner, complete>>

Next ==
    \/ \E w \in Workers, t \in Tests : Take(w, t)
    \/ \E t \in Tests : Complete(t)
    \/ Report
    \/ Fail

(***************************************************************************)
(* Failure may always happen but need not: only the rest is fair.          *)
(***************************************************************************)
Progress ==
    \/ \E w \in Workers, t \in Tests : Take(w, t)
    \/ \E t \in Tests : Complete(t)
    \/ Report

Spec == Init /\ [][Next]_vars /\ WF_vars(Progress)

=============================================================================
