------------------------------- MODULE MCReplan -------------------------------
(* A small instance of Replan: two tasks, the second needs the first.        *)
EXTENDS Replan, TLC

CONSTANTS t1, t2, u1, u2

Tasks == {t1, t2}

Chain == [tasks |-> <<t1, t2>>, deps |-> [t \in Tasks |-> IF t = t2 THEN {t1} ELSE {}],
          topo |-> <<t1, t2>>, check |-> "valid"]

(* The first task has a suite, prose and a usable scope, the second two      *)
(* checks, one of them manual, and declares no paths.                        *)
Suite == [tests |-> TRUE, criteria |-> TRUE, checks |-> {}, declared |-> "usable"]
Files == [tests |-> FALSE, criteria |-> FALSE, checks |-> {"FILE", "MANUAL"},
          declared |-> "nothing"]

TwoContracts == [t \in Tasks |-> IF t = t1 THEN Suite ELSE Files]

Strict == [scope |-> "enforce", criteria |-> "require"]
Gray   == [scope |-> "warn", criteria |-> "observe"]
BothModes == {Strict, Gray}

UserSymmetry == Permutations({u1, u2})

(* Users act between runs.  A run reads nothing they write after it started, *)
(* and they read nothing of a run that has not ended, so that a step of      *)
(* theirs taken during a run can as well be taken right after it; a call may *)
(* still be in progress while runs start and end.                            *)
UsersBetweenRuns == pc = "idle" \/ userVars' = userVars

(* A bound: no two calls are both in progress when a run starts.            *)
OneCallAcrossRuns ==
    Len(runs') > Len(runs) =>
        Cardinality({u \in Users : calls[u] # IdleCall}) <= 1
===============================================================================
