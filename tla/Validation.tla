------------------------------ MODULE Validation ------------------------------
(***************************************************************************)
(* How a verdict is reached: DeterministicValidator.validate of            *)
(* app/agents/validator.py, the scope policy it shares with the adapters,  *)
(* the contract the orchestrator builds for a task, and the aggregation    *)
(* that has the last word.                                                 *)
(*                                                                         *)
(* A contract says what can be checked of a task, an observation what the  *)
(* checks saw.  Paths, commands and texts are reduced to what the verdict  *)
(* tells apart: whether there are any, and how they come out.              *)
(***************************************************************************)
EXTENDS Naturals

CheckKind == {"TEST", "COMMAND", "FILE", "PATTERN", "MANUAL"}

(* tests    : the task declares test paths                                 *)
(* criteria : it has acceptance criteria in prose                          *)
(* checks   : the kinds of its machine-checkable criteria                  *)
(* declared : the allowed paths it declares: none, usable ones, or only    *)
(*            ones that cannot be trusted (absolute, or with "..")         *)
Contract == [tests : BOOLEAN, criteria : BOOLEAN, checks : SUBSET CheckKind,
             declared : {"nothing", "usable", "untrusted"}]

(* exit    : pytest exit 0, exit 5 (no tests collected), or anything else  *)
(* holds   : the kinds of checks that came out well                        *)
(* changes : the files the adapter reports: none, only allowed ones, or    *)
(*           also ones outside what the task declared                      *)
(* git     : no checkpoint, a head missing, HEAD unchanged or advanced     *)
Observation == [exit : {"passed", "empty", "failed"}, holds : SUBSET CheckKind,
                changes : {"none", "inside", "outside"},
                git : {"absent", "untracked", "same", "advanced"}]

Mode == [scope : {"warn", "enforce"}, criteria : {"observe", "require"}]

Criterion(type, status) == [type |-> type, status |-> status]

-----------------------------------------------------------------------------
(* An empty suite counts as a passed one. *)
TestsPass(c, o) == c.tests /\ o.exit # "failed"

SelfTest(c, o) ==
    IF ~c.tests THEN {}
    ELSE {Criterion("TEST", IF TestsPass(c, o) THEN "PASS" ELSE "FAIL")}

(* Prose can be verified by nobody but a reader, unless a suite passed.     *)
Prose(c, o) ==
    IF c.criteria /\ ~TestsPass(c, o)
    THEN {Criterion("MANUAL", "NEEDS_REVIEW")} ELSE {}

(* Machine checks: one that does not hold fails the task in require mode,   *)
(* and is only noted in observe mode; a MANUAL one is left to the reader.   *)
Checks(c, o, m) ==
    {Criterion(k, IF k \in o.holds THEN "PASS" ELSE "FAIL") :
        k \in {j \in c.checks \ {"MANUAL"} : j \in o.holds \/ m.criteria = "require"}}

(* _build_contract: declared paths and the shared files, nothing (when what *)
(* was declared cannot be trusted), or the root of the workspace.           *)
AllowedPaths(c) ==
    CASE c.declared = "usable"    -> "declared"
      [] c.declared = "untrusted" -> "none"
      [] c.declared = "nothing"   -> "workspace"

EvaluateScope(c, o) ==
    CASE AllowedPaths(c) = "none"      -> "NEEDS_REVIEW"
      [] AllowedPaths(c) = "workspace" -> "WITHIN_SCOPE"
      [] AllowedPaths(c) = "declared"  ->
            IF o.changes = "outside" THEN "SCOPE_VIOLATION" ELSE "WITHIN_SCOPE"

Enforced(c, o, m) == EvaluateScope(c, o) = "SCOPE_VIOLATION" /\ m.scope = "enforce"

ScopeCheck(c, o, m) ==
    CASE EvaluateScope(c, o) = "WITHIN_SCOPE" -> {Criterion("FILE", "PASS")}
      [] EvaluateScope(c, o) = "NEEDS_REVIEW" -> {Criterion("FILE", "NEEDS_REVIEW")}
      [] OTHER -> IF Enforced(c, o, m) THEN {Criterion("FILE", "FAIL")} ELSE {}

(* The report contradicts git: files were changed but HEAD did not move.    *)
Contradicted(o) == o.git = "same" /\ o.changes # "none"

GitCheck(o) ==
    IF o.git \in {"same", "advanced"}
    THEN {Criterion("GIT", IF Contradicted(o) THEN "FAIL" ELSE "PASS")} ELSE {}

Criteria(c, o, m) ==
    SelfTest(c, o) \cup Prose(c, o) \cup Checks(c, o, m)
        \cup ScopeCheck(c, o, m) \cup GitCheck(o)

Judged(criteria) ==
    IF \E k \in criteria : k.status = "FAIL" THEN "FAIL"
    ELSE IF \E k \in criteria : k.status = "NEEDS_REVIEW" THEN "NEEDS_REVIEW"
    ELSE "PASS"

(* ValidationResult.failures is not empty. *)
HasFailures(c, o, m) ==
    \/ c.tests /\ o.exit = "failed"
    \/ Enforced(c, o, m)
    \/ Contradicted(o)

(* The verdict of the validator alone. *)
Validated(c, o, m) ==
    LET judged == Judged(Criteria(c, o, m))
    IN  IF Enforced(c, o, m) \/ (HasFailures(c, o, m) /\ judged = "PASS")
        THEN "FAIL" ELSE judged

-----------------------------------------------------------------------------
(* What a reviewing model finds weighs like a criterion: HIGH fails.        *)
Reviewed(findings) ==
    {Criterion("LLM_REVIEW", IF f = "HIGH" THEN "FAIL" ELSE "NEEDS_REVIEW") :
        f \in findings}

(* the aggregator derives the scope verdict again, whatever the mode *)
M_Aggregated(c, o, m, findings) ==
    IF EvaluateScope(c, o) = "SCOPE_VIOLATION" THEN "FAIL"
    ELSE Judged(Criteria(c, o, m) \cup Reviewed(findings))

(* ValidationAggregator.aggregate: the criteria alone decide.               *)
Aggregated(c, o, m, findings) == Judged(Criteria(c, o, m) \cup Reviewed(findings))
===============================================================================
