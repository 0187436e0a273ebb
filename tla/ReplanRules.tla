----------------------------- MODULE ReplanRules -----------------------------
(***************************************************************************)
(* What follows a failed task: app/agents/failure_analyzer.py classifies   *)
(* it, replanner.py turns the classification into a proposal, and          *)
(* replan_applier.py rewrites the task graph when the proposal is applied. *)
(*                                                                         *)
(* A result is what a task record keeps of one execution of a task:        *)
(*   agent   : the status of the adapter's result, "none" when it raised,  *)
(*   verdict : the aggregated verdict, "none" when it was not validated,   *)
(*   tests   : some TEST criterion failed,                                 *)
(*   scope   : the scope verdict.                                          *)
(* Task graphs are those of Scheduler; statuses are kept beside them.      *)
(***************************************************************************)
EXTENDS Scheduler, Lists

AgentStatus == {"none", "IMPLEMENTED", "FAILED", "ERROR", "TIMEOUT", "BLOCKED"}

Result == [agent : AgentStatus, verdict : {"none", "PASS", "FAIL", "NEEDS_REVIEW"},
           tests : BOOLEAN,
           scope : {"none", "WITHIN_SCOPE", "NEEDS_REVIEW", "SCOPE_VIOLATION"}]

(* FailureAnalyzer.analyze, the first branch that applies. *)
FailureType(r) ==
    IF r.agent = "none" THEN "AGENT_FAILURE"
    ELSE IF r.verdict = "FAIL" /\ r.tests THEN "TEST_FAILURE"
    ELSE IF r.verdict = "FAIL" /\ r.scope = "SCOPE_VIOLATION" THEN "SCOPE_VIOLATION"
    ELSE CASE r.agent = "TIMEOUT" -> "TIMEOUT"
           [] r.agent = "FAILED"  -> "AGENT_FAILURE"
           [] r.agent = "BLOCKED" -> "DEPENDENCY_FAILURE"
           [] OTHER -> IF r.verdict = "FAIL" THEN "VALIDATION_FAILURE" ELSE "UNKNOWN"

(* Only these are worth another attempt, and only the first two of a run.   *)
Recommended(r, attempts) ==
    IF FailureType(r) \in {"AGENT_FAILURE", "TEST_FAILURE", "TIMEOUT"} /\ attempts < 2
    THEN "RETRY" ELSE "BLOCK"

(* Replanner.propose: the action of the proposal (ADD_DEPENDENCY, which the  *)
(* schema knows, falls through to BLOCK).                                   *)
Proposed(recommended, attempts, maxRetries) ==
    CASE recommended = "RETRY" /\ attempts < maxRetries -> "RETRY"
      [] recommended = "SPLIT"                          -> "SPLIT"
      [] OTHER                                          -> "BLOCK"

-----------------------------------------------------------------------------
(* Kahn's algorithm over the list of tasks: what has been ordered and what   *)
(* waits in the queue after n rounds.  Unknown ids are no edges.             *)
Needs(g, t) == g.deps[t] \cap TaskIds(g)

(* The task at the head of the queue is ordered; those it was the last      *)
(* dependency of are queued.                                                *)
KahnStep(g, k) ==
    IF k.queue = << >> THEN k
    ELSE LET node  == Head(k.queue)
             order == Append(k.order, node)
             freed == {t \in TaskIds(g) : /\ node \in Needs(g, t)
                                          /\ Needs(g, t) \subseteq Elements(order)}
         IN  [order |-> order, queue |-> Tail(k.queue) \o Filtered(g.tasks, freed)]

KahnRounds(g) ==
    LET round[n \in 0 .. Len(g.tasks)] ==
            IF n = 0
            THEN [order |-> << >>,
                  queue |-> Filtered(g.tasks, {t \in TaskIds(g) : Needs(g, t) = {}})]
            ELSE KahnStep(g, round[n - 1])
    IN  round

(* _validate_task_graph: the order covers the graph. *)
StaysValid(g) == Len(KahnRounds(g)[Len(g.tasks)].order) = Len(g.tasks)

(* SPLIT appends copies of the task to the list; the order computed when the *)
(* graph was planned stays, and who depended on the task still does.         *)
SplitTask(g, t, parts) ==
    [g EXCEPT !.tasks = @ \o parts,
              !.deps = [u \in DOMAIN @ \cup Elements(parts) |->
                            IF u \in Elements(parts) THEN @[t] ELSE @[u]]]

(* _validate_proposal, for an APPROVED proposal p about the task p.task. *)
Applicable(p, g, st) ==
    /\ p.status = "APPROVED"
    /\ p.task \in TaskIds(g)
    /\ \A id \in Elements(p.parts) : id \notin TaskIds(g)

(* a retry clears whatever the task had *)
M_Retried(s) == "PENDING"

(* Only a FAILED task goes back to PENDING. *)
Retried(s) == IF s = "FAILED" THEN "PENDING" ELSE s

(* ReplanApplier.apply: whether it succeeds, and the graph and statuses it   *)
(* leaves behind then.  A DONE task is neither split nor blocked.            *)
Applied(p, g, st) ==
    LET Refused == [ok |-> FALSE, graph |-> g, status |-> st]
        Changed(newGraph, newStatus) ==
            [ok |-> StaysValid(newGraph), graph |-> newGraph, status |-> newStatus]
        s == st[p.task]
    IN  IF ~Applicable(p, g, st) THEN Refused
        ELSE IF p.action = "RETRY"
             THEN Changed(g, [st EXCEPT ![p.task] = Retried(s)])
        ELSE IF s = "DONE" THEN Refused
        ELSE IF p.action = "BLOCK"
             THEN Changed(g, [st EXCEPT ![p.task] = "BLOCKED"])
        ELSE Changed(SplitTask(g, p.task, p.parts),
                     [u \in DOMAIN st \cup Elements(p.parts) |->
                          IF u = p.task THEN "BLOCKED"
                          ELSE IF u \in Elements(p.parts) THEN "PENDING"
                          ELSE st[u]])
===============================================================================
