-------------------------------- MODULE Replan --------------------------------
(***************************************************************************)
(* The life of a task graph once it is planned: a run takes its tasks      *)
(* through adapter and validator, a failed task gets a proposal, users     *)
(* approve, reject and apply it, and a resume runs the stored graph again. *)
(*                                                                         *)
(* Runs are executed here task by task, by the rules of Scheduler (the     *)
(* loop itself is Orchestrator's), so that what a record keeps of a        *)
(* failure, and what the analyzer, the replanner and the applier make of   *)
(* it, can be followed into the next run.  Users are the threads and       *)
(* processes that decide about proposals; each call is split at its        *)
(* accesses of the proposal's file and of the task graph artifact.         *)
(***************************************************************************)
EXTENDS ReplanRules, Validation, FiniteSets

CONSTANTS
    Task,           \* the tasks of the planned graph
    NoTask,
    Planned,        \* the task graph the plan persisted
    Contracts,      \* of every task, what can be checked
    Modes,          \* the modes the environment may set
    CommitOutcomes, \* what git may make of an adapter's commit
    Works,          \* where the changes of one attempt may lie
    Endings,        \* how an agent may end without an implementation
    Rollback,       \* PROJECTFORGE_ROLLBACK_ON_FAILURE
    GitFails,       \* whether git may be missing, fail or time out
    MaxIterations,  \* CliAgentAdapter.max_iterations
    MaxRetries,     \* Replanner.max_retries
    Users,
    MaxRuns, MaxProposals   \* bounds

ASSUME ReplanAssumption ==
    /\ NoTask \notin Task
    /\ Planned.tasks \in Seq(Task) /\ Planned.topo \in Seq(Task)
    /\ TaskIds(Planned) = Task
    /\ Planned.deps \in [Task -> SUBSET Task]
    /\ Planned.check = "valid"
    /\ Contracts \in [Task -> Contract]
    /\ Modes \subseteq Mode /\ Modes # {}
    /\ CommitOutcomes \subseteq {"untracked", "same", "advanced"}
    /\ Works \subseteq {"none", "inside", "outside"}
    /\ Endings \subseteq {"none", "TIMEOUT", "ERROR", "FAILED"}
    /\ Rollback \in BOOLEAN /\ GitFails \in BOOLEAN
    /\ "untracked" \in CommitOutcomes => GitFails
    /\ MaxIterations \in Nat \ {0} /\ MaxRetries \in Nat
    /\ MaxRuns \in Nat /\ MaxProposals \in Nat

VARIABLES
    mode,       \* scope and criteria mode
    project,    \* its status
    stored,     \* the task graph artifact: graph and statuses
    loaded,     \* what the last run was handed
    live,       \* Task.status in that run's memory
    runs,       \* task_results of every run, the last one growing
    pc,         \* where the last run is: "idle" when it is over
    cur,        \* the task it executes
    iteration,  \* attempts of the adapter at it
    left,       \* uncommitted changes in the workspace
    evidence,   \* what was seen of the task validated last, for the properties
    proposals,  \* the stored proposals, in the order they were made
    calls,      \* per user, the call in progress
    approved,   \* history: the proposals some call has approved
    disturbed   \* history: applies overlapped, or one died before it persisted

runVars  == <<project, loaded, live, runs, pc, cur, iteration, left, evidence>>
userVars == <<stored, proposals, calls, approved, disturbed>>
vars == <<mode, runVars, userVars>>

-----------------------------------------------------------------------------
Reach == {"none", "inside", "outside"}

(* Changes add up: once something is outside, all of it is. *)
Both(a, b) ==
    IF "outside" \in {a, b} THEN "outside"
    ELSE IF "inside" \in {a, b} THEN "inside" ELSE "none"

NoEvidence == [task |-> NoTask]

IdleCall == [at |-> "idle"]

Init ==
    /\ mode \in Modes
    /\ project = "READY"
    /\ stored = [graph |-> Planned, status |-> [t \in Task |-> "PENDING"]]
    /\ loaded = stored /\ live = stored.status
    /\ runs = << >> /\ pc = "idle" /\ cur = NoTask /\ iteration = 0
    /\ left = "none" /\ evidence = NoEvidence
    /\ proposals = << >> /\ calls = [u \in Users |-> IdleCall]
    /\ approved = {} /\ disturbed = FALSE

-----------------------------------------------------------------------------
(* A run of the stored graph. *)

(* execute_run of a READY project, resume_project of a BLOCKED one for which *)
(* some proposal was applied; the graph is loaded, statuses included.        *)
Launch ==
    /\ pc = "idle" /\ Len(runs) < MaxRuns
    /\ \/ project = "READY"
       \/ /\ project = "BLOCKED"
          /\ \E i \in 1 .. Len(proposals) : proposals[i].status = "APPLIED"
    /\ project' = "EXECUTING"
    /\ loaded' = stored
    /\ UpdateStates(stored.graph, stored.status, live')
    /\ runs' = Append(runs, << >>)
    /\ pc' = "top"
    /\ UNCHANGED <<mode, cur, iteration, left, evidence, userVars>>

Wave == ReadyTasks(loaded.graph, live)

Begin ==
    /\ pc = "top"
    /\ \E t \in Wave :
          /\ IsFirst(loaded.graph, Wave, t)
          /\ live' = [live EXCEPT ![t] = "IN_PROGRESS"]
          /\ cur' = t
    /\ iteration' = 1
    /\ evidence' = NoEvidence
    /\ pc' = "attempting"
    /\ UNCHANGED <<mode, project, loaded, runs, left, userVars>>

(* one attempt more than there may be *)
M_AttemptsLeft == iteration <= MaxIterations

AttemptsLeft == iteration < MaxIterations

(* The agent exits with an error: the adapter starts it again. *)
AttemptFails ==
    /\ pc = "attempting" /\ AttemptsLeft
    /\ iteration' = iteration + 1
    /\ \E work \in Works : left' = Both(left, work)
    /\ UNCHANGED <<mode, project, loaded, live, runs, pc, cur, evidence, userVars>>

(* Settling the current task: its record, rollback, the sweep. *)
Settle(new, result) ==
    /\ UpdateStates(loaded.graph, [live EXCEPT ![cur] = new], live')
    /\ runs' = [runs EXCEPT ![Len(runs)] =
                   Append(@, [task |-> cur, status |-> new, result |-> result])]
    /\ cur' = NoTask /\ iteration' = 0
    /\ pc' = "top"
    /\ UNCHANGED <<mode, project, loaded, userVars>>

RollsBack(new) == Rollback /\ new = "FAILED"

(* What the workspace may hold once a task is settled as new.  A rollback is *)
(* best effort: the part of it that fails leaves what was there.            *)
Remaining(new, before) ==
    IF ~RollsBack(new) THEN {before}
    ELSE IF GitFails THEN {rest \in Works \cup {"none"} : Both(rest, before) = before}
    ELSE {"none"}

(* A timeout and an error end the attempts at once, the last exit with an    *)
(* error, too; execute itself may raise.  Nothing is committed.              *)
AgentGivesUp ==
    /\ pc = "attempting"
    /\ \E agent \in Endings, work \in Works :
          /\ agent = "FAILED" => ~AttemptsLeft
          /\ left' \in Remaining("FAILED", Both(left, work))
          /\ Settle("FAILED", [agent |-> agent, verdict |-> "none",
                               tests |-> FALSE, scope |-> "none"])
    /\ UNCHANGED evidence

(* only what the last attempt changed is reported *)
M_Reported(before, work, git, read) ==
    IF git = "advanced" /\ read THEN work ELSE "none"

(* The diff from the commit before the first attempt: it holds everything    *)
(* that was dirty, and nothing at all when the commit failed -- or when the  *)
(* diff itself did, which nobody is told.                                    *)
Reported(before, work, git, read) ==
    IF git = "advanced" /\ read THEN Both(before, work) ELSE "none"

(* Without a HEAD before and after, git status is reported instead: what the *)
(* commit, made or not, has left behind.                                     *)
Leftover(git, work) ==
    CASE git = "advanced"  -> {"none"}
      [] git = "same"      -> {Both(left, work)}
      [] git = "untracked" -> {"none", Both(left, work)}

AgentImplements ==
    /\ pc = "attempting"
    /\ \E work \in Works, git \in CommitOutcomes,
          read \in IF GitFails THEN BOOLEAN ELSE {TRUE} :
          /\ left' \in Leftover(git, work)
          /\ evidence' = [task |-> cur, real |-> Both(left, work), git |-> git,
                          read |-> read,
                          changes |-> IF git = "untracked" /\ read THEN left'
                                      ELSE Reported(left, work, git, read)]
    /\ live' = [live EXCEPT ![cur] = "VALIDATING"]
    /\ pc' = "validating"
    /\ UNCHANGED <<mode, project, loaded, runs, cur, iteration, userVars>>

StatusOf(verdict) ==
    CASE verdict = "PASS" -> "DONE"
      [] verdict = "FAIL" -> "FAILED"
      [] verdict = "NEEDS_REVIEW" -> "BLOCKED"

(* What the record keeps of a validated execution. *)
ResultOf(c, o, m) ==
    [agent |-> "IMPLEMENTED", verdict |-> Aggregated(c, o, m, {}),
     tests |-> \E k \in Criteria(c, o, m) : k.type = "TEST" /\ k.status = "FAIL",
     scope |-> EvaluateScope(c, o)]

ValidatorAnswers ==
    /\ pc = "validating"
    /\ \E exit \in IF Contracts[cur].tests THEN {"passed", "empty", "failed"}
                   ELSE {"passed"},
          holds \in SUBSET (Contracts[cur].checks \ {"MANUAL"}) :
          LET o == [exit |-> exit, holds |-> holds,
                    changes |-> evidence.changes, git |-> evidence.git]
              result == ResultOf(Contracts[cur], o, mode)
              new == StatusOf(result.verdict)
          IN  /\ evidence' = [task |-> cur, real |-> evidence.real,
                              read |-> evidence.read, seen |-> o]
              /\ left' \in Remaining(new, left)
              /\ Settle(new, result)

(* Nothing is ready: the run ends, and with it the project's status.         *)
EndRun ==
    /\ pc = "top" /\ Wave = {}
    /\ project' = IF \A t \in DOMAIN live : live[t] = "DONE"
                  THEN "COMPLETED" ELSE "BLOCKED"
    /\ pc' = "idle" /\ evidence' = NoEvidence
    /\ UNCHANGED <<mode, loaded, live, runs, cur, iteration, left, userVars>>

-----------------------------------------------------------------------------
(* Users. *)

FirstFailed(records) ==
    LET failed == {i \in 1 .. Len(records) : records[i].status = "FAILED"}
    IN  CHOOSE i \in failed : \A j \in failed : i <= j

(* create_proposal: analysis of the first FAILED record of a run that ended; *)
(* the attempts counted are those of that one run.                           *)
Create ==
    /\ Len(proposals) < MaxProposals
    /\ project # "COMPLETED"
    /\ \E r \in 1 .. Len(runs) :
          /\ r < Len(runs) \/ pc = "idle"
          /\ \E i \in 1 .. Len(runs[r]) : runs[r][i].status = "FAILED"
          /\ LET record == runs[r][FirstFailed(runs[r])]
                 attempts == Cardinality({i \in 1 .. Len(runs[r]) :
                                             runs[r][i].task = record.task})
             IN  /\ stored.status[record.task] # "DONE"
                 /\ proposals' = Append(proposals,
                      [task |-> record.task, status |-> "PROPOSED", parts |-> << >>,
                       action |-> Proposed(Recommended(record.result, attempts),
                                           attempts, MaxRetries)])
    /\ UNCHANGED <<mode, runVars, stored, calls, approved, disturbed>>

(* approve_proposal, reject_proposal: the proposal is loaded and looked at.  *)
DecideLoad(u) ==
    /\ calls[u] = IdleCall
    /\ \E i \in 1 .. Len(proposals), verdict \in {"APPROVED", "REJECTED"} :
          /\ proposals[i].status = "PROPOSED"
          /\ calls' = [calls EXCEPT ![u] =
                          [at |-> "decided", proposal |-> i, verdict |-> verdict]]
    /\ UNCHANGED <<mode, runVars, stored, proposals, approved, disturbed>>

(* ... and saved, whatever it has become meanwhile.                          *)
DecideSave(u) ==
    /\ calls[u].at = "decided"
    /\ proposals' = [proposals EXCEPT ![calls[u].proposal].status = calls[u].verdict]
    /\ approved' = IF calls[u].verdict = "APPROVED"
                   THEN approved \cup {calls[u].proposal} ELSE approved
    /\ calls' = [calls EXCEPT ![u] = IdleCall]
    /\ UNCHANGED <<mode, runVars, stored, disturbed>>

Applying(call) == call.at \in {"loaded", "checked", "applied"}

(* apply_replan: the graph is loaded, *)
ApplyLoad(u) ==
    /\ calls[u] = IdleCall
    /\ \E i \in 1 .. Len(proposals) :
          calls' = [calls EXCEPT ![u] =
                       [at |-> "loaded", proposal |-> i, graph |-> stored]]
    /\ disturbed' = (disturbed \/ \E w \in Users : Applying(calls[w]))
    /\ UNCHANGED <<mode, runVars, stored, proposals, approved>>

(* a proposal is applied while it waits for the user *)
M_ReadyToApply(p) == p.status \in {"PROPOSED", "APPROVED"}

ReadyToApply(p) == p.status = "APPROVED"

(* then the proposal, which is applied to the copy; a refusal ends the call, *)
ApplyCheck(u) ==
    /\ calls[u].at = "loaded"
    /\ LET p == proposals[calls[u].proposal]
           result == Applied([p EXCEPT !.status = "APPROVED"], calls[u].graph.graph,
                             calls[u].graph.status)
       IN  calls' = [calls EXCEPT ![u] =
              IF ReadyToApply(p) /\ result.ok
              THEN [at |-> "checked", proposal |-> calls[u].proposal,
                    graph |-> [graph |-> result.graph, status |-> result.status]]
              ELSE IdleCall]
    /\ UNCHANGED <<mode, runVars, stored, proposals, approved, disturbed>>

(* the proposal is saved as APPLIED, *)
ApplySave(u) ==
    /\ calls[u].at = "checked"
    /\ proposals' = [proposals EXCEPT ![calls[u].proposal].status = "APPLIED"]
    /\ calls' = [calls EXCEPT ![u].at = "applied"]
    /\ UNCHANGED <<mode, runVars, stored, approved, disturbed>>

(* and only then the graph is persisted (and the project record with it, which  *)
(* is ProjectRuns' part).                                                   *)
ApplyPersist(u) ==
    /\ calls[u].at = "applied"
    /\ stored' = calls[u].graph
    /\ calls' = [calls EXCEPT ![u] = IdleCall]
    /\ UNCHANGED <<mode, runVars, proposals, approved, disturbed>>

(* The process of a user dies: the call is not heard of again. *)
Vanish(u) ==
    /\ calls[u] # IdleCall
    /\ disturbed' = (disturbed \/ calls[u].at = "applied")
    /\ calls' = [calls EXCEPT ![u] = IdleCall]
    /\ UNCHANGED <<mode, runVars, stored, proposals, approved>>

RunStep ==
    \/ Begin \/ AttemptFails \/ AgentGivesUp \/ AgentImplements
    \/ ValidatorAnswers \/ EndRun

Next ==
    \/ Launch \/ RunStep \/ Create
    \/ \E u \in Users : \/ DecideLoad(u) \/ DecideSave(u)
                        \/ ApplyLoad(u) \/ ApplyCheck(u) \/ ApplySave(u)
                        \/ ApplyPersist(u) \/ Vanish(u)

Spec == Init /\ [][Next]_vars
-----------------------------------------------------------------------------
Actions == {"RETRY", "SPLIT", "BLOCK"}

Proposal == [task : Task, status : {"PROPOSED", "APPROVED", "REJECTED", "APPLIED"},
             parts : {<< >>}, action : Actions]

Plan == [graph : {Planned}, status : [Task -> TaskStatus]]

Record == [task : Task, status : Settled, result : Result]

CallOf(i) ==
    [at : {"decided"}, proposal : {i}, verdict : {"APPROVED", "REJECTED"}]
        \cup [at : {"loaded", "checked", "applied"}, proposal : {i}, graph : Plan]

(* Nothing but what the analyzer can recommend is proposed, so no task is    *)
(* added to the graph, and a call refers to a proposal that exists.          *)
TypeOK ==
    /\ mode \in Modes
    /\ project \in {"READY", "EXECUTING", "COMPLETED", "BLOCKED"}
    /\ stored \in Plan /\ loaded \in Plan /\ live \in [Task -> TaskStatus]
    /\ runs \in Seq(Seq(Record))
    /\ pc \in {"idle", "top", "attempting", "validating"}
    /\ cur \in Task \cup {NoTask} /\ (cur = NoTask <=> pc \in {"idle", "top"})
    /\ iteration \in 0 .. MaxIterations
    /\ left \in Reach
    /\ proposals \in Seq(Proposal)
    /\ \A u \in Users :
          \/ calls[u] = IdleCall
          \/ \E i \in 1 .. Len(proposals) : calls[u] \in CallOf(i)
    /\ approved \subseteq 1 .. Len(proposals)
    /\ disturbed \in BOOLEAN

Judges == "seen" \in DOMAIN evidence

(* A task is DONE only when what it declared was seen to hold: its suite     *)
(* passed (or was empty), prose was backed by a suite, in require mode every *)
(* machine check held, and in enforce mode nothing the adapter committed,    *)
(* failed attempts included, lies outside the paths it declared -- provided  *)
(* git could list it: a diff that fails after the commit counts as no        *)
(* changes, and the task passes unseen (validator.py:61,                     *)
(* cli_adapter.py:213, cli_adapter.py:331, validation_aggregator.py:56).     *)
DoneIsVerified ==
    Judges /\ live[evidence.task] = "DONE" =>
        LET c == Contracts[evidence.task]
            o == evidence.seen
        IN  /\ c.tests => o.exit \in {"passed", "empty"}
            /\ c.criteria => c.tests
            /\ mode.criteria = "require" => c.checks \ {"MANUAL"} \subseteq o.holds
            /\ /\ mode.scope = "enforce" /\ c.declared = "usable"
               /\ o.git = "advanced" /\ evidence.read
               => evidence.real # "outside"
            /\ c.declared # "untrusted"

(* The gray modes only watch: with scope "warn" and criteria "observe" the   *)
(* verdict, and so the status and what is proposed after a failure, is what  *)
(* it would have been had every check held and nothing lain outside          *)
(* (the comments at validator.py:149 and validator.py:343).                 *)
ObservingIsNeutral ==
    Judges /\ mode = [scope |-> "warn", criteria |-> "observe"] =>
        LET c == Contracts[evidence.task]
            o == evidence.seen
            good == [o EXCEPT !.holds = c.checks,
                              !.changes = IF @ = "outside" THEN "inside" ELSE @]
        IN  /\ Aggregated(c, o, mode, {}) = Aggregated(c, good, mode, {})
            /\ live[evidence.task] = "FAILED" =>
                   Recommended(ResultOf(c, o, mode), 1)
                       = Recommended(ResultOf(c, good, mode), 1)

(* Whatever calls race and die, a stored task is BLOCKED only by a proposal  *)
(* a user approved (replan_control.py:117, replan_control.py:131).          *)
BlocksWereApproved ==
    \A t \in Task : stored.status[t] = "BLOCKED" =>
        \E i \in approved : proposals[i].task = t /\ proposals[i].action = "BLOCK"

(* A block that was applied stays in force whatever is applied after it, a   *)
(* retry of the same task included, unless applies overlapped or one died    *)
(* between the saves of the proposal and of the graph (service.py:565).      *)
AppliedBlockStands ==
    ~disturbed /\ (\A u \in Users : ~Applying(calls[u])) =>
        \A i \in 1 .. Len(proposals) :
            proposals[i].status = "APPLIED" /\ proposals[i].action = "BLOCK"
                => stored.status[proposals[i].task] = "BLOCKED"

(* A task that one run finished is not executed by a later one: what         *)
(* docs/demo.md:27 and docs/product-core.md:82 say of a resume.              *)
DoneIsNotRedone ==
    \A i, j \in 1 .. Len(runs) : i < j =>
        \A k \in 1 .. Len(runs[i]), l \in 1 .. Len(runs[j]) :
            runs[i][k].status = "DONE" => runs[j][l].task # runs[i][k].task
===============================================================================
