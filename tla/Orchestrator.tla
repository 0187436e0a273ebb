----------------------------- MODULE Orchestrator -----------------------------
(***************************************************************************)
(* ExecutionOrchestrator.run of app/agents/orchestrator.py: the loop that  *)
(* takes a task graph through its ready waves, serially in the shared      *)
(* workspace or in parallel in git worktrees, until nothing is left to     *)
(* dispatch or the run is stopped between tasks.                           *)
(*                                                                         *)
(* One run() call is one thread; its workers are threads that only touch   *)
(* their own worktree, and the request to stop comes from outside and is   *)
(* read once per turn of the loop, before the turn decides what to start.  *)
(* Each action is the code between two points at which a worker, an        *)
(* outside request or the caller can be seen.  The git commands with which *)
(* the run cleans up (a rollback, the removal of a worktree) are best      *)
(* effort: unclean and stuck remember for which tasks they failed.         *)
(***************************************************************************)
EXTENDS Scheduler, FiniteSets

CONSTANTS
    Task,         \* the ids of the tasks of the graph
    Graphs,       \* the task graphs a run may be handed
    User,         \* author of changes in the workspace that are no task's
    NoTask,       \* no task
    Parallel,     \* parallel_enabled
    Rollback,     \* rollback_on_failure
    Replan,       \* an analyzer, a replanner and a store are configured
    Persist,      \* a JsonExecutionPersistence is configured
    Repository,   \* what run_dir is when the run starts, see RepositoryKind
    Commits,      \* whether an adapter's commit of its work may succeed, fail
    GitFails,     \* whether the run's own git commands may fail or time out
    MaxWorkers,   \* max_parallel_workers, 0 for None
    Stops,        \* which stop requests can come: "cancel", "budget"
    StartStatus   \* the statuses tasks may carry in the graph handed to run()

Author == Task \cup {User}

(* "none": no usable git; "fresh": no repository yet, the run makes one;   *)
(* "existing": a repository with commits, maybe with uncommitted changes.  *)
RepositoryKind == {"none", "fresh", "existing"}

ASSUME OrchestratorAssumption ==
    /\ User \notin Task
    /\ NoTask \notin Task
    /\ \A g \in Graphs :
          /\ g.tasks \in Seq(Task)
          /\ g.topo \in Seq(Task)
          /\ TaskIds(g) = Task
          /\ DOMAIN g.deps = Task
          /\ g.check \in {"absent", "valid", "invalid"}
    /\ Parallel \in BOOLEAN /\ Rollback \in BOOLEAN /\ GitFails \in BOOLEAN
    /\ MaxWorkers \in Nat
    /\ Replan \in BOOLEAN /\ Persist \in BOOLEAN
    /\ Repository \in RepositoryKind
    /\ Commits \in SUBSET BOOLEAN /\ Commits # {}
    /\ Repository = "none" => Commits = {FALSE}
    /\ Stops \subseteq {"cancel", "budget"}
    /\ StartStatus \subseteq {"PENDING", "BLOCKED"}

VARIABLES
    graph,      \* the TaskGraph argument (its statuses are in status)
    status,     \* Task.status
    run,        \* the ExecutionRun, without its task_results
    records,    \* run.task_results
    proposals,  \* tasks for which a PROPOSED replan proposal is stored
    saved,      \* execution.json, NoRun when it was never written
    pc,         \* where run() is
    cur,        \* next_task, in the serial body
    wave,       \* the tasks of the wave being run in parallel
    todo,       \* those of them the current phase has not handled
    queued,     \* those of them no worker thread has taken up
    outcome,    \* _WaveOutcome.status of each, "none" before it exists
    carries,    \* wave tasks whose branch carries a commit of their work
    worktrees,  \* tasks that own a worktree or a branch
    stuck,      \* history: tasks whose worktree git would not remove
    head,       \* authors whose changes HEAD of the workspace contains
    dirty,      \* authors with uncommitted changes in the workspace
    base,       \* head_before_task, or base_head of the wave
    unclean,    \* history: tasks whose rollback failed in git
    checked,    \* the last validation of a task: its verdict, what it saw
    stop        \* stop requests made so far

loopVars  == <<pc, cur, wave, todo>>
runVars   == <<run, records, proposals, saved>>
waveVars  == <<queued, outcome, carries, worktrees, stuck>>
gitVars   == <<head, dirty, base, unclean>>
vars == <<graph, status, runVars, loopVars, waveVars, gitVars, checked, stop>>

-----------------------------------------------------------------------------
(* Shorthands *)

NoRun == [run |-> "none"]

NotChecked == [verdict |-> "none", against |-> {}]

Verdict == {"PASS", "FAIL", "NEEDS_REVIEW"}

With(st, s) == {t \in Task : st[t] = s}

AdapterFailure == {"FAILED", "ERROR", "TIMEOUT"}

(* M_... : see Scheduler; plausible mistakes, used by no specification.     *)

(* the adapter's status is taken over as the task's *)
M_StatusTakenOver(r) == r

StatusOfResult(r) == IF r \in AdapterFailure THEN "FAILED" ELSE "BLOCKED"

StatusOfVerdict(v) ==
    CASE v = "PASS"         -> "DONE"
      [] v = "FAIL"         -> "FAILED"
      [] v = "NEEDS_REVIEW" -> "BLOCKED"

Visible == head \cup dirty

(* What a validation sees: in a worktree, or in the shared workspace.       *)
WorktreeView(t) == base \cup {t}

(* the integrated validation is handed the worktree again *)
M_WorkspaceView(t) == WorktreeView(t)

WorkspaceView(t) == Visible

Wave == ReadyTasks(graph, status)

(* the record is written before the run is brought up to date *)
M_SaveRunFirst ==
    saved' = IF Persist THEN [run |-> run, records |-> records] ELSE saved

FileCancelled == saved # NoRun /\ saved.run.cancelled

(* persistence.save_run: the whole record replaces execution.json, but a     *)
(* cancellation that is in the file stays in it.                             *)
SaveRun ==
    saved' = IF Persist
             THEN [run     |-> [run' EXCEPT !.cancelled = @ \/ FileCancelled],
                   records |-> records']
             ELSE saved

(* the blocked list is forgotten *)
M_RefreshedWithoutBlocked ==
    [run EXCEPT !.ready = Wave, !.completed = With(status, "DONE"),
                !.failed = With(status, "FAILED")]

(* The lists of the run, recomputed at the top of every turn (line 156). *)
Refreshed ==
    [run EXCEPT !.ready     = Wave,
                !.completed = With(status, "DONE"),
                !.failed    = With(status, "FAILED"),
                !.blocked   = With(status, "BLOCKED")]

(* one proposal per run *)
M_ProposeOnce(t, asked) ==
    IF Replan /\ asked /\ run.proposal = NoTask
    THEN /\ proposals' = proposals \cup {t}
         /\ run' = [run EXCEPT !.status = "BLOCKED",
                               !.reason = "NEEDS_USER_REPLAN_APPROVAL",
                               !.proposal = t]
    ELSE UNCHANGED <<run, proposals>>

(* _maybe_generate_replan: the run is marked BLOCKED, the loop goes on.     *)
MaybePropose(t, asked) ==
    IF Replan /\ asked
    THEN /\ proposals' = proposals \cup {t}
         /\ run' = [run EXCEPT !.status = "BLOCKED",
                               !.reason = "NEEDS_USER_REPLAN_APPROVAL",
                               !.proposal = t]
    ELSE UNCHANGED <<run, proposals>>

Init ==
    /\ graph \in Graphs
    /\ status \in [Task -> StartStatus]
    /\ run = [status |-> "RUNNING", reason |-> "", proposal |-> NoTask,
              cancelled |-> FALSE, ready |-> {}, completed |-> {},
              failed |-> {}, blocked |-> {}]
    /\ records = << >> /\ proposals = {} /\ saved = NoRun
    /\ pc = "begin" /\ cur = NoTask /\ wave = {} /\ todo = {}
    /\ queued = {} /\ outcome = [t \in Task |-> "none"] /\ carries = {}
    /\ worktrees = {} /\ stuck = {}
    /\ head = {} /\ dirty \in SUBSET {User} /\ base = {} /\ unclean = {}
    /\ checked = [t \in Task |-> NotChecked]
    /\ stop = {}

-----------------------------------------------------------------------------
(* Entering run(): create_run, _ensure_git_baseline, the graph check, the   *)
(* first sweep.  A repository made here commits everything it finds; when   *)
(* git cannot make it the run has no repository (Repository = "none").      *)
EnsureGitBaseline ==
    IF Repository = "fresh"
    THEN head' = dirty /\ dirty' = {}
    ELSE UNCHANGED <<head, dirty>>

RejectGraph ==
    /\ pc = "begin"
    /\ graph.check = "invalid"
    /\ EnsureGitBaseline
    /\ run' = [run EXCEPT !.status = "BLOCKED", !.reason = "INVALID_GRAPH"]
    /\ UNCHANGED records
    /\ SaveRun
    /\ pc' = "returned"
    /\ UNCHANGED <<graph, status, proposals, cur, wave, todo, waveVars, base,
                   unclean, checked, stop>>

EnterLoop ==
    /\ pc = "begin"
    /\ graph.check # "invalid"
    /\ EnsureGitBaseline
    /\ UpdateStates(graph, status, status')
    /\ UNCHANGED <<run, records>>
    /\ SaveRun
    /\ pc' = "top"
    /\ UNCHANGED <<graph, proposals, cur, wave, todo, waveVars, base, unclean,
                   checked, stop>>

-----------------------------------------------------------------------------
(* The top of the loop. *)

(* a turn of the loop begins with the dispatch *)
M_TurnBegins == pc = "top"

(* Neither a cancellation nor the end of the budget is seen this turn.      *)
TurnBegins == pc = "top" /\ stop = {}

(* The poll has passed.  What it read is not read again: a stop that comes  *)
(* from here on is too late for this turn.                                  *)
Poll ==
    /\ TurnBegins
    /\ pc' = "turn"
    /\ UNCHANGED <<graph, status, runVars, cur, wave, todo, waveVars, gitVars,
                   checked, stop>>

(* a stop blocks FAILED tasks, too *)
M_StoppedStatus(t) == IF status[t] = "DONE" THEN "DONE" ELSE "BLOCKED"

StoppedStatus(t) == IF status[t] \in Settled THEN status[t] ELSE "BLOCKED"

(* The only point at which a cancellation or the wall-clock budget is seen.   *)
StopBetweenTasks ==
    /\ pc = "top"
    /\ stop # {}
    /\ status' = [t \in Task |-> StoppedStatus(t)]
    /\ run' = [run EXCEPT !.status = "BLOCKED",
                          !.reason = IF "budget" \in stop
                                     THEN "TIME_BUDGET_EXCEEDED" ELSE "CANCELLED",
                          !.cancelled = "budget" \notin stop,
                          !.blocked = With(status', "BLOCKED")]
    /\ UNCHANGED records
    /\ SaveRun
    /\ pc' = "returned"
    /\ UNCHANGED <<graph, proposals, cur, wave, todo, waveVars, gitVars, checked, stop>>

(* everything has settled *)
M_AllDone == \A t \in Task : status[t] \in Settled

AllDone == \A t \in Task : status[t] = "DONE"

Complete ==
    /\ pc = "turn"
    /\ AllDone
    /\ run' = [Refreshed EXCEPT !.status = "COMPLETED"]
    /\ UNCHANGED records
    /\ SaveRun
    /\ pc' = "returned"
    /\ UNCHANGED <<graph, status, proposals, cur, wave, todo, waveVars, gitVars,
                   checked, stop>>

(* No task can be dispatched: _blocking_reason, unless a proposal is open.  *)
NothingReady ==
    /\ pc = "turn"
    /\ ~AllDone
    /\ Wave = {}
    /\ run' = IF run.proposal # NoTask THEN Refreshed
              ELSE [Refreshed EXCEPT
                      !.status = "BLOCKED",
                      !.reason = IF With(status, "PENDING") # {}
                                 THEN "UNRESOLVED_DEPENDENCIES" ELSE "STOPPED"]
    /\ UNCHANGED records
    /\ SaveRun
    /\ pc' = "returned"
    /\ UNCHANGED <<graph, status, proposals, cur, wave, todo, waveVars, gitVars,
                   checked, stop>>

(* The wave is fanned out only when run_dir has a HEAD to branch from.      *)
FansOut == Parallel /\ Repository # "none" /\ \E t, u \in Wave : t # u

(* the rollback point is taken once per run *)
M_HeadBeforeTask == IF base = {} THEN head ELSE base

HeadBeforeTask == head

(* The serial body up to adapter.execute, for the head of the wave.         *)
StartSerially(t, before) ==
    /\ status' = [before EXCEPT ![t] = "IN_PROGRESS"]
    /\ run' = Refreshed
    /\ UNCHANGED records
    /\ SaveRun
    /\ base' = HeadBeforeTask
    /\ cur' = t
    /\ pc' = "executing"
    /\ UNCHANGED <<graph, proposals, wave, todo, queued, outcome, carries, head,
                   dirty, unclean, checked, stop>>

(* The run stays serial, too, when git does not tell it its HEAD.           *)
DispatchHead ==
    /\ pc = "turn"
    /\ ~FansOut \/ GitFails
    /\ UNCHANGED <<worktrees, stuck>>
    /\ \E t \in Wave : IsFirst(graph, Wave, t) /\ StartSerially(t, status)

-----------------------------------------------------------------------------
(* The serial body: one task in the shared workspace. *)

(* A successful adapter commits everything that is dirty, whoever wrote it, *)
(* or fails to (best effort) and leaves it uncommitted.                     *)
AdapterCommits(t) ==
    \/ /\ TRUE \in Commits
       /\ head' = head \cup dirty \cup {t}
       /\ dirty' = {}
    \/ /\ FALSE \in Commits
       /\ dirty' = dirty \cup {t}
       /\ UNCHANGED head

(* Settling a task: its status, its record, _maybe_rollback, the sweep, the *)
(* save and, if asked, a proposal; the next turn of the loop follows.       *)
Settle(t, new, asked) ==
    /\ UpdateStates(graph, [status EXCEPT ![t] = new], status')
    /\ records' = Append(records, [task |-> t, status |-> new])
    /\ MaybePropose(t, asked)
    /\ SaveRun
    /\ cur' = NoTask
    /\ pc' = "top"
    /\ UNCHANGED <<graph, wave, todo, waveVars, base, stop>>

(* nothing to do when the working tree is clean *)
M_RollsBackIfDirty(new) ==
    Rollback /\ new = "FAILED" /\ Repository # "none" /\ dirty # {}

(* Only a FAILED task is rolled back. *)
RollsBack(new) == Rollback /\ new = "FAILED" /\ Repository # "none"

(* git reset --hard base; git clean -fd, of a workspace whose uncommitted   *)
(* changes are left.  Neither result is looked at, and without a HEAD read  *)
(* when the task began nothing is run: what fails leaves what was there.    *)
RollBack(t, left) ==
    \/ head' = base /\ dirty' = {} /\ UNCHANGED unclean
    \/ /\ GitFails
       /\ head' \in {base, head} /\ dirty' \in SUBSET left
       /\ unclean' = unclean \cup {t}

(* adapter.execute raises, or returns a result that is not IMPLEMENTED; it  *)
(* may have left work behind.                                               *)
AdapterFails ==
    /\ pc = "executing"
    /\ \E r \in AdapterFailure \cup {"RAISED", "BLOCKED"}, work \in {{}, {cur}} :
          LET new  == IF r = "RAISED" THEN "FAILED" ELSE StatusOfResult(r)
              left == dirty \cup work
          IN  /\ IF RollsBack(new) THEN RollBack(cur, left)
                                   ELSE dirty' = left /\ UNCHANGED <<head, unclean>>
              /\ Settle(cur, new, TRUE)
    /\ UNCHANGED checked

AdapterImplements ==
    /\ pc = "executing"
    /\ AdapterCommits(cur)
    /\ status' = [status EXCEPT ![cur] = "VALIDATING"]
    /\ UNCHANGED <<run, records>>
    /\ SaveRun
    /\ pc' = "validating"
    /\ UNCHANGED <<graph, proposals, cur, wave, todo, waveVars, base, unclean,
                   checked, stop>>

(* Validator and aggregation against the shared workspace.                  *)
ValidatorAnswers ==
    /\ pc = "validating"
    /\ \E v \in Verdict :
          LET new == StatusOfVerdict(v) IN
          /\ checked' = [checked EXCEPT ![cur] =
                               [verdict |-> v, against |-> WorkspaceView(cur)]]
          /\ IF RollsBack(new) THEN RollBack(cur, dirty)
                               ELSE UNCHANGED <<head, dirty, unclean>>
          /\ Settle(cur, new, new = "FAILED")

(* validate is not guarded: what it raises leaves run().                    *)
ValidatorRaises ==
    /\ pc = "validating"
    /\ pc' = "raised"
    /\ UNCHANGED <<graph, status, runVars, cur, wave, todo, waveVars, gitVars,
                   checked, stop>>

-----------------------------------------------------------------------------
(* _run_wave_parallel: every task of the wave in a worktree of its own.     *)

(* The tasks for which git worktree add succeeded before it failed; it does *)
(* fail for a task that still has a branch.                                 *)
CreatedBeforeFailure ==
    {P \in SUBSET (Wave \ worktrees) :
        /\ P # Wave
        /\ \A t \in P, u \in Wave \ P : Before(graph, t, u)}

(* What may stay although it is given back: best-effort removals, and what   *)
(* the failing git worktree add had made before it failed.                   *)
MayStay(P) ==
    IF GitFails THEN P \cup {t \in Wave : IsFirst(graph, Wave \ P, t)} ELSE {}

(* the tasks whose worktrees were removed again stay IN_PROGRESS *)
M_BackToPending(P) == [t \in Task |-> IF t \in P THEN "IN_PROGRESS" ELSE status[t]]

BackToPending(P) == [t \in Task |-> IF t \in P THEN "PENDING" ELSE status[t]]

InProgress(P) == [t \in Task |-> IF t \in P THEN "IN_PROGRESS" ELSE status[t]]

(* WorktreeError: what was created is removed again, its tasks go back to   *)
(* PENDING, and the serial body runs the head of the wave.                  *)
FallBackToSerial ==
    /\ pc = "turn"
    /\ FansOut
    /\ \E P \in CreatedBeforeFailure :
          /\ \E stay \in SUBSET MayStay(P) :
                worktrees' = worktrees \cup stay /\ stuck' = stuck \cup stay
          /\ \E t \in Wave : IsFirst(graph, Wave, t) /\ StartSerially(t, BackToPending(P))

(* The removal itself raises at r (a git timeout): this leaves run() with    *)
(* the worktrees of r and of those after it.                                 *)
FallBackRaises ==
    /\ pc = "turn"
    /\ FansOut /\ GitFails
    /\ \E P \in CreatedBeforeFailure : \E r \in P :
          LET removed == {t \in P : Before(graph, t, r)} IN
          /\ status' = [t \in Task |-> IF t \in removed THEN "PENDING"
                                       ELSE InProgress(P)[t]]
          /\ \E stay \in SUBSET MayStay(P) :
                /\ P \ (removed \cup {r}) \subseteq stay
                /\ worktrees' = worktrees \cup stay
    /\ run' = Refreshed
    /\ pc' = "raised"
    /\ UNCHANGED <<graph, records, proposals, saved, cur, wave, todo, queued, outcome,
                   carries, stuck, gitVars, checked, stop>>

(* Anything else mgr.head or mgr.create raises (a git timeout) leaves run(), *)
(* before the block that reclaims worktrees is entered.                      *)
WorktreeCreationRaises ==
    /\ pc = "turn"
    /\ FansOut /\ GitFails
    /\ \E P \in CreatedBeforeFailure, partial \in BOOLEAN :
          /\ status' = InProgress(P)
          /\ worktrees' = worktrees \cup (IF partial THEN MayStay(P) ELSE P)
    /\ run' = Refreshed
    /\ pc' = "raised"
    /\ UNCHANGED <<graph, records, proposals, saved, cur, wave, todo, queued, outcome,
                   carries, stuck, gitVars, checked, stop>>

FanOut ==
    /\ pc = "turn"
    /\ FansOut
    /\ Wave \cap worktrees = {}
    /\ run' = Refreshed
    /\ status' = InProgress(Wave)
    /\ wave' = Wave /\ todo' = Wave /\ queued' = Wave
    /\ worktrees' = worktrees \cup Wave
    /\ base' = head
    /\ pc' = "workers"
    /\ UNCHANGED <<graph, records, proposals, saved, cur, outcome, carries, stuck, head,
                   dirty, unclean, checked, stop>>

(* A free thread of the pool takes up the next task of the wave; nobody      *)
(* looks at a stop any more.                                                 *)
WorkerStarts ==
    /\ pc = "workers"
    /\ MaxWorkers = 0 \/ Cardinality(todo \ queued) < MaxWorkers
    /\ \E t \in queued : IsFirst(graph, queued, t) /\ queued' = queued \ {t}
    /\ UNCHANGED <<graph, status, runVars, loopVars, outcome, carries, worktrees, stuck,
                   gitVars, checked, stop>>

(* A phase has handled t: the next phase starts once it has handled all.    *)
Handled(t, next) ==
    IF todo = {t} THEN todo' = wave /\ pc' = next
                  ELSE todo' = todo \ {t} /\ UNCHANGED pc

(* One worker thread: execute and validate in the worktree.  Workers end in *)
(* any order; the barrier is passed when all of them have an outcome.       *)
WorkerReturns ==
    /\ pc = "workers"
    /\ \E t \in todo \ queued :
          /\ \/ \E r \in AdapterFailure \cup {"RAISED", "BLOCKED"} :
                   outcome' = [outcome EXCEPT ![t] =
                      IF r = "RAISED" THEN "FAILED" ELSE StatusOfResult(r)]
                /\ UNCHANGED <<carries, checked>>
             \/ \E v \in Verdict, committed \in Commits :
                   /\ outcome' = [outcome EXCEPT ![t] = StatusOfVerdict(v)]
                   /\ checked' = [checked EXCEPT ![t] =
                                     [verdict |-> v, against |-> WorktreeView(t)]]
                   /\ carries' = IF committed THEN carries \cup {t} ELSE carries
          /\ Handled(t, "merging")
    /\ UNCHANGED <<graph, status, runVars, cur, wave, queued, worktrees, stuck, gitVars,
                   stop>>

(* validate raises in a worker: pool.map raises it after the barrier, before *)
(* the block that reclaims worktrees is entered.                             *)
WorkerRaises ==
    /\ pc = "workers"
    /\ todo # queued
    /\ pc' = "raised"
    /\ UNCHANGED <<graph, status, runVars, cur, wave, todo, waveVars, gitVars,
                   checked, stop>>

(* What a failing merge of t leaves: nothing, since it is aborted; a merge  *)
(* git did not get to abort, or finished although it reported failure; or   *)
(* it aborts what an earlier merge left in the middle.                      *)
FailedMerge(t) ==
    \/ UNCHANGED <<head, dirty>>
    \/ /\ GitFails
       /\ \/ head' = head \cup (carries \cap {t}) /\ UNCHANGED dirty
          \/ dirty' = dirty \cup (carries \cap {t}) /\ UNCHANGED head
          \/ dirty' = dirty \ wave /\ UNCHANGED head

(* Phase 1, in wave order: DONE outcomes are merged into the workspace; a    *)
(* conflict, or a merge that raises, fails the task.                         *)
MergeBranch ==
    /\ pc = "merging"
    /\ \E t \in todo :
          /\ IsFirst(graph, todo, t)
          /\ \/ /\ outcome[t] = "DONE"
                /\ head' = head \cup (carries \cap {t})
                /\ UNCHANGED <<outcome, dirty>>
             \/ /\ outcome[t] = "DONE"
                /\ outcome' = [outcome EXCEPT ![t] = "FAILED"]
                /\ FailedMerge(t)
             \/ /\ outcome[t] # "DONE"
                /\ UNCHANGED <<outcome, head, dirty>>
          /\ Handled(t, "revalidating")
    /\ UNCHANGED <<graph, status, runVars, cur, wave, queued, carries, worktrees, stuck,
                   base, unclean, checked, stop>>

(* Phase 2: what merged is validated again, in the integrated workspace.     *)
Revalidate ==
    /\ pc = "revalidating"
    /\ \E t \in todo :
          /\ IsFirst(graph, todo, t)
          /\ \/ /\ outcome[t] = "DONE"
                /\ \E v \in Verdict :
                      /\ outcome' = [outcome EXCEPT ![t] =
                                        IF v = "FAIL" THEN "FAILED" ELSE @]
                      /\ checked' = [checked EXCEPT ![t] =
                                        [verdict |-> v, against |-> WorkspaceView(t)]]
             \/ /\ outcome[t] # "DONE"
                /\ UNCHANGED <<outcome, checked>>
          /\ Handled(t, "finalizing")
    /\ UNCHANGED <<graph, status, runVars, cur, wave, queued, carries, worktrees, stuck,
                   gitVars, stop>>

(* the first removal that raises ends the loop over the worktrees *)
M_Reclaimed(stay) ==
    worktrees \ {t \in wave : \A u \in stay : Before(graph, t, u)}

(* mgr.remove of every task of the wave, each in a try of its own; git may   *)
(* fail to remove some of them.                                              *)
Reclaimed(stay) == worktrees \ (wave \ stay)

Reclaim ==
    \E stay \in SUBSET (IF GitFails THEN wave ELSE {}) :
        /\ worktrees' = Reclaimed(stay)
        /\ stuck' = stuck \cup stay

(* ... and what that raises leaves run(), reclaiming the worktrees.          *)
RevalidationRaises ==
    /\ pc = "revalidating"
    /\ \E t \in todo : IsFirst(graph, todo, t) /\ outcome[t] = "DONE"
    /\ Reclaim
    /\ pc' = "raised"
    /\ UNCHANGED <<graph, status, runVars, cur, wave, todo, queued, outcome, carries,
                   gitVars, checked, stop>>

(* the record is written, the task is left as it is *)
M_Finalized(t) == status

Finalized(t) == [status EXCEPT ![t] = outcome[t]]

(* Phase 3: status, record and proposal.  Neither a sweep nor save_run nor a *)
(* rollback follows; a proposal saves the run, half-way through the wave.    *)
Finalize ==
    /\ pc = "finalizing"
    /\ \E t \in todo :
          /\ IsFirst(graph, todo, t)
          /\ status' = Finalized(t)
          /\ records' = Append(records, [task |-> t, status |-> outcome[t]])
          /\ MaybePropose(t, outcome[t] = "FAILED")
          /\ IF Replan /\ outcome[t] = "FAILED" THEN SaveRun ELSE UNCHANGED saved
          /\ IF todo = {t}
             THEN /\ pc' = "top" /\ todo' = {} /\ wave' = {}
                  /\ Reclaim /\ carries' = {}
                  /\ outcome' = [u \in Task |-> "none"]
             ELSE /\ todo' = todo \ {t}
                  /\ UNCHANGED <<pc, wave, worktrees, stuck, carries, outcome>>
    /\ UNCHANGED <<graph, cur, queued, gitVars, checked, stop>>

-----------------------------------------------------------------------------
(* Outside run(): a cancellation is requested, the wall-clock budget ends.   *)
RequestStop ==
    /\ pc \notin {"returned", "raised"}
    /\ \E why \in Stops \ stop : stop' = stop \cup {why}
    /\ UNCHANGED <<graph, status, runVars, loopVars, waveVars, gitVars, checked>>

(* run() has returned or raised. *)
Over == pc \in {"returned", "raised"}

LoopStep ==
    \/ RejectGraph \/ EnterLoop
    \/ StopBetweenTasks \/ Poll \/ Complete \/ NothingReady
    \/ DispatchHead \/ AdapterFails \/ AdapterImplements
    \/ ValidatorAnswers \/ ValidatorRaises
    \/ FallBackToSerial \/ FallBackRaises \/ WorktreeCreationRaises
    \/ FanOut \/ WorkerStarts \/ WorkerReturns \/ WorkerRaises
    \/ MergeBranch \/ Revalidate \/ RevalidationRaises \/ Finalize

(* run() has returned or raised: nothing is left to do. *)
Rest == Over /\ UNCHANGED vars

Next == LoopStep \/ RequestStop \/ Rest

Spec == Init /\ [][Next]_vars

(* Every call run() makes is bounded by a timeout (adapter, validator, git), *)
(* so the thread takes its next step; nothing makes anyone ask it to stop.   *)
FairSpec == Spec /\ WF_vars(LoopStep)
-----------------------------------------------------------------------------
(* Properties *)

Record == [task : Task, status : Settled]

Run == [status : {"RUNNING", "COMPLETED", "BLOCKED"},
        reason : {"", "INVALID_GRAPH", "CANCELLED", "TIME_BUDGET_EXCEEDED",
                  "NEEDS_USER_REPLAN_APPROVAL", "UNRESOLVED_DEPENDENCIES",
                  "STOPPED"},
        proposal : Task \cup {NoTask}, cancelled : BOOLEAN,
        ready : SUBSET Task, completed : SUBSET Task,
        failed : SUBSET Task, blocked : SUBSET Task]

SerialPoints == {"executing", "validating"}
WavePoints   == {"workers", "merging", "revalidating", "finalizing"}
Points == {"begin", "top", "turn", "returned", "raised"} \cup SerialPoints \cup WavePoints

(* Every variable has its type. *)
TypeOK ==
    /\ graph \in Graphs
    /\ status \in [Task -> TaskStatus]
    /\ run \in Run
    /\ records \in Seq(Record)
    /\ proposals \in SUBSET Task
    /\ saved \in {NoRun} \cup [run : Run, records : Seq(Record)]
    /\ pc \in Points
    /\ cur \in Task \cup {NoTask}
    /\ wave \in SUBSET Task /\ todo \in SUBSET wave /\ queued \in SUBSET Task
    /\ outcome \in [Task -> Settled \cup {"none"}]
    /\ carries \in SUBSET Task /\ worktrees \in SUBSET Task /\ stuck \in SUBSET Task
    /\ head \in SUBSET Author /\ dirty \in SUBSET Author /\ base \in SUBSET Author
    /\ unclean \in SUBSET Task
    /\ checked \in [Task -> [verdict : Verdict \cup {"none"}, against : SUBSET Author]]
    /\ stop \in SUBSET {"cancel", "budget"}

Recorded(t) == \E i \in 1 .. Len(records) : records[i].task = t

(* A run executes no task twice: two records never name the same task, on   *)
(* the serial path, in a wave, or across a wave that fell back to serial    *)
(* after its tasks were already marked IN_PROGRESS (orchestrator.py:374).   *)
AtMostOnce ==
    \A i, j \in 1 .. Len(records) : records[i].task = records[j].task => i = j

(* A task that is running or was run has all its dependencies DONE, and     *)
(* they stay DONE; so no two tasks of a wave depend on each other.          *)
DependenciesFirst ==
    \A t \in Task : status[t] \in InFlight \/ Recorded(t)
                     => graph.deps[t] \subseteq With(status, "DONE")

(* The audit trail and the task graph agree: a record tells the status its  *)
(* task has for the rest of the run, and no task is DONE or FAILED without  *)
(* one (what a resume or a replan reads is the records alone).              *)
RecordsAgree ==
    /\ \A i \in 1 .. Len(records) : status[records[i].task] = records[i].status
    /\ \A t \in Task : status[t] \in {"DONE", "FAILED"} => Recorded(t)

Stopped == run.reason \in {"CANCELLED", "TIME_BUDGET_EXCEEDED"}

(* What run() returns is the truth: COMPLETED exactly when every task is    *)
(* DONE; otherwise BLOCKED with nothing in flight and, unless it was        *)
(* stopped or refused, no task left that could have been executed.          *)
VerdictSound ==
    pc = "returned" =>
        /\ run.status \in {"COMPLETED", "BLOCKED"}
        /\ run.status = "COMPLETED" => With(status, "DONE") = Task
        /\ \A t \in Task : status[t] \notin InFlight
        /\ run.status = "BLOCKED" /\ ~Stopped /\ run.reason # "INVALID_GRAPH" =>
              /\ With(status, "DONE") # Task
              /\ \A t \in Task : Recorded(t) \/ status[t] = "BLOCKED"
                                 \/ ~(graph.deps[t] \subseteq With(status, "DONE"))

(* The lists the run reports when it ends by itself are those of its tasks. *)
ReportSound ==
    pc = "returned" /\ ~Stopped /\ run.reason # "INVALID_GRAPH" =>
        /\ run.completed = With(status, "DONE")
        /\ run.failed = With(status, "FAILED")
        /\ run.blocked = With(status, "BLOCKED")

(* The parallel path keeps its word that a DONE task was validated in the   *)
(* integrated workspace: when a wave is recorded, each of its DONE tasks    *)
(* was last validated with every sibling's merge in place (line 460).       *)
DoneSawEveryMerge ==
    pc = "finalizing" =>
        \A t \in wave : outcome[t] = "DONE" => Visible \subseteq checked[t].against

(* Nobody destroys accepted work: while adapters manage to commit, what a   *)
(* DONE task produced stays in the workspace through every later rollback,  *)
(* merge and commit.                                                        *)
DoneWorkSurvives == \A t \in With(status, "DONE") : t \in Visible

(* With rollback on, a serial run keeps nothing git can see of a FAILED     *)
(* task, committed or not, through everything later tasks commit and roll   *)
(* back -- but for the tasks whose own rollback failed in git, which        *)
(* nothing reports (orchestrator.py:703-752).  (A wave has no rollback.)    *)
FailureLeavesNothing ==
    Rollback /\ ~Parallel /\ Repository # "none" =>
        \A t \in With(status, "FAILED") \ unclean : t \notin Visible

(* Between two waves, and when run() returns, the only worktrees and         *)
(* branches left are those git itself would not remove: one stuck removal    *)
(* strands no other (orchestrator.py:536-545).                               *)
OnlyStuckWorktreesStay == pc \notin WavePoints \cup {"raised"} => worktrees \subseteq stuck

(* With replanning on, each failure recorded has its proposal stored and    *)
(* the run never ends by itself without waiting for the user's approval.    *)
FailuresAreProposed ==
    Replan =>
        /\ \A i \in 1 .. Len(records) :
              records[i].status = "FAILED" => records[i].task \in proposals
        /\ pc = "returned" /\ proposals # {} /\ ~Stopped =>
              run.reason = "NEEDS_USER_REPLAN_APPROVAL" /\ run.proposal \in proposals

(* execution.json never runs ahead of the run, and a run that returned has  *)
(* saved all of it.                                                         *)
FileFollowsRun ==
    Persist =>
        /\ saved # NoRun =>
              /\ Len(saved.records) <= Len(records)
              /\ \A i \in 1 .. Len(saved.records) : saved.records[i] = records[i]
        /\ pc = "returned" => saved = [run |-> run, records |-> records]

(* However run() is left, it has given back its worktrees and branches.     *)
NoWorktreeLeft == Over => worktrees = {}

(* The list names every task after the tasks it needs. *)
ListedInOrder ==
    \A t \in Task : \A d \in graph.deps[t] \cap Task :
        Position(graph.tasks, d) < Position(graph.tasks, t)

(* A failure reaches everything that depends on it: when the run of a list   *)
(* in order ends by itself, no task that directly needs a FAILED or BLOCKED *)
(* one is left PENDING (tests/test_orchestrator.py:284).                    *)
FailurePropagates ==
    pc = "returned" /\ ~Stopped /\ run.reason # "INVALID_GRAPH" /\ ListedInOrder =>
        \A t \in With(status, "PENDING") \cup With(status, "READY") :
            graph.deps[t] \cap (With(status, "FAILED") \cup With(status, "BLOCKED")) = {}

-----------------------------------------------------------------------------
(* The inductive invariant behind AtMostOnce, DependenciesFirst,            *)
(* RecordsAgree and VerdictSound (proved in OrchestratorProofs).            *)

Flying == {t \in Task : status[t] \in InFlight}

(* The tasks in flight are exactly those the current point of run() works   *)
(* on, and every task a merge phase looks at has an outcome.                *)
Control ==
    /\ pc \in {"begin", "top", "turn", "returned"} => Flying = {}
    /\ pc \in SerialPoints => cur \in Task /\ Flying = {cur}
    /\ pc \in WavePoints \ {"finalizing"} => Flying = wave
    /\ pc = "finalizing" => Flying = todo
    /\ pc = "workers" => \A t \in wave \ todo : outcome[t] # "none"
    /\ pc \in WavePoints \ {"workers"} => \A t \in wave : outcome[t] # "none"

(* A run with an open proposal is already marked BLOCKED. *)
ProposalBlocks == pc # "returned" /\ run.proposal # NoTask => run.status = "BLOCKED"

IInv ==
    /\ TypeOK
    /\ Control
    /\ AtMostOnce
    /\ DependenciesFirst
    /\ RecordsAgree
    /\ ProposalBlocks
    /\ VerdictSound

-----------------------------------------------------------------------------
(* The tasks an adapter has been called for and that have not been settled.  *)
AtWork == IF pc \in SerialPoints THEN {cur}
          ELSE IF pc = "workers" THEN wave \ queued ELSE {}

(* A stop is obeyed by the next turn: after the request no poll passes any   *)
(* more, and the only tasks still begun are those of a turn whose poll had   *)
(* passed before -- the one task it hands out, or the tasks of its wave, of  *)
(* which some may have to wait for a free worker (orchestrator.py:141,       *)
(* 409-411).                                                                 *)
StopEndsDispatch ==
    [][stop # {} =>
          /\ pc' = "turn" => pc = "turn"
          /\ AtWork' \subseteq AtWork \cup (IF pc = "turn" THEN Wave ELSE queued)]_vars

(* The run ends, whatever adapters and validators answer. *)
RunEnds == <>Over

(* What the abstract run sees of a task, and of the run. *)
AsTask(s) ==
    IF s \in Idle THEN "waiting"
    ELSE IF s \in InFlight THEN "running"
    ELSE IF s = "DONE" THEN "done"
    ELSE IF s = "FAILED" THEN "failed" ELSE "blocked"

AsVerdict ==
    IF pc = "begin" THEN "new"
    ELSE IF pc # "returned" THEN "open"
    ELSE IF run.reason = "INVALID_GRAPH" THEN "refused"
    ELSE IF Stopped THEN "stopped"
    ELSE IF run.status = "COMPLETED" THEN "completed" ELSE "blocked"

Abstract == INSTANCE DagRun WITH
    deps    <- graph.deps,
    st      <- [t \in Task |-> AsTask(status[t])],
    verdict <- AsVerdict

(* The run implements the abstract one. *)
ImplementsDagRun == Abstract!Spec
===============================================================================
