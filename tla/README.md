# ProjectForge in TLA+

ProjectForge turns a job description into a project plan (profile, blueprint,
task graph), lets a human approve the plan, and then has a coding agent work
off the task graph in a workspace, one git commit per task, with a
deterministic validator deciding what is DONE and a replan workflow for what
failed. This directory models the part of it that is hard to test: how a task
graph comes about, is executed, judged and amended, and the product core and
the event log that several threads and processes drive at once over shared files.

## 1. The system

| Component (`src/app/...`) | State it keeps | Operations | Interacts through |
|---|---|---|---|
| Scheduler `agents/scheduler.py` | none; rewrites `Task.status` | `get_ready_tasks`, `ready_wave`, `update_states` | called by the orchestrator |
| Orchestrator `agents/orchestrator.py` | `ExecutionRun`, task statuses, worktrees | `run`, `_run_wave_parallel`, `_maybe_rollback`, `_maybe_generate_replan`, `resume` | adapter, validator, git, `execution.json`, `cancel_check` |
| Worktrees `agents/worktree.py`, `workspace_provider.py` | git worktrees and branches | `create`, `merge`, `remove` | orchestrator, worker threads |
| Adapters `agents/cli_adapter.py`, `mock_executor.py` | the workspace, its commits | `execute` | subprocess, git |
| Validator `agents/validator.py`, `validation_aggregator.py` | none | `validate`, `aggregate` | reads a workspace |
| Persistence `agents/persistence.py`, `replan_persistence.py`, `product/project_persistence.py` | `execution.json`, proposals, `project.json` | whole-file load and save | the product core and the orchestrator |
| Lifecycle and service `product/lifecycle.py`, `service.py` | the project record, `_active_runs` | plan, approve, transition, execute, apply, resume | API, CLI, run control |
| Run control `product/run_control.py` | `_active_runs`, `_cancellations`, a lock | `start_run`, `complete_run`, `cancel_run` | service, executor |
| Replan control `product/replan_control.py`, `agents/failure_analyzer.py`, `replanner.py`, `replan_applier.py` | proposals, task graph | create, approve, reject, apply | service |
| Event store `product/event_store.py` | `events*.jsonl` | append, rotate, read | everyone |
| Task graph engine, planners `agents/task_engine.py`, `blueprint.py`, `llm_planner.py`, ... | none | build a plan from text | service |
| API `api/routes.py`, CLI `cli/app.py` | none | one service call each | threads of a server; processes |

What is hard about it:

* **one run, many exits** - a task can be settled at three places of the serial
  body and in three phases of a wave, and each repeats the same bookkeeping
  (status, record, rollback, sweep, save, proposal) slightly differently;
* **the workspace is shared** - rollback (`git reset --hard`, `git clean`),
  commits that sweep up everything dirty, merges of worktrees, and validation
  that has to see the integrated state;
* **stops** come from outside at any time and are seen only between turns;
* **cleaning up is best effort** - rollbacks, removals of worktrees, aborted merges
  and reports of changed files are git commands whose failure nobody looks at;
* **files without locks** - every product call reads a whole file and later
  writes a whole file; cancel, execute, replan and transition interleave;
* **two memories** - the active run and the requested cancellations are kept
  per process, the files are shared by all of them.

* **one verdict, many places** - the validator, the aggregator, the failure
  analyzer and the applier each look at a different part of what was observed,
  and what one of them drops the next cannot see.

What makes each component correct, in the words of the properties below:

* scheduler - the declarative reading is the loop, one sweep suffices when the
  list respects the dependencies;
* orchestrator - at most once, dependencies first, records, report, file and
  verdict tell the truth, no accepted work is lost, a failure leaves nothing
  behind and reaches its dependents, one worktree that is stuck strands no other,
  a stop ends dispatch, the run ends;
* validator - DONE was verified, a mode that only observes changes nothing;
* replan - nothing unapproved reaches the graph, an applied block stays;
* product core - no run before approval, no ended run reopens, cancelled means
  stopped, COMPLETED is earned, final is final, one active run;
* event store - the log only grows, repeats an event only where its store could
  not be sure of it, and loses one, or becomes unreadable, only by a torn write;
* task graph engine and planners - the check finds every cycle, the order is a
  topological one, every edge names another task of the graph.

## 2. Modules

| Module | What it is | Code |
|---|---|---|
| `Scheduler` | readiness, blocking, dispatch order and the sweep as operators | `scheduler.py` |
| `DagRun` | abstract: what an execution run promises | |
| `Orchestrator` | `run()`, its waves, rollback, proposals, persistence | `orchestrator.py`, `worktree.py`, adapters and validator as seen from it |
| `OrchestratorProofs` | its inductive invariant and the theorems that follow from it | |
| `RunRefinesDag` | the proof that it implements `DagRun` | |
| `RunGuarantees` | the theorems about work, worktrees, proposals, report, file and stops | |
| `ProjectRuns`, `ProjectRunsProofs`, `ProjectGuarantees` | the product core around one project, in processes and threads | `service.py`, `run_control.py`, `replan_control.py`, `lifecycle.py`, the stores, the API's calls |
| `Validation` | from an observed workspace to a verdict, as operators | `validator.py`, `scope_policy.py`, `validation_aggregator.py` |
| `ReplanRules` | classification of a failure, the action proposed, what it does to a graph | `failure_analyzer.py`, `replanner.py`, `replan_applier.py` |
| `Replan`, `ReplanProofs` | the life of a stored graph: runs, failures, proposals, users; proofs about it and about `Validation` | `service.py`, `replan_control.py`, `cli_adapter.py`, and the two above |
| `EventLog` | abstract: what the event log promises | |
| `EventStore`, `EventStoreProofs` | append, rotation, restart, lock-free reading | `event_store.py` |
| `TaskGraphs` | ids, edges, cycle check and order of a planned graph | `task_engine.py`, `llm_planner.py` |
| `Lists` | elements of a list and a list filtered by a set, in forms a proof can use | |
| `Planning`, `PlanningProofs` | planning with retry and fallback, then amendments; the loops that the scheduler's operators stand for | `llm_planner.py`, `planner.py`, `replan_applier.py`, `scheduler.py` |
| `MCOrchestrator`, `MCProjectRuns`, `MCReplan`, `MCEventStore`, `MCPlanning` | small instances | |

    Scheduler <- Orchestrator <- MCOrchestrator, OrchestratorProofs <- RunRefinesDag, RunGuarantees
              <- ReplanRules  <- Replan (with Validation) <- MCReplan, ReplanProofs
                              <- Planning (with TaskGraphs) <- MCPlanning, PlanningProofs
    Lists <- ReplanRules, TaskGraphs
    ProjectRuns <- MCProjectRuns, ProjectRunsProofs <- ProjectGuarantees;  EventStore <- MCEventStore, EventStoreProofs
    Orchestrator implements DagRun;  EventStore implements EventLog;  ProjectRuns stands on DagRun's contract

Operators named `M_...` are plausible mistakes in the definition that follows
them; no specification uses them. Each property of a passing run is violated
when one of them takes the place of the definition it mistakes: `PROJECT.json`
pairs them. `PROJECT.json` also maps every definition to its lines of code and
lists the hazards the properties are for.

### Orchestrator

An action is the code of `run()` between two points where somebody else can act
or be seen: a worker, a request to stop, the caller. `pc` names the point:

    begin -> top -> turn -> executing -> validating -> top        (serial body)
                    turn -> workers -> merging -> revalidating -> finalizing -> top
             top, turn -> returned;  raised from wherever code is not guarded

`status` is `Task.status` (the graph handed to `run()` is mutated in place),
`run` the `ExecutionRun`, `records` its `task_results`, `saved` the content of
`execution.json`. Git is modelled by authorship: `head`, `dirty` and `base` are
the sets of tasks (and the user) whose changes HEAD, the working tree and the
commit remembered for a rollback contain. A commit moves `dirty` into `head`, a
rollback restores `base`, a merge adds what a branch carries. This is exactly
as much as the properties tell apart; which files conflict is nondeterministic,
and so is everything an adapter or a validator may answer, raising included.
`stop` grows at any time and is read by `Poll` at the top of a turn (`pc = "turn"`
is the time between the poll and the dispatch it allows). The tasks of a wave wait
in `queued` for one of `MaxWorkers` threads.

The git commands of the run itself may fail when `GitFails` is TRUE. A rollback
(`RollBack`) may then restore HEAD or not and leave any part of what was dirty;
`unclean` notes the task. A removal (`Reclaim`, `FallBackToSerial`) may leave its
worktree, which `stuck` notes, and a later wave that needs the same branch falls
back; a removal that raises in the fallback leaves `run()` (`FallBackRaises`). A
merge that fails may be half there (`FailedMerge`). What `git clean -fd -e artifacts`
keeps on purpose, ignored files and `artifacts/`, is in no set: "nothing left
behind" means nothing git reports. A baseline that cannot be committed is
`Repository = "none"`.

A sweep of `update_states` is one step: `SweepBlocks` characterises the set of
tasks it blocks, and `SweepIsTheLoop` (in `Planning`, where the loop is) says that
this is what the loop computes; it is checked and proved there.

### DagRun

The contract of a run: tasks start only when everything they depend on is done,
a running task settles once, settled tasks never change, what waits on a failure
may be given up, and the verdict is true. `Orchestrator!ImplementsDagRun`
instantiates it with the refinement mapping (PENDING and READY are "waiting",
IN_PROGRESS and VALIDATING "running"); `ParallelRun` checks it and
`RunRefinesDag` proves it. The product core relies on the contract alone.

### ProjectRuns

Several `Procs` (API server, CLI invocations) run `Handlers` (threads), each
serving one call at a time. The shared state is what is on disk: `project`,
`graph`, `runs` (one `execution.json` each, reduced to its status, its sticky
`cancel_requested` flag and whether it has a FAILED record) and `proposal`. What
is kept per process is `active` and `cancels`; a crash forgets it together with
the calls in progress. `serving[h]` is the call of a handler: the point it has
reached and every copy it has loaded and will save. An action is the code
between two file accesses; the locked section of `start_run` is one action.
Writes are atomic (`tempfile` and `os.replace`), so no torn file is modelled.

The execution of a run is abstracted to turns: poll for a cancellation (`Poll`),
begin a task or those of a wave (`BeginTask`), end with one of the outcomes the
orchestrator has, or raise. Between the poll and the start a cancellation may be
requested, stored and answered. What
`Orchestrator` shows about a run (COMPLETED exactly when every task is DONE) is
what `EndWork` assumes of it. A run the executor ends without a poll
(a refused graph, a failed task whose dependents are blocked) is `BLOCKED`.

One proposal per run is followed (`Replan` follows several), timestamps and
events are left out, and a call that its first guard refuses changes nothing
and is not an action. `worked` counts the tasks begun and `approved` is a
history variable; neither is read by an action except for the bound on tasks.

### Validation

A contract is what of a task can be checked: a test suite, criteria in prose,
machine checks (tests, commands, files, patterns, manual ones), declared paths. An
observation is what `validate` finds: the exit of the suite (also "empty", no
test collected), which checks hold, what git says of HEAD, and where the changed
files lie. `Criteria` is the set of verdicts per criterion, modes applied;
`Validated` is the validator's own verdict and `Aggregated` the one that counts,
after the findings of a reviewing model. Nothing here has state.

### ReplanRules and Replan

`ReplanRules` takes a result (what a record keeps of an execution) to a failure
type, an action and a graph: RETRY resets a FAILED task, BLOCK blocks a task,
SPLIT blocks it and appends parts with its dependencies (who depended on the task
still does); the amended graph is checked as `replan_applier.py` does.

`Replan` puts them together with `Validation` around one stored graph. A run
loads `stored`, dispatches in the order of `Scheduler`, and takes each task
through the attempts of `CliAgentAdapter` (`iteration`), the commit at the end
of the last one, and the verdict. `left` is what lies uncommitted, which is why
a commit may carry what earlier attempts or tasks left. `evidence` keeps what
was really there beside what the validator saw, and whether git could list it:
a `git diff` that fails counts as no changes (`Reported`). A rollback may leave
some of what it should remove (`Remaining`). Users create, approve, reject
and apply; `calls[u]` is the call between two file accesses and `Vanish` the
death of its process. `approved` and `disturbed` are history variables: which
proposals were ever approved, and whether two applies overlapped or one died
between its two saves.

### EventStore and EventLog

A line of the log is what a reader gets of it: an event, junk that is skipped, or
`Garbled`, bytes that are no text because a write was cut inside a character (the
log is written with `ensure_ascii=False`); both readers decode strictly, so one
such line, complete or not, makes `get_events` raise for the whole log and keeps a
store from loading its ids (`Readable`, `AcquireFails`). The lines of all files are
one sequence, and `ends` says after which of them a rotation closed a file. `tail`
is what follows the last newline: nothing, part of a line (cut at a character or
inside one), or a whole event whose newline is missing.

An append takes the lock of its store and the lock on the file (`Acquire`, which
also loads the known ids once per process), writes in two parts, notes the id,
rotates and releases. `WriteFails` is a disk that is full before or during the
write; `SyncFails` is an `fsync` or a `close` that raises although the whole line is in
the file, so that the id is not noted; `Crash` is the death and restart of a
process: its locks are free and its ids forgotten. Producers retry what they got
no answer for. `Separated` are events whose text holds what `splitlines`, with
which ids are loaded, takes for the end of a line: their ids are not loaded.
`unsure` collects both: the events of which a second line is possible. Readers
take no lock: they list the rotated files, look for the active one, and read.
`torn`, `taken` and `swallowed` count what a writer did not finish and what it cost
later.

`EventLog` is a sequence that only grows at its end, by events it does not hold yet
or is unsure of; each torn write may cost it its last event, once, and leave a gap
in place of a later event, once.

Out of the picture: a platform with neither `fcntl` nor `msvcrt` (its lock is a
no-op), and what a power failure does to data that was never synced.

### TaskGraphs and Planning

A draft is a list of ids and, per id, a list of names it depends on, repetitions
and unknown ones included: that is what a model's answer gives and what the
rules build from a stack. `Checked` attaches what `validate_tasks` computes: the
depth-first cycle check, and Kahn's algorithm with in-degrees that count a
repeated name twice. A search, and a sort, is a record (what was visited, the
path of the recursion; the order so far, the degrees, the queue), and one round
of it a function of that record; `SearchRounds` and `SortRounds` take as many
rounds as there can be any use for. No operator is RECURSIVE. `Planning` asks
the model, retries once, falls back to the rules, or raises, and then applies
proposals to the result.

## 3. Runs

| Run | Question | Bounds | Distinct states |
|---|---|---|---|
| `SerialRun` | Are records, lists and verdict right, does a failure leave nothing behind and reach its dependents, does a run end? | three tasks; every DAG with an order, unvalidated graphs with cycles, self-dependencies and unknown ids, a refused graph, one grown by a replan, one with a repeated dependency; tasks blocked beforehand; an existing and maybe dirty repository, rollback that may fail in git, commits that succeed; both stops | 678,610 |
| `ParallelRun` | The same on waves, with proposals, files and worktrees; is accepted work safe, do worktrees come back, does a stop end dispatch? Does a run implement `DagRun`? | every shape of DAG on three tasks and some listed against their dependencies, cycles, unknown and repeated ids, an incomplete order, a refused graph; two workers, a fresh repository, rollback, commits that succeed, any git command of the run failing, a cancellation | 1,598,966 |
| `PlanRun` | Is the check right and the order an order, on every answer? Are the scheduler's operators its loops? | drafts of three tasks with up to two dependencies each, empty drafts and repeated ids, every stack for the rules; two amendments; every status | 7,166 |
| `ReplanRun` | Is DONE verified, is observing neutral, what can racing decisions do to the graph? | two tasks in a chain with different contracts, the strict and the gray modes, git that may fail unseen, two interchangeable users, two runs, two proposals, two attempts, one call across a run's start | 536,363 |
| `EventRun` | Does the store implement its log, what can be lost, when can it not be read, what does a reader see? | a rotating server with two threads and a CLI, three events, one of them `Separated`, one reader, rotation after each line, two torn writes (`MaxTorn`), nothing handed over behind two lines (`MaxLog`) | 2,171,030 |
| `SharedServer` | Two threads of one server: plan gate, one run at a time, no run reopened, cancelled means stopped? | two handlers with three calls each, two run ids of two tasks each, one crash; threads and run ids symmetric (safety only) | 1,115,661 |
| `OneDriver` | A project from plan to COMPLETED, replans and resumes included, with a cancellation anywhere | eight calls of a driver, one of a canceller, two run ids of two tasks each, one crash; with fairness | 89,396 |
| `RollbackLosesDoneWork`, `WorktreeLeak`, `ResumeRerunsDone`, `CancelElsewhere`, `TwoTerminals` | Statements of the docs and comments the code does not keep | each as small as shows it | |

Why the bounds are enough. Three tasks give a chain, a fork, a join, a wave with
a task outside it, and a list order that contradicts the dependencies; a wave of
three has a first, a middle and a last sibling to merge. In the product core the
races are between the load and the save of two calls, so two handlers show them;
three calls per handler take a project to an execution with a competing call
left, and the driver's eight take it to a second run after a replan. A second
run id is what a resume or a competing start needs. Two tasks
per run tell a turn that hands out one from a turn that hands out a wave, and a
stop between two turns from one after the last; a third adds no case. In `ReplanRun` two proposals are
what two applies need to overlap, two runs what a retry needs to be seen, two
attempts what leftovers of a failed attempt need; that a third attempt or a
longer chain adds nothing is what the proofs say, which hold for any number. In
`EventRun` a line lost needs a torn write and the append behind it, a duplicate
needs a retry through another memory of ids or after a failed `fsync`, and a reader
can be overtaken by one rotation or by two; calls under way when the log has
`MaxLog` lines still add theirs, so there are up to four.

`ReplanRun` is bounded further by `UsersBetweenRuns`, an ACTION_CONSTRAINT: users
move while no run is under way. A run reads nothing users write after it
started, and they read nothing of a run that has not ended, so their step can as
well be taken right after it; a call may still be in progress while runs start
and end. `OneCallAcrossRuns` is a bound: at most one call is in progress when a run
starts; two that overlap do so between runs. The theorems of `ReplanProofs` do
without either. There, too,
an attempt always leaves changes (inside or outside the declared paths), an
agent that ends without an implementation ends as FAILED, and a commit moves HEAD
or does not; the model knows more of each.

`CHECK_DEADLOCK FALSE` is set where the system really may stop: clients of the
product core and users of `Replan` stop calling, producers and readers of the
event log too, and a planned graph that is not amended any more is the end of
`Planning`. The orchestrator's runs check for deadlock; `Rest` is the run that is
over.

Fairness: `Orchestrator!FairSpec` is weak fairness of the loop's own steps -
adapter, validator and git calls all have timeouts, so the thread goes on - and
none for requests to stop. `ProjectRuns!FairSpec` is weak fairness of every
handler's steps inside a call - a thread of a server or a CLI process runs on -
and none for clients, who owe no call, nor for crashes.

### What the violated statements show

* `RollbackLosesDoneWork` - a rollback deletes uncommitted work of DONE tasks.
  `ParallelRun` and the theorem `AcceptedWorkSurvives` show that it cannot
  happen while adapters manage to commit.
* `WorktreeLeak` - worktrees are reclaimed only once the merge block is entered;
  a validator that raises in a worker, or a git timeout, leaves them behind.
* `ResumeRerunsDone` - the stored graph never receives the statuses of a run, so
  a resume executes again what an earlier run finished.
* `CancelElsewhere` - a cancellation from another process is not seen by the
  executor, because `cancel_run` does not set the persisted flag it polls.
  `SharedServer` and the theorem `CancelledRunsStop` show that within one
  process a cancellation does work, but for the turn that had polled before it.
* `TwoTerminals` - two processes run the same project at once; the lock and the
  map of active runs are per process.

Best effort, modelled, and promised by nobody (no run states it, and the properties
say where they stop): a rollback that fails in git leaves a failed task's work for
the tasks after it (`FailureLeavesNothing` excludes `unclean`); a removal that fails
leaves a worktree or a branch (`OnlyStuckWorktreesStay` says no other stays); a
`git diff` that fails after the commit has moved HEAD lists no files, and scope passes
for work nobody looked at (`DoneIsVerified` says "as far as git could list it",
`cli_adapter.py:331`); a stop between the poll and the dispatch still starts one task, or
a wave, whose tasks queue for a worker and start after the stop (`StopEndsDispatch`,
`CancelStopsWork`); a write torn inside a character makes the whole log unreadable
(`LossIsBounded` says that nothing else does, `event_store.py:99`, `:162`); a retry after
a failed `fsync` appends an event twice (`event_store.py:132`), and so does, after a
restart, one of an event `splitlines` takes apart; a read that a rotation overlaps
misses the file that was renamed, or raises, although the comment at
`event_store.py:159` wants rotated history visible.

`FailuresAreProposed` is about an orchestrator with an analyzer, a replanner and a
store, as its tests build it. The product's own `_build_executor`
(`service.py:266-278`) passes none: there the user creates proposals, which is what
`ProjectRuns` and `Replan` model.

Seen in the models and stated by no run: a NEEDS_REVIEW of the integrated
workspace does not demote a wave task (`orchestrator.py:472`), although
`docs/execution-model.md:41` lets only PASS be DONE. A start that is refused makes
the process forget the run that is active (`service.py:690`), so that with three
threads executing at once a second run is admitted beside the first even within
one process; with two, `SharedServer` and the theorem `TwoDriversOneRun` show that
none is (`OneActiveRunUntilCrash`). Of two calls that have both read READY, the save of
the slower one takes the project out of the final state the other's run ended in
(`service.py:318`); `OneDriver` and the theorem `FinalStatesHold` show that final
states are final while one client drives the project.

## 4. Proofs

All theorems hold for every value of the constants their module's assumption
admits: any number of tasks, graphs, processes, threads, users, runs.

**`OrchestratorProofs`**: type correctness, `AtMostOnce`, `DependenciesFirst`,
`RecordsAgree` and `VerdictSound`. None of them is inductive alone. A record is
appended where its task leaves "in flight", so at-most-once needs to know that
the task was in flight and that such tasks have no record (`RecordsAgree`); that
a turn starts with nothing in flight, and that a phase of a wave has in flight
exactly the wave (or the part of it not finalized yet), is `Control`; that a run
with an open proposal is already BLOCKED when nothing is left to dispatch is
`ProposalBlocks`. `IInv` is their conjunction, which `ParallelRun` checks as an
invariant. The proof has a lemma per conjunct and in it a step per action; the
lemmas on the scheduler (a sweep only moves waiting tasks, to READY or BLOCKED,
and never makes one READY whose dependencies are not DONE) carry them.

**`RunRefinesDag`** proves `Spec => ImplementsDagRun`. The initial state maps to
the contract's; entering the loop opens the run and a rejected graph refuses it;
a dispatch, serial or a fan-out, starts tasks; what settles a task, and the
finalization of a wave, settle them, with the tasks a sweep blocks given up in
the same step; completing or finding nothing ready finishes; a stop stops; all
else is a stutter. The steps need `IInv` (a task starts with its dependencies
done, the verdict is true) and that a run without a reason is still open.

**`RunGuarantees`** proves what is left of the runs' safety properties. Each has a
strengthening of its own, inductive relative to `IInv`:

| Theorem | Strengthening: what has to be known at every step |
|---|---|
| `AcceptedWorkSurvives` | `WorkKept`: what is DONE is in `head`, and in `base` when that is the point of a rollback; assumes `Commits = {TRUE}`, which `RollbackLosesDoneWork` shows to be needed |
| `FailuresLeaveNothing` | `NoRemains`: nothing of a task that waits, or FAILED and was rolled back without git failing, is in `head`, `dirty` or the commit a rollback restores; states serial runs, since a wave does not roll back what failed after its merge |
| `DoneIsRevalidated` | `MergesSeen`: what a task's last validation saw contains every merge of its wave |
| `WorktreesGivenBack` | `WorktreesKnown`: every worktree is one of the wave in progress or is stuck, unless `run()` raised |
| `EveryFailureProposed` | `ProposalsFollow`: proposals follow records, entry for entry |
| `ReportTrustworthy`, `FileTrustworthy` | none beyond `IInv` |
| `StopStops` | none beyond `IInv`, which says what is in flight where; states what the window between poll and dispatch leaves open |
| `FailuresPropagate` | `Propagated`: no idle task waits for a broken one after a sweep; assumes `~Parallel`, since a wave is finalized without a sweep |

**`ProjectRunsProofs`** proves type correctness (`ProjectTypeCorrect`), the plan
gate (`PlanGateHolds`) and that no ended run reopens (`NoRunReopens`). The
invariant `RunsInv` says what a handler's copies may be: a copy of a project
beyond PLANNING exists only after an approval, so stale saves cannot forge one; a
copy of a run's file about to be saved has a final status.

**`ReplanProofs`** proves type correctness, `DoneIsVerified`,
`ObservingIsNeutral`, `BlocksWereApproved` and `AppliedBlockStands`. Its `IInv`
adds to `TypeOK`: `CallsAreCalls` and `NeverSplit` (a call holds copies of stored
things, and no proposal splits a task); `RunUnderWay` and `EvidenceFits` (what
was judged is what the record in memory says); `ApprovalsKept` (a proposal stored
as APPROVED, and a BLOCKED status in the stored graph or in somebody's copy of it,
go back to an approval); and `BlocksKept`, as long as
nothing is `disturbed`: one call applies at a time, its copy of the graph is what
has every block applied so far, and so has the stored graph but while it waits to
be persisted. Without the copies in the invariant a stale one could undo a block.

`ReplanProofs` begins with the operators of `Validation`: the validator and the aggregator
agree without a reviewing model (`VerdictsAgree`), findings of one only worsen a
verdict (`FindingsOnlyWorsen`), a PASS is earned (`PassIsEarned`), the gray modes
only watch (`GrayModesWatch`). The theorems about `Replan` rest on the last two.

**`ProjectGuarantees`** proves what does not hold for arbitrary processes and clients.
`CancelledRunsStop` (`CancelStopsWork`) assumes `OneProcess`: with several,
`CancelElsewhere` refutes it. Its invariant `CancelInv` says that each run has one
executor, that an executor at work has its run RUNNING or marked in `cancels`, and
that a cancellation between its load and its save has marked the run or found it
ended. The other theorems assume who makes which calls (`MayCall`). `OnlyDrivenBy(D)`: only the
handlers in `D` make calls that save the project record; all others, any number
in any process, may cancel, and propose and decide replans.

| Theorem | Hypothesis | Invariant beyond `RunsInv` |
|---|---|---|
| `FinalStatesHold` (`FinalIsFinal`) | one driver | `CopyIsCurrent`: between its load and its save the driver's copy of the record is the record, so it never saves an older status over a final one |
| `CompletionIsEarned` (`CompletedWasEarned`) | one driver, which does not claim COMPLETED by the transition endpoint | also `DriverEarns` and `FilesEarned`: a copy, an outcome or a file that says COMPLETED names a run that worked off every task |
| `TwoDriversOneRun` (`OneActiveRunUntilCrash`) | two drivers in one process, any calls | `RunsAreGuarded`: each RUNNING run is somebody's work, and the process either knows it as active or has dropped it; then the project is FAILED, or the refused driver is on its way to fail it and nobody else can start |

Each hypothesis is needed: two processes (`TwoTerminals`), a third driver or a
second one that saves late (the end of section 3), and a client that moves an
EXECUTING project to COMPLETED by itself (`routes.py:84`) break the property. One
driver may be several clients that take turns. The proofs go by what a step does
to the records it shares (a lemma per action), then one lemma per part of the
invariant.

**`EventStoreProofs`** proves `LossIsBounded`, `ReadsAreComplete` and that the files
implement `EventLog`. Its `IInv` says: who holds the locks is alone
(`CallsAreApart`), and an unfinished line is his or one a torn write left
(`TailIsWriters`); no event but one in `unsure` is in two lines, a store that has
loaded the ids knows every line of its own others, and who holds the locks writes
one that is in none (`LinesAreDistinct`); each torn write is charged at most once as a
line taken and once as an event swallowed, and one that may still be charged is
counted (`TornPays`); a line that is no text was charged (`GarbledIsPaid`), and an
unfinished one nobody is writing may still be; what some append returned or some
store believes stored is in the log but for as many events as were charged
(`LossIsPaid`: counting the events missing alone is not inductive, since a retry is
answered from the ids); and what a reader has listed is a prefix of the files
(`ReadsAreFair`). The refinement: the first part of a line puts an event (when only
its newline is missing), takes the last one back, or stutters; its end puts the
event, swallows it, or stutters; a full disk and a crash in the middle of a line
tear; a failed `fsync` makes the log unsure of an event; all else stutters.

**`PlanningProofs`** proves everything that `PlanRun` checks, for answers of any
length and any number of amendments, and with it that the algorithms compute what
they are meant to. A recursive function is unfolded into its rounds once
(`Iteration`: a step that stays in a set can be taken any number of times), and
what holds after each round is shown by induction over a set of numbers (`UpTo`,
from the least number of a set).

* Kahn's algorithm occurs twice, in `task_engine.py` with degrees and in
  `replan_applier.py` for the amended graph. Both are one worklist (`WorkInv`): what
  is in the order or in the queue is what waits for nothing outside the order and is
  not held. With the degrees, "held" is "names a dependency twice": the count
  starts above the number of dependencies (`InDegreeCounts`) and never gets to zero
  (`LeftCounts`). When the queue is empty, or everything is ordered, what is missing
  is the largest set that is held or waits for itself (`WorkEnds`). Hence
  `OrderIsTopological` and `AmendCheckIsExact`.
* The depth-first search keeps a path of dependencies and, outside it, a finished
  part that is closed under dependencies and has no circle (`SearchStates`); a task
  met on the path closes one (`BackEdge`). Twice the tasks visited less the length
  of the path counts the rounds, so two rounds a task are enough (`SearchEnds`).
  Hence `SearchIsExact`.
* The rules number tasks in their phase and let each need earlier ones only
  (`RuleList`), so their ids are unique and their lists in order. An amendment keeps
  the graph formed (`SplitIsFormed`). `PlanInv` joins all this into the inductive
  invariant: the order is that of the draft although the graph was amended, and an
  amended graph has no circle because the check is exact. What `Orchestrator` and
  `Replan` assume of the form of the graph they are given follows from it
  (`PlansFitRuns`), so their theorems are about the graphs that planning and amending
  deliver; `Replan` takes one that was found valid, since a run refuses any other.
* The sweep of the scheduler, stated as the set of tasks it blocks, has exactly one
  outcome on every graph, cycles and unknown ids included (`SweepIsDetermined`: two
  outcomes would differ first somewhere in the list, and the intersection of all
  sets closed under blocking is one); a wave has exactly one head
  (`HeadIsDetermined`); in a list that respects the dependencies a sweep is enough
  (`OneSweepIsEnough`). On every formed graph the loop of `update_states` computes the
  sweep (`LoopIsASweep`: after `n` rounds the first `n` tasks have their new status)
  and the head of the stable sort is that head (`FirstIsTheSortedHead`).

All invariants and action properties the runs check are theorems. Only
model-checked: liveness (`RunEnds`, `RunSettles`), which is out of reach of the
proof system, as is what stands on ENABLED.

## 5. What is not modelled

JD analysis, matching, blueprints and interview documents are text in, text out;
of blueprints only the technology stack reaches the task graph, and `Planning`
chooses it freely. Prompts, command lines, the sandbox's wrapping of them,
titles, goals and texts of tasks, response formats of API and CLI, timestamps and
artifacts nobody branches on are left out. Path normalisation is reduced to its
outcomes (usable, untrusted, nothing declared). The sort by
timestamp of what `get_events` returns is not modelled. `ExecutionOrchestrator.resume`,
`ReplanControl.resume_project`, `ProjectService.start_run` and
`run_workflow_to_ready` have no caller in the CLI or API. The CLI's `transition`
reaches READY without an approval; the plan gate is stated for the API, which
says it keeps it. Two runs that execute in the same workspace are visible as
`OneActiveRun` only, not in the workspace.

What reading the code for the models showed and no property states:

* `LlmPlanner.plan` says it never raises; a misshapen answer raises past its
  handlers (`llm_planner.py:205`, `:240`) and leaves the project ANALYZING.
* A model's plan loses paths that cannot be trusted at planning time
  (`llm_planner.py:155`), after which nothing is declared and scope is not judged.
* The advanced tasks of the rules have no dependencies on a stack without Redis
  and message queue (`task_engine.py:303`).
* A model's graph with a cycle is marked invalid, yet can be approved; the run
  then refuses it.
* `create_proposal` finds nothing to do in a run whose records are all BLOCKED, so
  such a project has no way on.
* The analyzer never recommends SPLIT, and a run holds one record of a task, so
  the attempt count of the replanner is always one.

## 6. Plan

Done: every module of section 2 with its runs, and the proofs of section 4.

Left, in this order:

1. **The product core on the run's contract** - `ProjectRuns` reduces a run to begun
   work, recorded work and an end; a proof that its executor implements `DagRun` with
   the tasks summed up, as `RunRefinesDag` is one for `Orchestrator`.
2. **Two executors in one workspace** - a composition of `ProjectRuns` with the
   git part of `Orchestrator`, for the process that resumes a project another is
   still executing.
3. **Larger instances** - three handlers that cancel and replan, too, in
   `SharedServer`, and a second crash.
