---------------------------- MODULE ProjectRuns ----------------------------
(***************************************************************************)
(* The product core around one project: ProjectService, RunControl and     *)
(* ReplanControl, called by the handlers of an API server's threads and by *)
(* CLI processes.  They share JSON files, the project record and one       *)
(* execution.json per run, which every call reads whole and writes whole.  *)
(* Nothing locks the files; a lock guards only the section of start_run    *)
(* that admits a run, and only within a process.                           *)
(*                                                                         *)
(* An action is the code between two accesses of those files.  A call that *)
(* its first guard refuses changes nothing and is not an action.  The      *)
(* execution of a run (Orchestrator) is abstracted to turns that poll for  *)
(* a cancellation and to the outcome it returns, or raises.                *)
(***************************************************************************)
EXTENDS Naturals

CONSTANTS
    Procs,       \* operating-system processes
    Handlers,    \* threads that serve one call at a time
    ProcOf,      \* the process a handler runs in
    MayCall,     \* the calls a handler's client makes
    Runs,        \* run ids (bounds the number of runs)
    NoRun,       \* None, where a run id may be missing
    Tasks,       \* tasks a run has to work off
    Outcomes,    \* what the execution of a run can come to
    MaxCalls,    \* bound: the calls a handler serves
    MaxCrashes   \* bound: processes that die

CallKinds == {"plan", "approve", "transition", "execute", "resume",
              "cancel", "propose", "approveReplan", "rejectReplan", "apply"}

ASSUME ConstantsAssumption ==
    /\ ProcOf \in [Handlers -> Procs]
    /\ MayCall \in [Handlers -> SUBSET CallKinds]
    /\ NoRun \notin Runs
    /\ Tasks \in Nat /\ MaxCrashes \in Nat
    /\ MaxCalls \in [Handlers -> Nat]
    /\ Outcomes \subseteq {"COMPLETED", "FAILED", "BLOCKED", "RAISED"}

VARIABLES
    project,    \* project.json
    graph,      \* TRUE when a task_graph artifact is stored
    runs,       \* execution.json of every run
    proposal,   \* the replan proposal stored with every run (one per run)
    active,     \* RunControl._active_runs of every process
    cancels,    \* RunControl._cancellations of every process
    worked,     \* tasks a run's executor has begun
    serving,    \* the call every handler serves: where it is, what it holds
    left,       \* calls every handler may still take
    crashes,    \* processes that may still die
    approved    \* history: a call of approve_plan has moved the project on

vars == <<project, graph, runs, proposal, active, cancels, worked, serving,
          left, crashes, approved>>

-----------------------------------------------------------------------------
(* Data *)

Transitions ==
    [CREATED   |-> {"ANALYZING"},
     ANALYZING |-> {"PLANNING"},
     PLANNING  |-> {"READY"},
     READY     |-> {"EXECUTING"},
     EXECUTING |-> {"COMPLETED", "FAILED", "BLOCKED"},
     BLOCKED   |-> {"EXECUTING", "FAILED"},
     COMPLETED |-> {},
     FAILED    |-> {}]

ProjectStatus == DOMAIN Transitions
M_CanTransition(from, to) ==
    to \in Transitions[from] \/ (from = "FAILED" /\ to = "EXECUTING")
CanTransition(from, to) == to \in Transitions[from]

RunEnd == {"COMPLETED", "FAILED", "BLOCKED"}

(* A run's file: its status, its sticky cancel_requested flag, and whether *)
(* its task results hold a FAILED record.                                  *)
Files == [status : RunEnd \cup {"ABSENT", "RUNNING"},
          flag : BOOLEAN, failed : BOOLEAN]
Absent == [status |-> "ABSENT", flag |-> FALSE, failed |-> FALSE]
Opened == [Absent EXCEPT !.status = "RUNNING"]

Existing == {r \in Runs : runs[r].status # "ABSENT"}

Projects == [status : ProjectStatus, plan : BOOLEAN, last : Runs \cup {NoRun}]
NewProject == [status |-> "CREATED", plan |-> FALSE, last |-> NoRun]

ProposalStatus == {"NONE", "PROPOSED", "APPROVED", "REJECTED", "APPLIED"}

(* What a handler holds: the call and the point it has reached, the project *)
(* it has loaded, the transition it is after, the artifact references it   *)
(* still has to store, its run and the copy of the run's file it will save. *)
Points == {"idle", "transit", "transitSave", "draft", "refLoad", "refSave",
           "start", "work", "begin", "record", "raise", "unwind", "note",
           "complete",
           "cancelLoad", "cancelSave", "proposeLoad", "proposeSave",
           "decideSave", "applyLoad", "applySave", "applyProject"}

Held == [call : CallKinds \cup {"none"}, pc : Points, proj : Projects,
         goal : ProjectStatus, refs : 0 .. 2, rid : Runs \cup {NoRun},
         file : Files]

Idle == [call |-> "none", pc |-> "idle", proj |-> NewProject,
         goal |-> "CREATED", refs |-> 0, rid |-> NoRun, file |-> Absent]

-----------------------------------------------------------------------------
(* Steps of a handler *)

At(h, pc) == serving[h].pc = pc
Goto(h, pc) == serving' = [serving EXCEPT ![h].pc = pc]
Hold(h, held) == serving' = [serving EXCEPT ![h] = held]
Return(h) == Hold(h, Idle)

Take(h, call) ==
    /\ At(h, "idle")
    /\ call \in MayCall[h]
    /\ left[h] > 0
    /\ left' = [left EXCEPT ![h] = @ - 1]

Enter(h, call, pc, goal) ==
    /\ Take(h, call)
    /\ Hold(h, [Idle EXCEPT !.call = call, !.pc = pc, !.goal = goal])

EnterOn(h, call, pc, r) ==
    /\ Take(h, call)
    /\ Hold(h, [Idle EXCEPT !.call = call, !.pc = pc, !.rid = r])

Own(h) == ProcOf[h]
Forget(p, r) == [active EXCEPT ![p] = IF @ = r THEN NoRun ELSE @]

(* A whole-file write keeps a cancel_requested that the file holds.        *)
Overwritten(r, file) ==
    [runs EXCEPT ![r] = [file EXCEPT !.flag = @ \/ runs[r].flag]]

Stored == <<graph, runs, proposal>>
Memory == <<active, cancels, worked, crashes, approved>>

-----------------------------------------------------------------------------
(* ProjectService.transition_to, in two accesses of project.json *)

(* Client calls that enter it at once: the transition endpoint, which      *)
(* refuses READY, and approve_plan, which is the way to it.                *)
M_GateTargets == ProjectStatus
GateTargets == ProjectStatus \ {"READY"}

RequestTransition(h) ==
    /\ \E goal \in GateTargets : Enter(h, "transition", "transit", goal)
    /\ UNCHANGED <<project, Stored, Memory>>

ApprovePlan(h) ==
    /\ project.status = "PLANNING" /\ project.plan
    /\ Enter(h, "approve", "transit", "READY")
    /\ UNCHANGED <<project, Stored, Memory>>

TransitLoad(h) ==
    /\ At(h, "transit")
    /\ IF CanTransition(project.status, serving[h].goal)
       THEN Hold(h, [serving[h] EXCEPT !.pc = "transitSave", !.proj = project])
       ELSE Return(h)
    /\ UNCHANGED <<project, Stored, Memory, left>>

(* Where the caller goes on once its transition is saved. *)
Resumption(call, goal) ==
    CASE call = "plan" -> "draft"
      [] call \in {"execute", "resume"} /\ goal = "EXECUTING" -> "start"
      [] OTHER -> "idle"

TransitSave(h) ==
    LET moved == [serving[h].proj EXCEPT !.status = serving[h].goal]
        next == Resumption(serving[h].call, serving[h].goal)
    IN  /\ At(h, "transitSave")
        /\ project' = moved
        /\ approved' = (approved \/ serving[h].call = "approve")
        /\ IF next = "idle"
           THEN Return(h)
           ELSE Hold(h, [serving[h] EXCEPT !.pc = next, !.proj = moved])
        /\ UNCHANGED <<Stored, active, cancels, worked, crashes, left>>

-----------------------------------------------------------------------------
(* plan_to_planning *)

Plan(h) ==
    /\ project.status = "CREATED"
    /\ Enter(h, "plan", "transit", "ANALYZING")
    /\ UNCHANGED <<project, Stored, Memory>>

(* ANALYZING is followed by one reference to store, the JD profile;        *)
(* PLANNING by the task graph artifact and two, blueprint and task graph.  *)
(* The planner itself may raise, on an empty JD for one.                   *)
Draft(h) ==
    /\ At(h, "draft")
    /\ LET analysed == serving[h].goal = "ANALYZING"
       IN  /\ graph' = (graph \/ ~analysed)
           /\ \/ Hold(h, [serving[h] EXCEPT !.pc = "refLoad",
                                            !.refs = IF analysed THEN 1 ELSE 2])
              \/ analysed /\ Return(h)
    /\ UNCHANGED <<project, runs, proposal, Memory, left>>

RefLoad(h) ==
    /\ At(h, "refLoad")
    /\ Hold(h, [serving[h] EXCEPT !.pc = "refSave", !.proj = project])
    /\ UNCHANGED <<project, Stored, Memory, left>>

RefSave(h) ==
    LET more == serving[h].refs = 2
        drafted == serving[h].goal = "PLANNING"
    IN  /\ At(h, "refSave")
        /\ project' = [serving[h].proj EXCEPT !.plan = @ \/ (drafted /\ ~more)]
        /\ CASE more ->
                  Hold(h, [serving[h] EXCEPT !.pc = "refLoad", !.refs = 1])
             [] ~more /\ ~drafted ->
                  Hold(h, [serving[h] EXCEPT !.pc = "transit", !.refs = 0,
                                             !.goal = "PLANNING"])
             [] OTHER -> Return(h)
        /\ UNCHANGED <<Stored, Memory, left>>

-----------------------------------------------------------------------------
(* execute_ready_project and execute_replan_run: the same from the first   *)
(* transition on.                                                          *)

ExecuteReady(h) ==
    /\ project.status = "READY" /\ project.plan /\ graph
    /\ Enter(h, "execute", "transit", "EXECUTING")
    /\ UNCHANGED <<project, Stored, Memory>>

ResumeApplied(h) ==
    /\ project.status \in {"FAILED", "BLOCKED", "EXECUTING"} /\ graph
    /\ \E r \in Runs : proposal[r] = "APPLIED"
    /\ Enter(h, "resume", "transit", "EXECUTING")
    /\ UNCHANGED <<project, Stored, Memory>>

(* The locked section of start_run. *)

(* the run the project record names is looked at *)
M_Busy(p) == project.last # NoRun /\ runs[project.last].status = "RUNNING"
Busy(p) == active[p] # NoRun /\ runs[active[p]].status = "RUNNING"

AdmitRun(h) ==
    /\ At(h, "start")
    /\ ~Busy(Own(h))
    /\ \E r \in Runs \ Existing :
         /\ runs' = [runs EXCEPT ![r] = Opened]
         /\ active' = [active EXCEPT ![Own(h)] = r]
         /\ Hold(h, [serving[h] EXCEPT !.pc = "work", !.rid = r])
    /\ UNCHANGED <<project, graph, proposal, cancels, worked, crashes,
                   approved, left>>

(* A resume builds its executor after the transition and may fail there.   *)
BuildFails(h) ==
    /\ At(h, "start")
    /\ serving[h].call = "resume"
    /\ Return(h)
    /\ UNCHANGED <<project, Stored, Memory, left>>

RefuseRun(h) ==
    /\ At(h, "start")
    /\ Busy(Own(h))
    /\ Goto(h, "unwind")
    /\ UNCHANGED <<project, Stored, Memory, left>>

M_CancelPending(p, r) == runs[r].flag
CancelPending(p, r) == r \in cancels[p] \/ runs[r].flag

M_Unfinished(r) == worked[r] <= Tasks
Unfinished(r) == worked[r] < Tasks

(* The poll at the top of a turn passes.  What it read is not read again    *)
(* before the turn has begun its task, or the tasks of its parallel wave.   *)
Poll(h) ==
    LET r == serving[h].rid
    IN  /\ At(h, "work")
        /\ ~CancelPending(Own(h), r)
        /\ Unfinished(r)
        /\ Goto(h, "begin")
        /\ UNCHANGED <<project, Stored, Memory, left>>

(* The turn begins a task; a wave goes on with the next one.               *)
BeginTask(h) ==
    LET r == serving[h].rid
    IN  /\ At(h, "begin")
        /\ Unfinished(r)
        /\ worked' = [worked EXCEPT ![r] = @ + 1]
        /\ \/ Goto(h, "work")
           \/ worked'[r] < Tasks /\ UNCHANGED serving
        /\ UNCHANGED <<project, Stored, active, cancels, left, crashes, approved>>

(* The executor returns or raises.  Its last poll decides between CANCELLED *)
(* (a BLOCKED run with its flag set) and COMPLETED, which needs every task; *)
(* a task's failure, a refused graph or an exception needs no poll.        *)
EndWork(h) ==
    LET r == serving[h].rid
        pending == CancelPending(Own(h), r)
        Ended(pc, status, flag, failed) ==
            Hold(h, [serving[h] EXCEPT !.pc = pc,
                       !.file = [status |-> status, flag |-> flag,
                                 failed |-> failed]])
    IN  /\ At(h, "work")
        /\ \/ /\ pending
              /\ \E failed \in BOOLEAN : Ended("record", "BLOCKED", TRUE, failed)
           \/ /\ ~pending /\ worked[r] = Tasks /\ "COMPLETED" \in Outcomes
              /\ Ended("record", "COMPLETED", FALSE, FALSE)
           \/ \E status \in Outcomes \cap {"FAILED", "BLOCKED"}, failed \in BOOLEAN :
                Ended("record", status, FALSE, failed)
           \/ /\ "RAISED" \in Outcomes
              /\ Ended("raise", "FAILED", FALSE, FALSE)
        /\ UNCHANGED <<project, Stored, Memory, left>>

M_Record(h) ==
    /\ At(h, "record") \/ At(h, "raise")
    /\ IF serving[h].file.status = "BLOCKED"
       THEN /\ Hold(h, [serving[h] EXCEPT !.pc = "note",
                                          !.file.status = "RUNNING"])
            /\ UNCHANGED runs
       ELSE /\ runs' = Overwritten(serving[h].rid, serving[h].file)
            /\ Goto(h, IF At(h, "record") THEN "note" ELSE "unwind")
    /\ UNCHANGED <<project, graph, proposal, Memory, left>>

(* start_run stores what the run came to, over whatever the file holds. *)
Record(h) ==
    /\ At(h, "record") \/ At(h, "raise")
    /\ runs' = Overwritten(serving[h].rid, serving[h].file)
    /\ Goto(h, IF At(h, "record") THEN "note" ELSE "unwind")
    /\ UNCHANGED <<project, graph, proposal, Memory, left>>

(* start_run has raised, refused or failed: the process drops the active   *)
(* run, whosever it is, and fails the project if there was one.            *)
Unwind(h) ==
    LET r == active[Own(h)]
    IN  /\ At(h, "unwind")
        /\ active' = [active EXCEPT ![Own(h)] = NoRun]
        /\ IF r = NoRun
           THEN Return(h) /\ UNCHANGED project
           ELSE /\ project' = [serving[h].proj EXCEPT !.last = r]
                /\ Hold(h, [serving[h] EXCEPT !.pc = "transit",
                                              !.goal = "FAILED"])
        /\ UNCHANGED <<Stored, cancels, worked, crashes, approved, left>>

(* The run has returned: the project record as it was before the run is    *)
(* saved with the run's id.                                                *)
NoteRun(h) ==
    /\ At(h, "note")
    /\ project' = [serving[h].proj EXCEPT !.last = serving[h].rid]
    /\ Goto(h, "complete")
    /\ UNCHANGED <<Stored, Memory, left>>

(* complete_run, and the choice of the project's last transition. *)
M_Verdict(r, returned) ==
    IF runs[r].status = "FAILED" THEN "FAILED" ELSE "COMPLETED"
Verdict(r, returned) ==
    IF runs[r].status \in RunEnd THEN runs[r].status ELSE returned

CompleteRun(h) ==
    LET r == serving[h].rid
        verdict == Verdict(r, serving[h].file.status)
    IN  /\ At(h, "complete")
        /\ runs' = [runs EXCEPT ![r].status = verdict]
        /\ active' = Forget(Own(h), r)
        /\ Hold(h, [serving[h] EXCEPT !.pc = "transit",
                      !.goal = IF verdict \in {"COMPLETED", "FAILED"}
                               THEN verdict ELSE "BLOCKED"])
        /\ UNCHANGED <<project, graph, proposal, cancels, worked, crashes,
                       approved, left>>

-----------------------------------------------------------------------------
(* cancel_run *)

RequestCancel(h) ==
    /\ \E r \in Existing :
         /\ EnterOn(h, "cancel", "cancelLoad", r)
         /\ cancels' = [cancels EXCEPT ![Own(h)] =
                          IF runs[r].status = "RUNNING" THEN @ \cup {r} ELSE @]
    /\ UNCHANGED <<project, Stored, active, worked, crashes, approved>>

CancelLoad(h) ==
    /\ At(h, "cancelLoad")
    /\ Hold(h, [serving[h] EXCEPT !.pc = "cancelSave",
                                  !.file = runs[serving[h].rid]])
    /\ UNCHANGED <<project, Stored, Memory, left>>

M_CancelSave(h) ==
    LET r == serving[h].rid
    IN  /\ At(h, "cancelSave")
        /\ runs' = Overwritten(r, [serving[h].file EXCEPT !.flag = TRUE])
        /\ active' = Forget(Own(h), r)
        /\ Return(h)
        /\ UNCHANGED <<project, graph, proposal, cancels, worked, crashes,
                       approved, left>>

CancelSave(h) ==
    LET r == serving[h].rid
    IN  /\ At(h, "cancelSave")
        /\ runs' = Overwritten(r, [serving[h].file EXCEPT !.status = "BLOCKED"])
        /\ active' = Forget(Own(h), r)
        /\ Return(h)
        /\ UNCHANGED <<project, graph, proposal, cancels, worked, crashes,
                       approved, left>>

-----------------------------------------------------------------------------
(* ReplanControl: one proposal per run is followed *)

Propose(h) ==
    /\ project.status \notin {"COMPLETED", "FAILED"}
    /\ \E r \in Existing :
         graph /\ proposal[r] = "NONE" /\ EnterOn(h, "propose", "proposeLoad", r)
    /\ UNCHANGED <<project, Stored, Memory>>

(* Without a failed record, or when the replanner has no answer, the call  *)
(* raises.                                                                 *)
ProposeLoad(h) ==
    LET r == serving[h].rid
    IN  /\ At(h, "proposeLoad")
        /\ \/ /\ runs[r].status \in {"FAILED", "BLOCKED"} /\ runs[r].failed
              /\ proposal[r] = "NONE"
              /\ proposal' = [proposal EXCEPT ![r] = "PROPOSED"]
              /\ Hold(h, [serving[h] EXCEPT !.pc = "proposeSave",
                                            !.file = runs[r]])
           \/ Return(h) /\ UNCHANGED proposal
        /\ UNCHANGED <<project, graph, runs, Memory, left>>

ProposeSave(h) ==
    /\ At(h, "proposeSave")
    /\ runs' = Overwritten(serving[h].rid,
                           [serving[h].file EXCEPT !.status = "BLOCKED"])
    /\ Return(h)
    /\ UNCHANGED <<project, graph, proposal, Memory, left>>

(* approve_proposal and reject_proposal: load and check, then save. *)
Decide(h) ==
    /\ \E r \in Runs, call \in {"approveReplan", "rejectReplan"} :
         proposal[r] = "PROPOSED" /\ EnterOn(h, call, "decideSave", r)
    /\ UNCHANGED <<project, Stored, Memory>>

DecideSave(h) ==
    /\ At(h, "decideSave")
    /\ proposal' = [proposal EXCEPT ![serving[h].rid] =
                      IF serving[h].call = "approveReplan"
                      THEN "APPROVED" ELSE "REJECTED"]
    /\ Return(h)
    /\ UNCHANGED <<project, graph, runs, Memory, left>>

(* ProjectService.apply_replan loads the project first, whatever its       *)
(* status, and saves that copy last.                                       *)
ApplyReplan(h) ==
    /\ graph
    /\ \E r \in Existing :
         /\ Take(h, "apply")
         /\ Hold(h, [Idle EXCEPT !.call = "apply", !.pc = "applyLoad",
                                 !.rid = r, !.proj = project])
    /\ UNCHANGED <<project, Stored, Memory>>

(* The applier may refuse an approved proposal: the call raises.           *)
ApplyLoad(h) ==
    /\ At(h, "applyLoad")
    /\ \/ proposal[serving[h].rid] = "APPROVED" /\ Goto(h, "applySave")
       \/ Return(h)
    /\ UNCHANGED <<project, Stored, Memory, left>>

ApplySave(h) ==
    /\ At(h, "applySave")
    /\ proposal' = [proposal EXCEPT ![serving[h].rid] = "APPLIED"]
    /\ Goto(h, "applyProject")
    /\ UNCHANGED <<project, graph, runs, Memory, left>>

ApplyProject(h) ==
    /\ At(h, "applyProject")
    /\ project' = [serving[h].proj EXCEPT !.plan = TRUE]
    /\ Return(h)
    /\ UNCHANGED <<Stored, Memory, left>>

-----------------------------------------------------------------------------
(* A process dies: its memory and its calls are gone, the files stay.      *)
Crash(p) ==
    /\ crashes > 0
    /\ crashes' = crashes - 1
    /\ active' = [active EXCEPT ![p] = NoRun]
    /\ cancels' = [cancels EXCEPT ![p] = {}]
    /\ serving' = [h \in Handlers |-> IF Own(h) = p THEN Idle ELSE serving[h]]
    /\ UNCHANGED <<project, Stored, worked, left, approved>>

Init ==
    /\ project = NewProject
    /\ graph = FALSE
    /\ runs = [r \in Runs |-> Absent]
    /\ proposal = [r \in Runs |-> "NONE"]
    /\ active = [p \in Procs |-> NoRun]
    /\ cancels = [p \in Procs |-> {}]
    /\ worked = [r \in Runs |-> 0]
    /\ serving = [h \in Handlers |-> Idle]
    /\ left = MaxCalls
    /\ crashes = MaxCrashes
    /\ approved = FALSE

Request(h) ==
    \/ Plan(h) \/ ApprovePlan(h) \/ RequestTransition(h)
    \/ ExecuteReady(h) \/ ResumeApplied(h) \/ RequestCancel(h)
    \/ Propose(h) \/ Decide(h) \/ ApplyReplan(h)

Serve(h) ==
    \/ TransitLoad(h) \/ TransitSave(h)
    \/ Draft(h) \/ RefLoad(h) \/ RefSave(h)
    \/ AdmitRun(h) \/ BuildFails(h) \/ RefuseRun(h)
    \/ Poll(h) \/ BeginTask(h) \/ EndWork(h) \/ Record(h)
    \/ Unwind(h) \/ NoteRun(h) \/ CompleteRun(h)
    \/ CancelLoad(h) \/ CancelSave(h)
    \/ ProposeLoad(h) \/ ProposeSave(h) \/ DecideSave(h)
    \/ ApplyLoad(h) \/ ApplySave(h) \/ ApplyProject(h)

Next ==
    \/ \E h \in Handlers : Request(h) \/ Serve(h)
    \/ \E p \in Procs : Crash(p)

Spec == Init /\ [][Next]_vars

(* A handler's thread goes on with the call it serves; clients owe none.   *)
FairSpec == Spec /\ \A h \in Handlers : WF_vars(Serve(h))

-----------------------------------------------------------------------------
(* Properties *)

(* The shape of the files, of the processes' memory and of the calls.      *)
TypeOK ==
    /\ project \in Projects
    /\ graph \in BOOLEAN
    /\ runs \in [Runs -> Files]
    /\ proposal \in [Runs -> ProposalStatus]
    /\ active \in [Procs -> Runs \cup {NoRun}]
    /\ cancels \in [Procs -> SUBSET Runs]
    /\ worked \in [Runs -> 0 .. Tasks]
    /\ serving \in [Handlers -> Held]
    /\ left \in [Handlers -> Nat]
    /\ crashes \in 0 .. MaxCrashes
    /\ approved \in BOOLEAN

(* The plan gate (approve_plan, and the transition endpoint that refuses   *)
(* READY): no run of a project exists before a call of approve_plan has    *)
(* moved it on, whatever stale copies of the project record are saved.     *)
RunsFollowApproval == Existing # {} => approved

(* Whole-file saves of copies loaded earlier (cancel_run, create_proposal, *)
(* start_run) never bring a run that has ended back to RUNNING.            *)
EndedStaysEnded ==
    [][\A r \in Runs : runs[r].status \in RunEnd => runs'[r].status \in RunEnd]_vars

(* Cooperative cancellation: a turn's poll passes only while the run's file *)
(* says RUNNING, although the executor polls a set in memory and a flag,    *)
(* not the file's status; and a task begins only in a turn whose poll has   *)
(* passed.  So once cancel_run has answered, no further turn begins a task; *)
(* the turn that had polled before still hands out its task or its wave.    *)
CancelStopsWork ==
    [][/\ \A h \in Handlers :
             serving[h].pc # "begin" /\ serving'[h].pc = "begin" =>
                 runs[serving'[h].rid].status = "RUNNING"
       /\ \A r \in Runs :
             worked'[r] > worked[r] =>
                 \E h \in Handlers : serving[h].pc = "begin" /\ serving[h].rid = r]_vars

(* COMPLETED and FAILED are final states of a project.                     *)
FinalIsFinal ==
    [][project.status \in {"COMPLETED", "FAILED"} =>
         project'.status = project.status]_vars

(* A COMPLETED project names a run whose executor worked off every task,   *)
(* however cancellations and replans interleave with it.                   *)
CompletedWasEarned ==
    project.status = "COMPLETED" =>
        project.last # NoRun /\ worked[project.last] = Tasks

(* The product core keeps a project to one active run.                     *)
OneActiveRun ==
    \A r, s \in Runs :
        runs[r].status = "RUNNING" /\ runs[s].status = "RUNNING" => r = s

(* ... and with two threads of one process does, whatever they have loaded  *)
(* before and save later (service.py:311), as long as the process does not *)
(* die and leave a run RUNNING.  A third thread can break it               *)
(* (service.py:690).                                                       *)
OneActiveRunUntilCrash == crashes = MaxCrashes => OneActiveRun

(* A run that is admitted ends, unless a process died: its file does not   *)
(* stay RUNNING, whether its executor returns, is cancelled or raises.     *)
RunSettles ==
    \A r \in Runs :
        runs[r].status = "RUNNING" ~>
            (runs[r].status # "RUNNING" \/ crashes < MaxCrashes)
=============================================================================
