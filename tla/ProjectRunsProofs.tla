------------------------- MODULE ProjectRunsProofs -------------------------
(***************************************************************************)
(* Proofs about ProjectRuns, for any number of processes, handlers, runs,  *)
(* calls and crashes, and any mix of calls.                                *)
(***************************************************************************)
EXTENDS ProjectRuns, TLAPS

USE ConstantsAssumption
USE DEF Stored, Memory

LEMMA IdleTyped == Idle \in Held
BY DEF Idle, Held, CallKinds, Points, Projects, NewProject, ProjectStatus,
       Transitions, Files, Absent, RunEnd

LEMMA StatusNames ==
    ProjectStatus = {"CREATED", "ANALYZING", "PLANNING", "READY", "EXECUTING",
                     "COMPLETED", "FAILED", "BLOCKED"}
BY DEF ProjectStatus, Transitions

-----------------------------------------------------------------------------
(* The inductive invariant.  Every copy of the project record that a call   *)
(* still holds is as bound by the plan gate as the record itself, since it *)
(* may be saved later; a call that works on a run knows one that exists,   *)
(* and what it is going to save over a run's file is the end of the run.   *)

Beyond == {"READY", "EXECUTING", "COMPLETED", "FAILED", "BLOCKED"}

OnRun == {"work", "begin", "record", "raise", "note", "complete",
          "cancelLoad", "cancelSave", "proposeLoad", "proposeSave"}

HandlerOK(h) ==
    LET c == serving[h]
    IN  /\ c.proj.status \in Beyond => approved
        /\ c.pc = "start" => approved
        /\ c.pc = "transitSave" => c.goal \in Transitions[c.proj.status]
        /\ c.goal = "READY" => c.call = "approve"
        /\ c.pc \in OnRun => c.rid \in Existing
        /\ c.pc \in {"record", "raise"} => c.file.status \in RunEnd
        /\ c.pc \in {"note", "complete", "proposeSave"} =>
              runs[c.rid].status \in RunEnd

ProjectOK ==
    /\ project.status \in Beyond => approved
    /\ RunsFollowApproval

(* No run disappears, and no run that has ended goes on.                   *)
RunsKept ==
    \A r \in Runs :
        /\ r \in Existing => runs'[r].status # "ABSENT"
        /\ runs[r].status \in RunEnd => runs'[r].status \in RunEnd

RunsInv == TypeOK /\ ProjectOK /\ \A h \in Handlers : HandlerOK(h)

-----------------------------------------------------------------------------
(* Types *)

(* What Take, Hold, Goto and Return do to a typed state. *)
LEMMA HoldTyped ==
    ASSUME TypeOK, NEW h \in Handlers, NEW held \in Held, Hold(h, held)
    PROVE  serving' \in [Handlers -> Held]
BY DEF TypeOK, Hold

LEMMA GotoTyped ==
    ASSUME TypeOK, NEW h \in Handlers, NEW pc \in Points, Goto(h, pc)
    PROVE  serving' \in [Handlers -> Held]
<1>1. serving[h] \in Held
  BY DEF TypeOK
<1>2. [serving[h] EXCEPT !.pc = pc] \in Held
  BY <1>1 DEF Held
<1>3. Hold(h, [serving[h] EXCEPT !.pc = pc])
  BY DEF Goto, Hold, TypeOK
<1> QED
  BY <1>2, <1>3, HoldTyped

LEMMA ReturnTyped ==
    ASSUME TypeOK, NEW h \in Handlers, Return(h)
    PROVE  serving' \in [Handlers -> Held]
BY HoldTyped, IdleTyped DEF Return

LEMMA TakeTyped ==
    ASSUME TypeOK, NEW h \in Handlers, NEW call, Take(h, call)
    PROVE  left' \in [Handlers -> Nat] /\ call \in CallKinds
BY DEF TypeOK, Take

LEMMA EnterTyped ==
    ASSUME TypeOK, NEW h \in Handlers, NEW call, NEW pc \in Points,
           NEW goal \in ProjectStatus, Enter(h, call, pc, goal)
    PROVE  serving' \in [Handlers -> Held] /\ left' \in [Handlers -> Nat]
<1>1. call \in CallKinds /\ left' \in [Handlers -> Nat]
  BY TakeTyped DEF Enter
<1>2. [Idle EXCEPT !.call = call, !.pc = pc, !.goal = goal] \in Held
  BY <1>1, IdleTyped DEF Held
<1> QED
  BY <1>1, <1>2, HoldTyped DEF Enter

LEMMA EnterOnTyped ==
    ASSUME TypeOK, NEW h \in Handlers, NEW call, NEW pc \in Points,
           NEW r \in Runs, EnterOn(h, call, pc, r)
    PROVE  serving' \in [Handlers -> Held] /\ left' \in [Handlers -> Nat]
<1>1. call \in CallKinds /\ left' \in [Handlers -> Nat]
  BY TakeTyped DEF EnterOn
<1>2. [Idle EXCEPT !.call = call, !.pc = pc, !.rid = r] \in Held
  BY <1>1, IdleTyped DEF Held
<1> QED
  BY <1>1, <1>2, HoldTyped DEF EnterOn

LEMMA OverwrittenTyped ==
    ASSUME TypeOK, NEW r, NEW file \in Files
    PROVE  Overwritten(r, file) \in [Runs -> Files]
BY DEF TypeOK, Overwritten, Files

LEMMA ForgetTyped ==
    ASSUME TypeOK, NEW p, NEW r
    PROVE  Forget(p, r) \in [Procs -> Runs \cup {NoRun}]
BY DEF TypeOK, Forget

LEMMA InitTyped == Init => TypeOK
<1> SUFFICES ASSUME Init PROVE TypeOK
  OBVIOUS
<1>1. project \in Projects
  BY StatusNames DEF Init, NewProject, Projects
<1>2. runs \in [Runs -> Files]
  BY DEF Init, Absent, Files
<1>3. proposal \in [Runs -> ProposalStatus] /\ worked \in [Runs -> 0 .. Tasks]
  BY DEF Init, ProposalStatus
<1>4. serving \in [Handlers -> Held]
  BY IdleTyped DEF Init
<1>5. left \in [Handlers -> Nat] /\ crashes \in 0 .. MaxCrashes
  BY DEF Init
<1>6. /\ active \in [Procs -> Runs \cup {NoRun}]
      /\ cancels \in [Procs -> SUBSET Runs]
      /\ graph \in BOOLEAN /\ approved \in BOOLEAN
  BY DEF Init
<1> QED
  BY <1>1, <1>2, <1>3, <1>4, <1>5, <1>6 DEF TypeOK

LEMMA RequestTyped ==
    ASSUME TypeOK, NEW h \in Handlers, Request(h)
    PROVE  TypeOK'
<1>1. CASE Plan(h)
  BY <1>1, EnterTyped, StatusNames DEF Plan, TypeOK, Points
<1>2. CASE ApprovePlan(h)
  BY <1>2, EnterTyped, StatusNames DEF ApprovePlan, TypeOK, Points
<1>3. CASE RequestTransition(h)
  BY <1>3, EnterTyped DEF RequestTransition, GateTargets, TypeOK, Points
<1>4. CASE ExecuteReady(h)
  BY <1>4, EnterTyped, StatusNames DEF ExecuteReady, TypeOK, Points
<1>5. CASE ResumeApplied(h)
  BY <1>5, EnterTyped, StatusNames DEF ResumeApplied, TypeOK, Points
<1>6. CASE RequestCancel(h)
  <2>1. PICK r \in Existing :
          /\ EnterOn(h, "cancel", "cancelLoad", r)
          /\ cancels' = [cancels EXCEPT ![Own(h)] =
                           IF runs[r].status = "RUNNING" THEN @ \cup {r} ELSE @]
    BY <1>6 DEF RequestCancel
  <2>2. cancels' \in [Procs -> SUBSET Runs]
    BY <2>1 DEF TypeOK, Existing
  <2>3. serving' \in [Handlers -> Held] /\ left' \in [Handlers -> Nat]
    BY <2>1, EnterOnTyped DEF Existing, Points
  <2> QED
    BY <1>6, <2>2, <2>3 DEF RequestCancel, TypeOK
<1>7. CASE Propose(h)
  BY <1>7, EnterOnTyped DEF Propose, TypeOK, Points, Existing
<1>8. CASE Decide(h)
  BY <1>8, EnterOnTyped DEF Decide, TypeOK, Points
<1>9. CASE ApplyReplan(h)
  <2>1. PICK r \in Existing :
          /\ Take(h, "apply")
          /\ Hold(h, [Idle EXCEPT !.call = "apply", !.pc = "applyLoad",
                                  !.rid = r, !.proj = project])
    BY <1>9 DEF ApplyReplan
  <2>2. [Idle EXCEPT !.call = "apply", !.pc = "applyLoad",
                     !.rid = r, !.proj = project] \in Held
    BY IdleTyped DEF Held, CallKinds, Points, TypeOK, Existing
  <2> QED
    BY <1>9, <2>1, <2>2, HoldTyped, TakeTyped DEF ApplyReplan, TypeOK
<1> QED
  BY <1>1, <1>2, <1>3, <1>4, <1>5, <1>6, <1>7, <1>8, <1>9 DEF Request

(* The calls on the project record. *)
LEMMA ProjectStepsTyped ==
    ASSUME TypeOK, NEW h \in Handlers,
           \/ TransitLoad(h) \/ TransitSave(h)
           \/ Draft(h) \/ RefLoad(h) \/ RefSave(h)
    PROVE  TypeOK'
<1>0. serving[h] \in Held /\ project \in Projects
  BY DEF TypeOK
<1>1. CASE TransitLoad(h)
  <2>1. [serving[h] EXCEPT !.pc = "transitSave", !.proj = project] \in Held
    BY <1>0 DEF Held, Points
  <2> QED
    BY <1>1, <2>1, HoldTyped, ReturnTyped DEF TransitLoad, TypeOK
<1>2. CASE TransitSave(h)
  <2> DEFINE moved == [serving[h].proj EXCEPT !.status = serving[h].goal]
             next == Resumption(serving[h].call, serving[h].goal)
  <2>1. moved \in Projects
    BY <1>0 DEF Held, Projects
  <2>2. next \in Points
    BY DEF Resumption, Points
  <2>3. [serving[h] EXCEPT !.pc = next, !.proj = moved] \in Held
    BY <1>0, <2>1, <2>2 DEF Held
  <2>4. serving' \in [Handlers -> Held]
    BY <1>2, <2>3, HoldTyped, ReturnTyped DEF TransitSave
  <2>5. project' \in Projects
    BY <1>2, <2>1 DEF TransitSave
  <2>6. approved' \in BOOLEAN
    BY <1>2 DEF TransitSave
  <2> QED
    BY <1>2, <2>4, <2>5, <2>6 DEF TransitSave, TypeOK
<1>3. CASE Draft(h)
  <2> DEFINE n == IF serving[h].goal = "ANALYZING" THEN 1 ELSE 2
             held == [serving[h] EXCEPT !.pc = "refLoad", !.refs = n]
  <2>1. held \in Held
    <3>1. n \in 0 .. 2
      OBVIOUS
    <3> QED
      BY <1>0, <3>1 DEF Held, Points
  <2>0. Hold(h, held) \/ Return(h)
    BY <1>3 DEF Draft
  <2>2. serving' \in [Handlers -> Held]
    BY <2>0, <2>1, HoldTyped, ReturnTyped
  <2>3. graph' \in BOOLEAN
    BY <1>3 DEF Draft, TypeOK
  <2> QED
    BY <1>3, <2>2, <2>3 DEF Draft, TypeOK
<1>4. CASE RefLoad(h)
  <2>1. [serving[h] EXCEPT !.pc = "refSave", !.proj = project] \in Held
    BY <1>0 DEF Held, Points
  <2> QED
    BY <1>4, <2>1, HoldTyped DEF RefLoad, TypeOK
<1>5. CASE RefSave(h)
  <2>1. project' \in Projects
    BY <1>0, <1>5 DEF RefSave, Held, Projects
  <2> DEFINE next == [serving[h] EXCEPT !.pc = "refLoad", !.refs = 1]
             done == [serving[h] EXCEPT !.pc = "transit", !.refs = 0,
                                        !.goal = "PLANNING"]
  <2> DEFINE ref == 1
             none == 0
  <2>6. /\ "PLANNING" \in ProjectStatus
        /\ "transit" \in Points /\ "refLoad" \in Points
        /\ ref \in 0 .. 2 /\ none \in 0 .. 2
    BY StatusNames DEF Points
  <2>2. next \in Held
    <3> HIDE DEF ref
    <3>1. [serving[h] EXCEPT !.pc = "refLoad", !.refs = ref] \in Held
      BY <1>0, <2>6 DEF Held
    <3> QED
      BY <3>1 DEF ref
  <2>4. done \in Held
    <3> HIDE DEF none
    <3>1. [serving[h] EXCEPT !.pc = "transit", !.refs = none,
                             !.goal = "PLANNING"] \in Held
      BY <1>0, <2>6 DEF Held
    <3> QED
      BY <3>1 DEF none
  <2>5. Hold(h, next) \/ Hold(h, done) \/ Return(h)
    BY <1>5 DEF RefSave
  <2>3. serving' \in [Handlers -> Held]
    BY <2>2, <2>4, <2>5, HoldTyped, ReturnTyped
  <2> QED
    BY <1>5, <2>1, <2>3 DEF RefSave, TypeOK
<1> QED
  BY <1>1, <1>2, <1>3, <1>4, <1>5

(* The calls that run, cancel and replan. *)
LEMMA RunStepsTyped ==
    ASSUME TypeOK, NEW h \in Handlers,
           \/ AdmitRun(h) \/ BuildFails(h) \/ RefuseRun(h)
           \/ Poll(h) \/ BeginTask(h) \/ EndWork(h)
           \/ Record(h) \/ Unwind(h) \/ NoteRun(h) \/ CompleteRun(h)
    PROVE  TypeOK'
<1>0. /\ serving[h] \in Held /\ project \in Projects
      /\ active \in [Procs -> Runs \cup {NoRun}]
      /\ Own(h) \in Procs
  BY DEF TypeOK, Own
<1>1. CASE AdmitRun(h)
  <2>1. PICK r \in Runs \ Existing :
          /\ runs' = [runs EXCEPT ![r] = Opened]
          /\ active' = [active EXCEPT ![Own(h)] = r]
          /\ Hold(h, [serving[h] EXCEPT !.pc = "work", !.rid = r])
    BY <1>1 DEF AdmitRun
  <2>2. runs' \in [Runs -> Files]
    BY <2>1 DEF TypeOK, Opened, Absent, Files
  <2>3. active' \in [Procs -> Runs \cup {NoRun}]
    BY <2>1, <1>0
  <2>4. [serving[h] EXCEPT !.pc = "work", !.rid = r] \in Held
    BY <1>0 DEF Held, Points
  <2> QED
    BY <1>1, <2>1, <2>2, <2>3, <2>4, HoldTyped DEF AdmitRun, TypeOK
<1>2. CASE BuildFails(h)
  BY <1>2, ReturnTyped DEF BuildFails, TypeOK
<1>3. CASE RefuseRun(h)
  BY <1>3, GotoTyped DEF RefuseRun, TypeOK, Points
<1>4. CASE BeginTask(h)
  <2>1. worked' \in [Runs -> 0 .. Tasks]
    <3>1. worked \in [Runs -> 0 .. Tasks]
      BY DEF TypeOK
    <3>2. worked' = [worked EXCEPT ![serving[h].rid] =
                       worked[serving[h].rid] + 1]
      BY <1>4 DEF BeginTask
    <3>3. worked[serving[h].rid] < Tasks
      BY <1>4 DEF BeginTask, Unfinished
    <3>4. ASSUME NEW r \in Runs
          PROVE  worked'[r] \in 0 .. Tasks
      <4>1. worked[r] \in Nat /\ worked[r] <= Tasks
        BY <3>1
      <4>2. worked'[r] = worked[r]
            \/ (worked'[r] = worked[r] + 1 /\ worked[r] < Tasks)
        BY <3>1, <3>2, <3>3
      <4> QED
        BY <4>1, <4>2
    <3>5. worked' = [r \in Runs |-> worked'[r]]
      BY <3>1, <3>2
    <3> QED
      BY <3>4, <3>5
  <2>2. serving' \in [Handlers -> Held]
    BY <1>0, <1>4, GotoTyped DEF BeginTask, TypeOK, Points
  <2> QED
    BY <1>4, <2>1, <2>2 DEF BeginTask, TypeOK
<1>10. CASE Poll(h)
  BY <1>10, GotoTyped DEF Poll, TypeOK, Points
<1>5. CASE EndWork(h)
  <2>1. PICK pc \in {"record", "raise"}, status \in RunEnd,
             flag \in BOOLEAN, failed \in BOOLEAN :
          Hold(h, [serving[h] EXCEPT !.pc = pc,
                     !.file = [status |-> status, flag |-> flag,
                               failed |-> failed]])
    BY <1>5 DEF EndWork, RunEnd
  <2>2. [status |-> status, flag |-> flag, failed |-> failed] \in Files
    BY DEF Files
  <2>3. [serving[h] EXCEPT !.pc = pc,
           !.file = [status |-> status, flag |-> flag, failed |-> failed]]
        \in Held
    BY <1>0, <2>2 DEF Held, Points
  <2> QED
    BY <1>5, <2>1, <2>3, HoldTyped DEF EndWork, TypeOK
<1>6. CASE Record(h)
  <2>1. serving' \in [Handlers -> Held]
    BY <1>6, GotoTyped DEF Record, Points
  <2>2. runs' \in [Runs -> Files]
    BY <1>0, <1>6, OverwrittenTyped DEF Record, Held
  <2> QED
    BY <1>6, <2>1, <2>2 DEF Record, TypeOK
<1>7. CASE Unwind(h)
  <2> DEFINE r == active[Own(h)]
             held == [serving[h] EXCEPT !.pc = "transit", !.goal = "FAILED"]
  <2>1. held \in Held
    BY <1>0, StatusNames DEF Held, Points
  <2>2. project' \in Projects
    BY <1>0, <1>7 DEF Unwind, Held, Projects
  <2>3. active' \in [Procs -> Runs \cup {NoRun}]
    BY <1>0, <1>7 DEF Unwind
  <2>4. serving' \in [Handlers -> Held]
    BY <1>7, <2>1, HoldTyped, ReturnTyped DEF Unwind
  <2> QED
    BY <1>7, <2>2, <2>3, <2>4 DEF Unwind, TypeOK
<1>8. CASE NoteRun(h)
  <2>1. project' \in Projects
    BY <1>0, <1>8 DEF NoteRun, Held, Projects
  <2> QED
    BY <1>8, <2>1, GotoTyped DEF NoteRun, TypeOK, Points
<1>9. CASE CompleteRun(h)
  <2> DEFINE verdict == Verdict(serving[h].rid, serving[h].file.status)
             goal == IF verdict \in {"COMPLETED", "FAILED"}
                     THEN verdict ELSE "BLOCKED"
             held == [serving[h] EXCEPT !.pc = "transit", !.goal = goal]
  <2>1. verdict \in RunEnd \cup {"ABSENT", "RUNNING"}
    BY <1>0 DEF Verdict, Held, Files
  <2>2. goal \in ProjectStatus
    BY StatusNames
  <2>3. held \in Held
    BY <1>0, <2>2 DEF Held, Points
  <2>4. runs' \in [Runs -> Files]
    <3>1. runs' = [runs EXCEPT ![serving[h].rid].status = verdict]
      BY <1>9 DEF CompleteRun
    <3>2. runs \in [Runs -> Files]
      BY DEF TypeOK
    <3> QED
      BY <2>1, <3>1, <3>2 DEF Files
  <2>5. active' \in [Procs -> Runs \cup {NoRun}]
    BY <1>9, ForgetTyped DEF CompleteRun
  <2>6. serving' \in [Handlers -> Held]
    BY <1>9, <2>3, HoldTyped DEF CompleteRun
  <2> QED
    BY <1>9, <2>4, <2>5, <2>6 DEF CompleteRun, TypeOK
<1> QED
  BY <1>1, <1>2, <1>3, <1>4, <1>5, <1>6, <1>7, <1>8, <1>9, <1>10

LEMMA CancelAndReplanStepsTyped ==
    ASSUME TypeOK, NEW h \in Handlers, HandlerOK(h),
           \/ CancelLoad(h) \/ CancelSave(h)
           \/ ProposeLoad(h) \/ ProposeSave(h) \/ DecideSave(h)
           \/ ApplyLoad(h) \/ ApplySave(h) \/ ApplyProject(h)
    PROVE  TypeOK'
<1>0. /\ serving[h] \in Held
      /\ runs \in [Runs -> Files]
      /\ proposal \in [Runs -> ProposalStatus]
  BY DEF TypeOK
<1>1. [serving[h].file EXCEPT !.status = "BLOCKED"] \in Files
  BY <1>0 DEF Held, Files, RunEnd
<1>2. serving[h].pc \in {"cancelLoad", "proposeLoad"} =>
        runs[serving[h].rid] \in Files
  BY <1>0 DEF HandlerOK, OnRun, Existing
<1>3. CASE CancelLoad(h)
  <2>1. [serving[h] EXCEPT !.pc = "cancelSave",
                           !.file = runs[serving[h].rid]] \in Held
    BY <1>0, <1>2, <1>3 DEF CancelLoad, At, Held, Points
  <2> QED
    BY <1>3, <2>1, HoldTyped DEF CancelLoad, TypeOK
<1>4. CASE CancelSave(h)
  <2>1. runs' \in [Runs -> Files]
    BY <1>1, <1>4, OverwrittenTyped DEF CancelSave
  <2>2. active' \in [Procs -> Runs \cup {NoRun}]
    BY <1>4, ForgetTyped DEF CancelSave
  <2> QED
    BY <1>4, <2>1, <2>2, ReturnTyped DEF CancelSave, TypeOK
<1>5. CASE ProposeLoad(h)
  <2>1. [serving[h] EXCEPT !.pc = "proposeSave",
                           !.file = runs[serving[h].rid]] \in Held
    BY <1>0, <1>2, <1>5 DEF ProposeLoad, At, Held, Points
  <2>2. serving' \in [Handlers -> Held]
    BY <1>5, <2>1, HoldTyped, ReturnTyped DEF ProposeLoad
  <2>3. proposal' \in [Runs -> ProposalStatus]
    BY <1>0, <1>5 DEF ProposeLoad, ProposalStatus
  <2> QED
    BY <1>5, <2>2, <2>3 DEF ProposeLoad, TypeOK
<1>6. CASE ProposeSave(h)
  BY <1>1, <1>6, OverwrittenTyped, ReturnTyped DEF ProposeSave, TypeOK
<1>7. CASE DecideSave(h)
  <2>1. proposal' \in [Runs -> ProposalStatus]
    BY <1>0, <1>7 DEF DecideSave, ProposalStatus
  <2> QED
    BY <1>7, <2>1, ReturnTyped DEF DecideSave, TypeOK
<1>8. CASE ApplyLoad(h)
  BY <1>8, GotoTyped, ReturnTyped DEF ApplyLoad, TypeOK, Points
<1>9. CASE ApplySave(h)
  <2>1. proposal' \in [Runs -> ProposalStatus]
    BY <1>0, <1>9 DEF ApplySave, ProposalStatus
  <2> QED
    BY <1>9, <2>1, GotoTyped DEF ApplySave, TypeOK, Points
<1>10. CASE ApplyProject(h)
  <2>1. project' \in Projects
    BY <1>0, <1>10 DEF ApplyProject, Held, Projects
  <2> QED
    BY <1>10, <2>1, ReturnTyped DEF ApplyProject, TypeOK
<1> QED
  BY <1>3, <1>4, <1>5, <1>6, <1>7, <1>8, <1>9, <1>10

LEMMA CrashTyped ==
    ASSUME TypeOK, NEW p \in Procs, Crash(p)
    PROVE  TypeOK'
<1>1. serving' \in [Handlers -> Held]
  BY IdleTyped DEF Crash, TypeOK
<1>2. /\ active' \in [Procs -> Runs \cup {NoRun}]
      /\ cancels' \in [Procs -> SUBSET Runs]
  BY DEF Crash, TypeOK
<1>3. crashes' \in 0 .. MaxCrashes
  BY DEF Crash, TypeOK
<1> QED
  BY <1>1, <1>2, <1>3 DEF Crash, TypeOK

-----------------------------------------------------------------------------
(* The plan gate *)

(* A step of one handler keeps what the others rely on, if it withdraws no *)
(* approval, removes no run and reopens none.                              *)
LEMMA OneHandlerMoves ==
    ASSUME RunsInv, TypeOK', NEW h \in Handlers,
           \A g \in Handlers \ {h} : serving'[g] = serving[g],
           approved => approved',
           RunsKept,
           ProjectOK', HandlerOK(h)'
    PROVE  RunsInv'
<1>1. ASSUME NEW g \in Handlers, g # h
      PROVE  HandlerOK(g)'
  <2>1. HandlerOK(g) /\ serving'[g] = serving[g]
    BY <1>1 DEF RunsInv
  <2>2. \A r \in Existing : r \in Existing'
    BY DEF Existing, RunsKept
  <2>3. serving[g].pc \in {"note", "complete", "proposeSave"} =>
          serving[g].rid \in Runs
    BY <2>1 DEF HandlerOK, OnRun, Existing
  <2> QED
    BY <2>1, <2>2, <2>3 DEF HandlerOK, RunsKept
<1> QED
  BY <1>1 DEF RunsInv

LEMMA HoldEffect ==
    ASSUME TypeOK, NEW h \in Handlers, NEW held, Hold(h, held)
    PROVE  /\ serving'[h] = held
           /\ \A g \in Handlers \ {h} : serving'[g] = serving[g]
BY DEF TypeOK, Hold

LEMMA GotoEffect ==
    ASSUME TypeOK, NEW h \in Handlers, NEW pc, Goto(h, pc)
    PROVE  /\ serving'[h] = [serving[h] EXCEPT !.pc = pc]
           /\ \A g \in Handlers \ {h} : serving'[g] = serving[g]
BY DEF TypeOK, Goto

LEMMA UnchangedRunsKept ==
    ASSUME UNCHANGED runs
    PROVE  RunsKept /\ Existing' = Existing
BY DEF RunsKept, Existing

(* A whole-file write of an ended run over an existing one. *)
LEMMA OverwrittenEffect ==
    ASSUME TypeOK, NEW r \in Existing, NEW file \in Files,
           file.status \in RunEnd, runs' = Overwritten(r, file)
    PROVE  RunsKept /\ Existing' = Existing /\ runs'[r].status \in RunEnd
<1>1. \A q \in Runs : runs'[q].status = IF q = r THEN file.status
                                        ELSE runs[q].status
  BY DEF TypeOK, Overwritten, Files
<1> QED
  BY <1>1 DEF RunsKept, Existing, RunEnd

(* A handler that returns relies on nothing. *)
LEMMA IdleOK ==
    ASSUME NEW h \in Handlers, serving'[h] = Idle
    PROVE  HandlerOK(h)'
BY DEF HandlerOK, Idle, NewProject, Beyond, OnRun

LEMMA RequestKeepsInv ==
    ASSUME RunsInv, NEW h \in Handlers, Request(h)
    PROVE  RunsInv'
<1>1. TypeOK'
  BY RequestTyped DEF RunsInv
<1>2. UNCHANGED <<project, runs, approved>>
  BY DEF Request, Plan, ApprovePlan, RequestTransition, ExecuteReady,
         ResumeApplied, RequestCancel, Propose, Decide, ApplyReplan
<1>3. RunsKept /\ ProjectOK' /\ Existing' = Existing
  BY <1>2, UnchangedRunsKept DEF RunsInv, ProjectOK, RunsFollowApproval
<1>4. ASSUME NEW call, NEW pc \in Points, NEW goal, Enter(h, call, pc, goal),
             pc \notin OnRun \cup {"start", "transitSave"},
             goal = "READY" => call = "approve"
      PROVE  RunsInv'
  <2>1. Hold(h, [Idle EXCEPT !.call = call, !.pc = pc, !.goal = goal])
    BY <1>4 DEF Enter
  <2>3. /\ serving'[h].proj.status = "CREATED" /\ serving'[h].pc = pc
        /\ serving'[h].goal = goal /\ serving'[h].call = call
    <3>1. serving'[h] = [Idle EXCEPT !.call = call, !.pc = pc, !.goal = goal]
      BY <2>1, HoldEffect DEF RunsInv
    <3> QED
      BY <3>1 DEF Idle, NewProject
  <2>2. HandlerOK(h)'
    BY <1>4, <2>3 DEF HandlerOK, Beyond, OnRun
  <2> QED
    BY <1>1, <1>2, <1>3, <2>1, <2>2, HoldEffect, OneHandlerMoves DEF RunsInv
<1>5. ASSUME NEW call, NEW pc \in {"cancelLoad", "proposeLoad", "decideSave"},
             NEW r \in Runs, EnterOn(h, call, pc, r),
             pc # "decideSave" => r \in Existing
      PROVE  RunsInv'
  <2>1. Hold(h, [Idle EXCEPT !.call = call, !.pc = pc, !.rid = r])
    BY <1>5 DEF EnterOn
  <2>3. /\ serving'[h].proj.status = "CREATED" /\ serving'[h].pc = pc
        /\ serving'[h].goal = "CREATED" /\ serving'[h].rid = r
    <3>1. serving'[h] = [Idle EXCEPT !.call = call, !.pc = pc, !.rid = r]
      BY <2>1, HoldEffect DEF RunsInv
    <3> QED
      BY <3>1 DEF Idle, NewProject
  <2>2. HandlerOK(h)'
    BY <1>3, <1>5, <2>3 DEF HandlerOK, Beyond, OnRun
  <2> QED
    BY <1>1, <1>2, <1>3, <2>1, <2>2, HoldEffect, OneHandlerMoves DEF RunsInv
<1>6. CASE \/ Plan(h) \/ ApprovePlan(h) \/ RequestTransition(h)
           \/ ExecuteReady(h) \/ ResumeApplied(h)
  BY <1>4, <1>6 DEF Plan, ApprovePlan, RequestTransition, ExecuteReady,
                    ResumeApplied, GateTargets, Points, OnRun
<1>7. CASE RequestCancel(h) \/ Propose(h) \/ Decide(h)
  BY <1>5, <1>7 DEF RequestCancel, Propose, Decide, Existing
<1>8. CASE ApplyReplan(h)
  <2>1. PICK r \in Existing :
          Hold(h, [Idle EXCEPT !.call = "apply", !.pc = "applyLoad",
                               !.rid = r, !.proj = project])
    BY <1>8 DEF ApplyReplan
  <2>3. /\ serving'[h].proj = project /\ serving'[h].pc = "applyLoad"
        /\ serving'[h].goal = "CREATED"
    <3>1. serving'[h] = [Idle EXCEPT !.call = "apply", !.pc = "applyLoad",
                                     !.rid = r, !.proj = project]
      BY <2>1, HoldEffect DEF RunsInv
    <3> QED
      BY <3>1 DEF Idle
  <2>2. HandlerOK(h)'
    BY <1>2, <2>3 DEF RunsInv, ProjectOK, HandlerOK, OnRun
  <2> QED
    BY <1>1, <1>2, <1>3, <2>1, <2>2, HoldEffect, OneHandlerMoves DEF RunsInv
<1> QED
  BY <1>6, <1>7, <1>8 DEF Request

LEMMA ProjectStepsKeepInv ==
    ASSUME RunsInv, NEW h \in Handlers,
           \/ TransitLoad(h) \/ TransitSave(h)
           \/ Draft(h) \/ RefLoad(h) \/ RefSave(h)
    PROVE  RunsInv'
<1>1. TypeOK'
  BY ProjectStepsTyped DEF RunsInv
<1>2. UNCHANGED runs
  BY DEF TransitLoad, TransitSave, Draft, RefLoad, RefSave
<1>3. RunsKept /\ Existing' = Existing
  BY <1>2, UnchangedRunsKept
<1>4. TypeOK /\ ProjectOK /\ HandlerOK(h) /\ serving[h] \in Held
  BY DEF RunsInv, TypeOK
<1>5. SUFFICES /\ \A g \in Handlers \ {h} : serving'[g] = serving[g]
               /\ approved => approved'
               /\ ProjectOK' /\ HandlerOK(h)'
  BY <1>1, <1>3, OneHandlerMoves
<1>6. CASE TransitLoad(h)
  <2>1. /\ project' = project /\ approved' = approved
        /\ \/ /\ project.status \in ProjectStatus
              /\ serving[h].goal \in Transitions[project.status]
              /\ Hold(h, [serving[h] EXCEPT !.pc = "transitSave",
                                            !.proj = project])
           \/ Hold(h, Idle)
    BY <1>4, <1>6 DEF TransitLoad, CanTransition, Return, TypeOK, Projects
  <2>3. \/ serving'[h] = Idle
        \/ /\ serving'[h].proj = project /\ serving'[h].pc = "transitSave"
           /\ serving'[h].goal = serving[h].goal
           /\ serving'[h].call = serving[h].call
           /\ serving[h].goal \in Transitions[project.status]
    <3>1. \/ serving'[h] = Idle
          \/ /\ serving'[h] = [serving[h] EXCEPT !.pc = "transitSave",
                                                 !.proj = project]
             /\ serving[h].goal \in Transitions[project.status]
      BY <1>4, <2>1, HoldEffect
    <3> QED
      BY <1>4, <3>1 DEF Held
  <2>2. HandlerOK(h)'
    BY <1>4, <2>1, <2>3, IdleOK DEF HandlerOK, ProjectOK, OnRun
  <2> QED
    BY <1>3, <1>4, <2>1, <2>2, HoldEffect DEF ProjectOK, RunsFollowApproval
<1>7. CASE TransitSave(h)
  <2> DEFINE from == serving[h].proj.status
             goal == serving[h].goal
             next == Resumption(serving[h].call, goal)
             moved == [serving[h].proj EXCEPT !.status = goal]
  <2>1. /\ project' = moved
        /\ approved' = (approved \/ serving[h].call = "approve")
        /\ \/ next # "idle" /\ Hold(h, [serving[h] EXCEPT !.pc = next,
                                                          !.proj = moved])
           \/ Hold(h, Idle)
    BY <1>7 DEF TransitSave, Return
  <2>2. moved.status = goal /\ from \in ProjectStatus
    BY <1>4 DEF Held, Projects
  <2>3. goal \in Transitions[from]
    BY <1>4, <1>7 DEF HandlerOK, TransitSave, At
  <2>4. goal \in Beyond => approved'
    <3>1. CASE goal = "READY"
      BY <1>4, <2>1, <3>1 DEF HandlerOK
    <3>2. CASE goal \in Beyond \ {"READY"}
      <4>1. from \in Beyond
        BY <2>2, <2>3, <3>2, StatusNames DEF Transitions, Beyond
      <4> QED
        BY <1>4, <2>1, <4>1 DEF HandlerOK
    <3> QED
      BY <3>1, <3>2
  <2>5. next \in {"draft", "idle"} \/ (next = "start" /\ goal = "EXECUTING")
    BY DEF Resumption
  <2>6. HandlerOK(h)'
    <3>1. CASE next # "idle" /\ serving'[h] = [serving[h] EXCEPT !.pc = next,
                                                                 !.proj = moved]
      <4>1. /\ serving'[h].proj = moved /\ serving'[h].pc = next
            /\ serving'[h].goal = goal /\ serving'[h].call = serving[h].call
        BY <1>4, <3>1 DEF Held
      <4>2. next \in {"draft", "start"} /\ (next = "start" => approved')
        BY <2>4, <2>5, <3>1 DEF Beyond
      <4> QED
        BY <1>4, <2>2, <2>4, <4>1, <4>2 DEF HandlerOK, OnRun
    <3> QED
      BY <1>4, <2>1, <3>1, HoldEffect, IdleOK
  <2>7. ProjectOK'
    BY <1>3, <1>4, <2>1, <2>2, <2>4 DEF ProjectOK, RunsFollowApproval
  <2>8. \A g \in Handlers \ {h} : serving'[g] = serving[g]
    BY <1>4, <2>1, HoldEffect
  <2> QED
    BY <2>1, <2>6, <2>7, <2>8
<1>8. CASE Draft(h)
  <2> DEFINE n == IF serving[h].goal = "ANALYZING" THEN 1 ELSE 2
  <2>1. /\ project' = project /\ approved' = approved
        /\ \/ Hold(h, [serving[h] EXCEPT !.pc = "refLoad", !.refs = n])
           \/ Hold(h, Idle)
    BY <1>8 DEF Draft, Return
  <2>3. \/ serving'[h] = Idle
        \/ /\ serving'[h].proj = serving[h].proj
           /\ serving'[h].pc = "refLoad"
           /\ serving'[h].goal = serving[h].goal
           /\ serving'[h].call = serving[h].call
    <3> HIDE DEF n
    <3>1. \/ serving'[h] = Idle
          \/ serving'[h] = [serving[h] EXCEPT !.pc = "refLoad", !.refs = n]
      BY <1>4, <2>1, HoldEffect
    <3> QED
      BY <1>4, <3>1 DEF Held
  <2>2. HandlerOK(h)'
    BY <1>4, <2>1, <2>3, IdleOK DEF HandlerOK, OnRun
  <2> QED
    BY <1>3, <1>4, <2>1, <2>2, HoldEffect DEF ProjectOK, RunsFollowApproval
<1>9. CASE RefLoad(h)
  <2>1. /\ project' = project /\ approved' = approved
        /\ Hold(h, [serving[h] EXCEPT !.pc = "refSave", !.proj = project])
    BY <1>9 DEF RefLoad
  <2>3. /\ serving'[h].proj = project /\ serving'[h].pc = "refSave"
        /\ serving'[h].goal = serving[h].goal
        /\ serving'[h].call = serving[h].call
    <3>1. serving'[h] = [serving[h] EXCEPT !.pc = "refSave", !.proj = project]
      BY <1>4, <2>1, HoldEffect
    <3> QED
      BY <1>4, <3>1 DEF Held
  <2>2. HandlerOK(h)'
    BY <1>4, <2>1, <2>3 DEF HandlerOK, ProjectOK, OnRun
  <2> QED
    BY <1>3, <1>4, <2>1, <2>2, HoldEffect DEF ProjectOK, RunsFollowApproval
<1>10. CASE RefSave(h)
  <2>1. /\ project'.status = serving[h].proj.status /\ approved' = approved
        /\ \/ Hold(h, [serving[h] EXCEPT !.pc = "refLoad", !.refs = 1])
           \/ Hold(h, [serving[h] EXCEPT !.pc = "transit", !.refs = 0,
                                         !.goal = "PLANNING"])
           \/ Hold(h, Idle)
    BY <1>4, <1>10 DEF RefSave, Return, Held, Projects
  <2>4. \/ serving'[h] = Idle
        \/ /\ serving'[h].proj = serving[h].proj
           /\ serving'[h].pc \in {"refLoad", "transit"}
           /\ \/ serving'[h].goal = "PLANNING"
              \/ /\ serving'[h].goal = serving[h].goal
                 /\ serving'[h].call = serving[h].call
    <3>1. \/ serving'[h] = Idle
          \/ serving'[h] = [serving[h] EXCEPT !.pc = "refLoad", !.refs = 1]
          \/ serving'[h] = [serving[h] EXCEPT !.pc = "transit", !.refs = 0,
                                              !.goal = "PLANNING"]
      BY <1>4, <2>1, HoldEffect
    <3> QED
      BY <1>4, <3>1 DEF Held
  <2>2. HandlerOK(h)'
    BY <1>4, <2>1, <2>4, IdleOK DEF HandlerOK, OnRun
  <2>3. ProjectOK'
    BY <1>3, <1>4, <2>1 DEF ProjectOK, RunsFollowApproval, HandlerOK
  <2> QED
    BY <1>4, <2>1, <2>2, <2>3, HoldEffect
<1> QED
  BY <1>6, <1>7, <1>8, <1>9, <1>10

(* What the steps that write a run's file do to the runs. *)
LEMMA RunWrites ==
    ASSUME RunsInv, NEW h \in Handlers,
           \/ AdmitRun(h) \/ Record(h) \/ CompleteRun(h)
           \/ CancelSave(h) \/ ProposeSave(h)
    PROVE  /\ RunsKept
           /\ Record(h) => runs'[serving[h].rid].status \in RunEnd
<1>0. TypeOK /\ HandlerOK(h) /\ serving[h] \in Held /\ runs \in [Runs -> Files]
  BY DEF RunsInv, TypeOK
<1>1. CASE AdmitRun(h)
  <2>1. PICK r \in Runs \ Existing : runs' = [runs EXCEPT ![r] = Opened]
    BY <1>1 DEF AdmitRun
  <2>2. /\ runs[r].status = "ABSENT" /\ Opened.status = "RUNNING"
        /\ \A q \in Runs : runs'[q] = IF q = r THEN Opened ELSE runs[q]
    BY <1>0, <2>1 DEF Existing, Opened, Absent
  <2>3. RunsKept
    BY <2>2 DEF RunsKept, Existing, RunEnd
  <2>4. ~Record(h)
    BY <1>1 DEF AdmitRun, Record, At
  <2> QED
    BY <2>3, <2>4
<1>2. CASE Record(h)
  <2>1. /\ serving[h].rid \in Existing
        /\ serving[h].file \in Files /\ serving[h].file.status \in RunEnd
        /\ runs' = Overwritten(serving[h].rid, serving[h].file)
    BY <1>0, <1>2 DEF Record, At, HandlerOK, OnRun, Held
  <2> QED
    BY <1>0, <2>1, OverwrittenEffect
<1>3. CASE CompleteRun(h)
  <2>1. /\ serving[h].rid \in Existing
        /\ runs[serving[h].rid].status \in RunEnd
    BY <1>0, <1>3 DEF CompleteRun, At, HandlerOK, OnRun
  <2>2. runs' = [runs EXCEPT ![serving[h].rid].status =
                   runs[serving[h].rid].status]
    BY <1>3, <2>1 DEF CompleteRun, Verdict
  <2>3. \A q \in Runs : runs'[q].status = runs[q].status
    BY <1>0, <2>2 DEF Files
  <2>4. ~Record(h)
    BY <1>3 DEF CompleteRun, Record, At
  <2> QED
    BY <2>3, <2>4 DEF RunsKept, Existing
<1>4. CASE CancelSave(h) \/ ProposeSave(h)
  <2> DEFINE file == [serving[h].file EXCEPT !.status = "BLOCKED"]
  <2>1. file \in Files /\ file.status \in RunEnd
    BY <1>0 DEF Held, Files, RunEnd
  <2>2. serving[h].rid \in Existing /\ runs' = Overwritten(serving[h].rid, file)
    BY <1>0, <1>4 DEF CancelSave, ProposeSave, At, HandlerOK, OnRun
  <2>3. ~Record(h)
    BY <1>4 DEF CancelSave, ProposeSave, Record, At
  <2> QED
    BY <1>0, <2>1, <2>2, <2>3, OverwrittenEffect
<1> QED
  BY <1>1, <1>2, <1>3, <1>4

LEMMA RunStepsKeepInv ==
    ASSUME RunsInv, NEW h \in Handlers,
           \/ AdmitRun(h) \/ BuildFails(h) \/ RefuseRun(h)
           \/ Poll(h) \/ BeginTask(h) \/ EndWork(h)
           \/ Record(h) \/ Unwind(h) \/ NoteRun(h) \/ CompleteRun(h)
    PROVE  RunsInv' /\ RunsKept
<1>0. TypeOK /\ ProjectOK /\ HandlerOK(h) /\ serving[h] \in Held
  BY DEF RunsInv, TypeOK
<1>1. TypeOK'
  BY <1>0, RunStepsTyped
<1>2. RunsKept
  <2>1. CASE AdmitRun(h) \/ Record(h) \/ CompleteRun(h)
    BY <2>1, RunWrites
  <2>2. CASE \/ BuildFails(h) \/ RefuseRun(h) \/ Poll(h) \/ BeginTask(h)
             \/ EndWork(h) \/ Unwind(h) \/ NoteRun(h)
    <3>1. UNCHANGED runs
      BY <2>2 DEF BuildFails, RefuseRun, Poll, BeginTask, EndWork, Unwind, NoteRun
    <3> QED
      BY <3>1, UnchangedRunsKept
  <2> QED
    BY <2>1, <2>2
<1>3. UNCHANGED approved
  BY DEF AdmitRun, BuildFails, RefuseRun, Poll, BeginTask, EndWork, Record, Unwind,
         NoteRun, CompleteRun
<1>4. \A r \in Existing : r \in Existing'
  BY <1>2 DEF RunsKept, Existing
<1>5. ProjectOK'
  <2>1. project' = project \/ project'.status = serving[h].proj.status
    BY <1>0 DEF AdmitRun, BuildFails, RefuseRun, Poll, BeginTask, EndWork, Record, Unwind,
                NoteRun, CompleteRun, Held, Projects
  <2>2. project'.status \in Beyond => approved
    BY <1>0, <2>1 DEF ProjectOK, HandlerOK
  <2>3. Existing' # {} => approved
    <3>1. CASE AdmitRun(h)
      BY <1>0, <3>1 DEF AdmitRun, At, HandlerOK
    <3>2. CASE ~AdmitRun(h)
      <4>1. Existing' = Existing
        <5>1. CASE Record(h)
          BY <1>0, <5>1, OverwrittenEffect
             DEF Record, At, HandlerOK, OnRun, Held
        <5>2. CASE CompleteRun(h)
          <6>1. /\ serving[h].rid \in Existing
                /\ runs[serving[h].rid].status \in RunEnd
            BY <1>0, <5>2 DEF CompleteRun, At, HandlerOK, OnRun
          <6>2. runs' = [runs EXCEPT ![serving[h].rid].status =
                           runs[serving[h].rid].status]
            BY <5>2, <6>1 DEF CompleteRun, Verdict
          <6>3. \A q \in Runs : runs'[q].status = runs[q].status
            BY <1>0, <6>2 DEF Files, TypeOK
          <6> QED
            BY <6>3 DEF Existing
        <5>3. CASE UNCHANGED runs
          BY <5>3, UnchangedRunsKept
        <5> QED
          BY <3>2, <5>1, <5>2, <5>3
             DEF BuildFails, RefuseRun, Poll, BeginTask, EndWork, Unwind, NoteRun
      <4> QED
        BY <1>0, <4>1 DEF ProjectOK, RunsFollowApproval
    <3> QED
      BY <3>1, <3>2
  <2> QED
    BY <1>3, <2>2, <2>3 DEF ProjectOK, RunsFollowApproval
<1>6. SUFFICES /\ \A g \in Handlers \ {h} : serving'[g] = serving[g]
               /\ HandlerOK(h)'
  BY <1>1, <1>2, <1>3, <1>5, OneHandlerMoves
<1>7. CASE AdmitRun(h)
  <2>1. PICK r \in Runs \ Existing :
          /\ runs' = [runs EXCEPT ![r] = Opened]
          /\ Hold(h, [serving[h] EXCEPT !.pc = "work", !.rid = r])
    BY <1>7 DEF AdmitRun
  <2>2. r \in Existing'
    BY <1>0, <2>1 DEF Existing, Opened, Absent, TypeOK
  <2>3. serving'[h] = [serving[h] EXCEPT !.pc = "work", !.rid = r]
    BY <1>0, <2>1, HoldEffect
  <2>4. /\ serving'[h].pc = "work" /\ serving'[h].rid = r
        /\ serving'[h].proj = serving[h].proj
        /\ serving'[h].goal = serving[h].goal
        /\ serving'[h].call = serving[h].call
    BY <1>0, <2>3 DEF Held
  <2>5. HandlerOK(h)'
    BY <1>0, <1>3, <2>2, <2>4 DEF HandlerOK
  <2> QED
    BY <1>0, <2>1, <2>5, HoldEffect
<1>8. CASE BuildFails(h)
  BY <1>0, <1>8, HoldEffect, IdleOK DEF BuildFails, Return
<1>9. CASE Poll(h) \/ BeginTask(h)
  <2>1. serving[h].pc \in {"work", "begin"}
    BY <1>9 DEF Poll, BeginTask, At
  <2>2. UNCHANGED serving \/ \E pc \in {"work", "begin"} : Goto(h, pc)
    BY <1>9 DEF Poll, BeginTask
  <2>3. CASE UNCHANGED serving
    BY <1>0, <1>3, <1>4, <2>1, <2>3 DEF HandlerOK
  <2>4. CASE \E pc \in {"work", "begin"} : Goto(h, pc)
    <3>1. PICK pc \in {"work", "begin"} : Goto(h, pc)
      BY <2>4
    <3>2. serving'[h] = [serving[h] EXCEPT !.pc = pc]
      BY <1>0, <3>1, GotoEffect
    <3>3. /\ serving'[h].pc = pc /\ serving'[h].rid = serving[h].rid
          /\ serving'[h].proj = serving[h].proj
          /\ serving'[h].goal = serving[h].goal
          /\ serving'[h].call = serving[h].call
      BY <1>0, <3>2 DEF Held
    <3>4. HandlerOK(h)'
      BY <1>0, <1>3, <1>4, <2>1, <3>3 DEF HandlerOK, OnRun
    <3> QED
      BY <1>0, <3>1, <3>4, GotoEffect
  <2> QED
    BY <2>2, <2>3, <2>4
<1>10. CASE RefuseRun(h) \/ Record(h) \/ NoteRun(h)
  <2>1. PICK pc \in {"unwind", "note", "complete"} :
          /\ Goto(h, pc)
          /\ \/ pc = "unwind"
             \/ pc = "note" /\ At(h, "record") /\ Record(h)
             \/ pc = "complete" /\ At(h, "note")
    BY <1>10 DEF RefuseRun, Record, NoteRun
  <2>2. serving'[h] = [serving[h] EXCEPT !.pc = pc]
    BY <1>0, <2>1, GotoEffect
  <2>3. /\ serving'[h].pc = pc /\ serving'[h].rid = serving[h].rid
        /\ serving'[h].proj = serving[h].proj
        /\ serving'[h].goal = serving[h].goal
        /\ serving'[h].call = serving[h].call
    BY <1>0, <2>2 DEF Held
  <2>4. pc # "unwind" => serving[h].rid \in Existing
                         /\ runs'[serving[h].rid].status \in RunEnd
    <3>1. CASE pc = "note"
      BY <1>0, <2>1, <3>1, RunWrites DEF At, HandlerOK, OnRun
    <3>2. CASE pc = "complete"
      <4>1. /\ serving[h].rid \in Existing
            /\ runs[serving[h].rid].status \in RunEnd
        BY <1>0, <2>1, <3>2 DEF At, HandlerOK, OnRun
      <4> QED
        BY <1>2, <4>1 DEF RunsKept, Existing
    <3> QED
      BY <2>1, <3>1, <3>2
  <2>5. HandlerOK(h)'
    BY <1>0, <1>3, <1>4, <2>3, <2>4 DEF HandlerOK, OnRun
  <2> QED
    BY <1>0, <2>1, <2>5, GotoEffect
<1>11. CASE EndWork(h)
  <2>1. PICK pc \in {"record", "raise"}, file \in [status : RunEnd,
                                            flag : BOOLEAN, failed : BOOLEAN] :
          Hold(h, [serving[h] EXCEPT !.pc = pc, !.file = file])
    BY <1>11 DEF EndWork, RunEnd
  <2>2. serving'[h] = [serving[h] EXCEPT !.pc = pc, !.file = file]
    BY <1>0, <2>1, HoldEffect
  <2>3. /\ serving'[h].pc = pc /\ serving'[h].rid = serving[h].rid
        /\ serving'[h].proj = serving[h].proj
        /\ serving'[h].goal = serving[h].goal
        /\ serving'[h].call = serving[h].call
        /\ serving'[h].file = file /\ file.status \in RunEnd
    BY <1>0, <2>2 DEF Held
  <2>4. serving[h].rid \in Existing
    BY <1>0, <1>11 DEF EndWork, At, HandlerOK, OnRun
  <2>5. HandlerOK(h)'
    BY <1>0, <1>3, <1>4, <2>3, <2>4 DEF HandlerOK, OnRun
  <2> QED
    BY <1>0, <2>1, <2>5, HoldEffect
<1>12. CASE Unwind(h) \/ CompleteRun(h)
  <2>1. \/ Hold(h, Idle)
        \/ \E goal \in {"COMPLETED", "FAILED", "BLOCKED"} :
             Hold(h, [serving[h] EXCEPT !.pc = "transit", !.goal = goal])
    BY <1>12 DEF Unwind, CompleteRun, Return
  <2>2. CASE Hold(h, Idle)
    BY <1>0, <2>2, HoldEffect, IdleOK
  <2>3. ASSUME NEW goal \in {"COMPLETED", "FAILED", "BLOCKED"},
               Hold(h, [serving[h] EXCEPT !.pc = "transit", !.goal = goal])
        PROVE  /\ \A g \in Handlers \ {h} : serving'[g] = serving[g]
               /\ HandlerOK(h)'
    <3>1. serving'[h] = [serving[h] EXCEPT !.pc = "transit", !.goal = goal]
      BY <1>0, <2>3, HoldEffect
    <3>2. /\ serving'[h].pc = "transit" /\ serving'[h].goal = goal
          /\ serving'[h].proj = serving[h].proj
      BY <1>0, <3>1 DEF Held
    <3>3. HandlerOK(h)'
      BY <1>0, <1>3, <3>2 DEF HandlerOK, OnRun
    <3> QED
      BY <1>0, <2>3, <3>3, HoldEffect
  <2> QED
    BY <2>1, <2>2, <2>3
<1> QED
  BY <1>7, <1>8, <1>9, <1>10, <1>11, <1>12

LEMMA CancelAndReplanStepsKeepInv ==
    ASSUME RunsInv, NEW h \in Handlers,
           \/ CancelLoad(h) \/ CancelSave(h)
           \/ ProposeLoad(h) \/ ProposeSave(h) \/ DecideSave(h)
           \/ ApplyLoad(h) \/ ApplySave(h) \/ ApplyProject(h)
    PROVE  RunsInv' /\ RunsKept
<1>0. TypeOK /\ ProjectOK /\ HandlerOK(h) /\ serving[h] \in Held
  BY DEF RunsInv, TypeOK
<1>1. TypeOK'
  BY <1>0, CancelAndReplanStepsTyped
<1>2. RunsKept /\ Existing' = Existing
  <2>1. CASE CancelSave(h) \/ ProposeSave(h)
    <3> DEFINE file == [serving[h].file EXCEPT !.status = "BLOCKED"]
    <3>1. file \in Files /\ file.status \in RunEnd
      BY <1>0 DEF Held, Files, RunEnd
    <3>2. serving[h].rid \in Existing /\ runs' = Overwritten(serving[h].rid, file)
      BY <1>0, <2>1 DEF CancelSave, ProposeSave, At, HandlerOK, OnRun
    <3> QED
      BY <1>0, <3>1, <3>2, OverwrittenEffect
  <2>2. CASE UNCHANGED runs
    BY <2>2, UnchangedRunsKept
  <2> QED
    BY <2>1, <2>2 DEF CancelLoad, ProposeLoad, DecideSave, ApplyLoad,
                      ApplySave, ApplyProject
<1>3. UNCHANGED approved
  BY DEF CancelLoad, CancelSave, ProposeLoad, ProposeSave, DecideSave,
         ApplyLoad, ApplySave, ApplyProject
<1>4. ProjectOK'
  <2>1. project' = project \/ project'.status = serving[h].proj.status
    BY <1>0 DEF CancelLoad, CancelSave, ProposeLoad, ProposeSave, DecideSave,
                ApplyLoad, ApplySave, ApplyProject, Held, Projects
  <2> QED
    BY <1>0, <1>2, <1>3, <2>1 DEF ProjectOK, HandlerOK, RunsFollowApproval
<1>5. SUFFICES /\ \A g \in Handlers \ {h} : serving'[g] = serving[g]
               /\ HandlerOK(h)'
  BY <1>1, <1>2, <1>3, <1>4, OneHandlerMoves
<1>6. CASE Return(h)
  BY <1>0, <1>6, HoldEffect, IdleOK DEF Return
<1>7. CASE CancelLoad(h) \/ (ProposeLoad(h) /\ ~Return(h))
  <2>1. PICK pc \in {"cancelSave", "proposeSave"} :
          /\ Hold(h, [serving[h] EXCEPT !.pc = pc,
                                        !.file = runs[serving[h].rid]])
          /\ serving[h].pc \in {"cancelLoad", "proposeLoad"}
          /\ pc = "proposeSave" => runs[serving[h].rid].status \in RunEnd
          /\ UNCHANGED runs
    BY <1>7 DEF CancelLoad, ProposeLoad, At, RunEnd
  <2>2. serving'[h] = [serving[h] EXCEPT !.pc = pc,
                                         !.file = runs[serving[h].rid]]
    BY <1>0, <2>1, HoldEffect
  <2>3. /\ serving'[h].pc = pc /\ serving'[h].rid = serving[h].rid
        /\ serving'[h].proj = serving[h].proj
        /\ serving'[h].goal = serving[h].goal
        /\ serving'[h].call = serving[h].call
    BY <1>0, <2>2 DEF Held
  <2>4. HandlerOK(h)'
    BY <1>0, <1>2, <1>3, <2>1, <2>3 DEF HandlerOK, OnRun
  <2> QED
    BY <1>0, <2>1, <2>4, HoldEffect
<1>8. CASE (ApplyLoad(h) /\ ~Return(h)) \/ ApplySave(h)
  <2>1. PICK pc \in {"applySave", "applyProject"} : Goto(h, pc)
    BY <1>8 DEF ApplyLoad, ApplySave
  <2>2. serving'[h] = [serving[h] EXCEPT !.pc = pc]
    BY <1>0, <2>1, GotoEffect
  <2>3. /\ serving'[h].pc = pc
        /\ serving'[h].proj = serving[h].proj
        /\ serving'[h].goal = serving[h].goal
        /\ serving'[h].call = serving[h].call
    BY <1>0, <2>2 DEF Held
  <2>4. HandlerOK(h)'
    BY <1>0, <1>3, <2>3 DEF HandlerOK, OnRun
  <2> QED
    BY <1>0, <2>1, <2>4, GotoEffect
<1> QED
  BY <1>6, <1>7, <1>8
     DEF CancelSave, ProposeSave, DecideSave, ApplyProject

LEMMA CrashKeepsInv ==
    ASSUME RunsInv, NEW p \in Procs, Crash(p)
    PROVE  RunsInv'
<1>1. TypeOK'
  BY CrashTyped DEF RunsInv
<1>2. UNCHANGED <<project, runs, approved>> /\ Existing' = Existing
  BY DEF Crash, Existing
<1>3. ASSUME NEW h \in Handlers
      PROVE  HandlerOK(h)'
  <2>1. CASE serving'[h] = Idle
    BY <2>1, IdleOK
  <2>2. CASE serving'[h] = serving[h]
    BY <1>2, <2>2 DEF RunsInv, HandlerOK
  <2> QED
    BY <2>1, <2>2 DEF Crash
<1> QED
  BY <1>1, <1>2, <1>3 DEF RunsInv, ProjectOK, RunsFollowApproval

LEMMA InitRunsInv == Init => RunsInv
<1> SUFFICES ASSUME Init PROVE RunsInv
  OBVIOUS
<1>1. TypeOK
  BY InitTyped
<1>2. ProjectOK
  BY DEF Init, ProjectOK, RunsFollowApproval, Existing, NewProject, Absent,
         Beyond
<1>3. \A h \in Handlers : HandlerOK(h)
  BY DEF Init, HandlerOK, Idle, NewProject, Beyond, OnRun
<1> QED
  BY <1>1, <1>2, <1>3 DEF RunsInv

LEMMA NextKeepsRunsInv ==
    ASSUME RunsInv, [Next]_vars
    PROVE  RunsInv' /\ RunsKept
<1>1. ASSUME NEW h \in Handlers, Request(h)
      PROVE  RunsInv' /\ RunsKept
  <2>1. UNCHANGED runs
    BY <1>1 DEF Request, Plan, ApprovePlan, RequestTransition, ExecuteReady,
                ResumeApplied, RequestCancel, Propose, Decide, ApplyReplan
  <2> QED
    BY <1>1, <2>1, RequestKeepsInv, UnchangedRunsKept
<1>2. ASSUME NEW h \in Handlers,
             \/ TransitLoad(h) \/ TransitSave(h)
             \/ Draft(h) \/ RefLoad(h) \/ RefSave(h)
      PROVE  RunsInv' /\ RunsKept
  <2>1. UNCHANGED runs
    BY <1>2 DEF TransitLoad, TransitSave, Draft, RefLoad, RefSave
  <2> QED
    BY <1>2, <2>1, ProjectStepsKeepInv, UnchangedRunsKept
<1>3. ASSUME NEW h \in Handlers, Serve(h)
      PROVE  RunsInv' /\ RunsKept
  BY <1>2, <1>3, RunStepsKeepInv, CancelAndReplanStepsKeepInv DEF Serve
<1>4. ASSUME NEW p \in Procs, Crash(p)
      PROVE  RunsInv' /\ RunsKept
  BY <1>4, CrashKeepsInv, UnchangedRunsKept DEF Crash
<1>5. CASE UNCHANGED vars
  <2>1. TypeOK'
    BY <1>5 DEF RunsInv, TypeOK, vars
  <2>2. ProjectOK' /\ \A h \in Handlers : HandlerOK(h)'
    BY <1>5 DEF RunsInv, ProjectOK, RunsFollowApproval, HandlerOK, Existing, vars
  <2> QED
    BY <1>5, <2>1, <2>2, UnchangedRunsKept DEF RunsInv, vars
<1> QED
  BY <1>1, <1>3, <1>4, <1>5 DEF Next

(* RunsInv is an invariant of the product core.                            *)
THEOREM RunsInvariance == Spec => []RunsInv
<1>1. RunsInv /\ [Next]_vars => RunsInv'
  BY NextKeepsRunsInv
<1> QED
  BY InitRunsInv, <1>1, PTL DEF Spec

(* The files, the processes' memory and the calls keep their types: what a *)
(* call holds is always a project record and a run file that were stored.  *)
THEOREM ProjectTypeCorrect == Spec => []TypeOK
<1>1. RunsInv => TypeOK
  BY DEF RunsInv
<1> QED
  BY RunsInvariance, <1>1, PTL

(* The plan gate: no run before approve_plan has moved the project on, for *)
(* any number of clients, processes and crashes and any stale save.        *)
THEOREM PlanGateHolds == Spec => []RunsFollowApproval
<1>1. RunsInv => RunsFollowApproval
  BY DEF RunsInv, ProjectOK
<1> QED
  BY RunsInvariance, <1>1, PTL

(* No save of a stale copy brings a run that has ended back to RUNNING.    *)
THEOREM NoRunReopens == Spec => EndedStaysEnded
<1>1. RunsInv /\ [Next]_vars =>
        [\A r \in Runs : runs[r].status \in RunEnd =>
                           runs'[r].status \in RunEnd]_vars
  BY NextKeepsRunsInv DEF RunsKept
<1> QED
  BY RunsInvariance, <1>1, PTL DEF Spec, EndedStaysEnded

-----------------------------------------------------------------------------
(* Cancellation within one process *)

OneProcess == \A g, h \in Handlers : Own(g) = Own(h)

Turning == {"work", "begin"}
Executing == Turning \cup {"record", "raise"}
Cancels == {"cancelLoad", "cancelSave"}

Live(h) == runs[serving[h].rid].status = "RUNNING"
Marked(h) == serving[h].rid \in cancels[Own(h)]

(* An executor's run is its own, and is RUNNING in its file unless marked   *)
(* as cancelled; a cancel_run under way has marked its run, or has found    *)
(* that it had ended.                                                      *)
CancelInv ==
    /\ \A g, h \in Handlers :
          /\ serving[g].pc \in Executing /\ serving[h].pc \in Executing
          /\ serving[g].rid = serving[h].rid
          => g = h
    /\ \A h \in Handlers : serving[h].pc \in Turning => Live(h) \/ Marked(h)
    /\ \A h \in Handlers : serving[h].pc \in Cancels => ~Live(h) \/ Marked(h)

(* A step of a handler that neither admits, records nor cancels a run.     *)
LEMMA QuietStep ==
    ASSUME RunsInv, CancelInv, NEW h \in Handlers,
           \A g \in Handlers \ {h} : serving'[g] = serving[g],
           \A r \in Runs : runs'[r].status = runs[r].status,
           UNCHANGED cancels,
           \/ serving'[h].pc \notin Executing \cup Cancels
           \/ /\ serving'[h].rid = serving[h].rid
              /\ \/ serving[h].pc \in Turning /\ serving'[h].pc \in Executing
                 \/ serving[h].pc = "cancelLoad" /\ serving'[h].pc = "cancelSave"
    PROVE  CancelInv'
<1>1. \A g \in Handlers : serving[g].pc \in Executing \cup Cancels =>
                            serving[g].rid \in Runs
  BY DEF RunsInv, HandlerOK, OnRun, Existing, Executing, Turning, Cancels
<1>2. ASSUME NEW g \in Handlers,
             serving'[g].pc \in Executing \cup Cancels
      PROVE  /\ serving'[g].rid = serving[g].rid
             /\ serving'[g].pc \in Executing => serving[g].pc \in Executing
             /\ serving'[g].pc \in Turning => serving[g].pc \in Turning
             /\ serving'[g].pc \in Cancels => serving[g].pc \in Cancels
             /\ serving[g].pc \in Executing \cup Cancels
             /\ Live(g)' = Live(g) /\ Marked(g)' = Marked(g)
  <2>1. /\ serving'[g].rid = serving[g].rid
        /\ serving'[g].pc \in Executing => serving[g].pc \in Executing
        /\ serving'[g].pc \in Turning => serving[g].pc \in Turning
        /\ serving'[g].pc \in Cancels => serving[g].pc \in Cancels
        /\ serving[g].pc \in Executing \cup Cancels
    <3>1. CASE g = h
      BY <1>2, <3>1 DEF Executing, Turning, Cancels
    <3>2. CASE g # h
      BY <1>2, <3>2
    <3> QED
      BY <3>1, <3>2
  <2>2. serving[g].rid \in Runs
    BY <1>1, <2>1
  <2> QED
    BY <2>1, <2>2 DEF Live, Marked, Own
<1>3. \A g, k \in Handlers :
          /\ serving'[g].pc \in Executing /\ serving'[k].pc \in Executing
          /\ serving'[g].rid = serving'[k].rid
          => g = k
  BY <1>2 DEF CancelInv
<1>4. \A g \in Handlers : serving'[g].pc \in Turning => Live(g)' \/ Marked(g)'
  BY <1>2 DEF CancelInv, Executing, Turning
<1>5. \A g \in Handlers : serving'[g].pc \in Cancels => ~Live(g)' \/ Marked(g)'
  BY <1>2 DEF CancelInv
<1> QED
  BY <1>3, <1>4, <1>5 DEF CancelInv

(* A step that ends a run's file: by the executor that owns the run, or a   *)
(* run that its file has not RUNNING, or has marked.                       *)
LEMMA EndingStep ==
    ASSUME RunsInv, CancelInv, NEW h \in Handlers, NEW r \in Runs,
           \A g \in Handlers \ {h} : serving'[g] = serving[g],
           serving'[h].pc \notin Executing \cup Cancels,
           \A q \in Runs \ {r} : runs'[q].status = runs[q].status,
           runs'[r].status # "RUNNING",
           UNCHANGED cancels,
           \A g \in Handlers \ {h} :
              serving[g].pc \in Turning /\ serving[g].rid = r => Marked(g)
    PROVE  CancelInv'
<1>1. ASSUME NEW g \in Handlers, serving'[g].pc \in Executing \cup Cancels
      PROVE  /\ g # h /\ serving'[g] = serving[g] /\ serving[g].rid \in Runs
             /\ Marked(g)' = Marked(g)
             /\ serving[g].rid # r => Live(g)' = Live(g)
             /\ serving[g].rid = r => ~Live(g)'
  <2>1. g # h /\ serving'[g] = serving[g]
    BY <1>1
  <2>2. serving[g].rid \in Runs
    BY <1>1, <2>1
       DEF RunsInv, HandlerOK, OnRun, Existing, Executing, Turning, Cancels
  <2> QED
    BY <2>1, <2>2 DEF Live, Marked, Own
<1>2. \A g, k \in Handlers :
          /\ serving'[g].pc \in Executing /\ serving'[k].pc \in Executing
          /\ serving'[g].rid = serving'[k].rid
          => g = k
  BY <1>1 DEF CancelInv
<1>3. ASSUME NEW g \in Handlers, serving'[g].pc \in Turning
      PROVE  Live(g)' \/ Marked(g)'
  BY <1>1, <1>3 DEF CancelInv, Executing, Turning
<1>4. ASSUME NEW g \in Handlers, serving'[g].pc \in Cancels
      PROVE  ~Live(g)' \/ Marked(g)'
  BY <1>1, <1>4 DEF CancelInv
<1> QED
  BY <1>2, <1>3, <1>4 DEF CancelInv

LEMMA AdmitKeepsCancelInv ==
    ASSUME RunsInv, CancelInv, NEW h \in Handlers, AdmitRun(h)
    PROVE  CancelInv'
<1>0. TypeOK /\ serving[h] \in Held
  BY DEF RunsInv, TypeOK
<1>1. PICK r \in Runs \ Existing :
        /\ runs' = [runs EXCEPT ![r] = Opened]
        /\ Hold(h, [serving[h] EXCEPT !.pc = "work", !.rid = r])
  BY DEF AdmitRun
<1>2. serving'[h] = [serving[h] EXCEPT !.pc = "work", !.rid = r]
  BY <1>0, <1>1, HoldEffect
<1>3. serving'[h].pc = "work" /\ serving'[h].rid = r
  BY <1>0, <1>2 DEF Held
<1>4. \A g \in Handlers \ {h} : serving'[g] = serving[g]
  BY <1>0, <1>1, HoldEffect
<1>5. /\ runs'[r].status = "RUNNING"
      /\ \A q \in Runs \ {r} : runs'[q] = runs[q]
      /\ UNCHANGED cancels
  BY <1>0, <1>1 DEF TypeOK, AdmitRun, Opened, Absent
<1>6. ASSUME NEW g \in Handlers \ {h}, serving[g].pc \in Executing \cup Cancels
      PROVE  /\ serving[g].rid # r
             /\ Live(g)' = Live(g) /\ Marked(g)' = Marked(g)
  <2>1. serving[g].rid \in Existing
    BY <1>6 DEF RunsInv, HandlerOK, OnRun, Executing, Turning, Cancels
  <2> QED
    BY <1>4, <1>5, <2>1 DEF Live, Marked, Own, Existing
<1>7. Live(h)'
  BY <1>3, <1>5 DEF Live
<1>8. \A g, k \in Handlers :
          /\ serving'[g].pc \in Executing /\ serving'[k].pc \in Executing
          /\ serving'[g].rid = serving'[k].rid
          => g = k
  BY <1>3, <1>4, <1>6 DEF CancelInv
<1>9. ASSUME NEW g \in Handlers, serving'[g].pc \in Turning
      PROVE  Live(g)' \/ Marked(g)'
  BY <1>4, <1>6, <1>7, <1>9 DEF CancelInv, Executing, Turning
<1>10. ASSUME NEW g \in Handlers, serving'[g].pc \in Cancels
       PROVE  ~Live(g)' \/ Marked(g)'
  BY <1>3, <1>4, <1>6, <1>10 DEF CancelInv, Cancels
<1> QED
  BY <1>8, <1>9, <1>10 DEF CancelInv

LEMMA RequestCancelKeepsCancelInv ==
    ASSUME RunsInv, CancelInv, NEW h \in Handlers, RequestCancel(h)
    PROVE  CancelInv'
<1>0. TypeOK
  BY DEF RunsInv
<1>1. PICK r \in Existing :
        /\ EnterOn(h, "cancel", "cancelLoad", r)
        /\ cancels' = [cancels EXCEPT ![Own(h)] =
                         IF runs[r].status = "RUNNING" THEN @ \cup {r} ELSE @]
  BY DEF RequestCancel
<1>2. Hold(h, [Idle EXCEPT !.call = "cancel", !.pc = "cancelLoad", !.rid = r])
  BY <1>1 DEF EnterOn
<1>3. serving'[h] = [Idle EXCEPT !.call = "cancel", !.pc = "cancelLoad",
                                 !.rid = r]
  BY <1>0, <1>2, HoldEffect
<1>4. serving'[h].pc = "cancelLoad" /\ serving'[h].rid = r
  BY <1>3 DEF Idle
<1>5. \A g \in Handlers \ {h} : serving'[g] = serving[g]
  BY <1>0, <1>2, HoldEffect
<1>6. /\ UNCHANGED runs
      /\ \A p \in Procs : cancels[p] \subseteq cancels'[p]
      /\ runs[r].status = "RUNNING" => r \in cancels'[Own(h)]
  BY <1>0, <1>1 DEF RequestCancel, TypeOK, Own
<1>7. \A g \in Handlers \ {h} : Live(g)' = Live(g) /\ (Marked(g) => Marked(g)')
  BY <1>5, <1>6 DEF Live, Marked, Own
<1>8. ~Live(h)' \/ Marked(h)'
  BY <1>4, <1>6 DEF Live, Marked, Own
<1>9. \A g, k \in Handlers :
          /\ serving'[g].pc \in Executing /\ serving'[k].pc \in Executing
          /\ serving'[g].rid = serving'[k].rid
          => g = k
  BY <1>4, <1>5 DEF CancelInv, Executing, Turning
<1>10. ASSUME NEW g \in Handlers, serving'[g].pc \in Turning
       PROVE  Live(g)' \/ Marked(g)'
  BY <1>4, <1>5, <1>7, <1>10 DEF CancelInv, Executing, Turning
<1>11. ASSUME NEW g \in Handlers, serving'[g].pc \in Cancels
       PROVE  ~Live(g)' \/ Marked(g)'
  BY <1>5, <1>7, <1>8, <1>11 DEF CancelInv
<1> QED
  BY <1>9, <1>10, <1>11 DEF CancelInv

LEMMA CrashKeepsCancelInv ==
    ASSUME RunsInv, CancelInv, NEW p \in Procs, Crash(p)
    PROVE  CancelInv'
<1>1. \A h \in Handlers : serving'[h] = IF Own(h) = p THEN Idle ELSE serving[h]
  BY DEF Crash
<1>2. ASSUME NEW h \in Handlers, serving'[h].pc \in Executing \cup Cancels
      PROVE  /\ serving'[h] = serving[h]
             /\ Live(h)' = Live(h) /\ Marked(h)' = Marked(h)
  <2>1. Own(h) # p /\ serving'[h] = serving[h]
    BY <1>1, <1>2 DEF Idle, Executing, Turning, Cancels
  <2>2. cancels'[Own(h)] = cancels[Own(h)]
    BY <2>1 DEF Crash, RunsInv, TypeOK, Own
  <2> QED
    BY <2>1, <2>2 DEF Live, Marked, Own, Crash
<1>3. \A g, k \in Handlers :
          /\ serving'[g].pc \in Executing /\ serving'[k].pc \in Executing
          /\ serving'[g].rid = serving'[k].rid
          => g = k
  BY <1>2 DEF CancelInv
<1>4. ASSUME NEW g \in Handlers, serving'[g].pc \in Turning
      PROVE  Live(g)' \/ Marked(g)'
  BY <1>2, <1>4 DEF CancelInv, Executing, Turning
<1>5. ASSUME NEW g \in Handlers, serving'[g].pc \in Cancels
      PROVE  ~Live(g)' \/ Marked(g)'
  BY <1>2, <1>5 DEF CancelInv
<1> QED
  BY <1>3, <1>4, <1>5 DEF CancelInv

LEMMA SavesKeepCancelInv ==
    ASSUME OneProcess, RunsInv, CancelInv, NEW h \in Handlers,
           Record(h) \/ CancelSave(h) \/ ProposeSave(h)
    PROVE  CancelInv'
<1> DEFINE r == serving[h].rid
           file == IF Record(h) THEN serving[h].file
                   ELSE [serving[h].file EXCEPT !.status = "BLOCKED"]
<1>0. TypeOK /\ HandlerOK(h) /\ serving[h] \in Held /\ runs \in [Runs -> Files]
  BY DEF RunsInv, TypeOK
<1>1. r \in Existing /\ file \in Files /\ file.status \in RunEnd
  <2>1. CASE Record(h)
    BY <1>0, <2>1 DEF Record, At, HandlerOK, OnRun, Held
  <2>2. CASE ~Record(h)
    BY <1>0, <2>2
       DEF CancelSave, ProposeSave, At, HandlerOK, OnRun, Held, Files, RunEnd
  <2> QED
    BY <2>1, <2>2
<1>2. runs' = Overwritten(r, file) /\ UNCHANGED cancels
  BY DEF Record, CancelSave, ProposeSave
<1>3. \A q \in Runs : runs'[q].status = IF q = r THEN file.status
                                        ELSE runs[q].status
  BY <1>0, <1>1, <1>2 DEF Overwritten, Files
<1>4. /\ serving'[h].pc \notin Executing \cup Cancels
      /\ \A g \in Handlers \ {h} : serving'[g] = serving[g]
  <2>1. CASE Record(h)
    <3>1. PICK pc \in {"note", "unwind"} : Goto(h, pc)
      BY <2>1 DEF Record
    <3>2. serving'[h] = [serving[h] EXCEPT !.pc = pc]
      BY <1>0, <3>1, GotoEffect
    <3> QED
      BY <1>0, <3>1, <3>2, GotoEffect DEF Held, Executing, Turning, Cancels
  <2>2. CASE CancelSave(h) \/ ProposeSave(h)
    BY <1>0, <2>2, HoldEffect
       DEF CancelSave, ProposeSave, Return, Idle, Executing, Turning, Cancels
  <2> QED
    BY <2>1, <2>2
<1>5. ASSUME NEW g \in Handlers \ {h}, serving[g].pc \in Turning,
             serving[g].rid = r
      PROVE  Marked(g)
  <2>1. Live(g) \/ Marked(g)
    BY <1>5 DEF CancelInv
  <2>2. Live(g) <=> Live(h)
    BY <1>5 DEF Live
  <2>3. Marked(g) <=> Marked(h)
    BY <1>5 DEF Marked, OneProcess
  <2>4. CASE Record(h)
    BY <1>5, <2>4 DEF Record, At, CancelInv, Executing
  <2>5. CASE CancelSave(h)
    BY <2>1, <2>2, <2>3, <2>5 DEF CancelSave, At, CancelInv, Cancels
  <2>6. CASE ProposeSave(h)
    <3>1. ~Live(h)
      BY <1>0, <2>6 DEF ProposeSave, At, HandlerOK, Live, RunEnd
    <3> QED
      BY <2>1, <2>2, <3>1
  <2> QED
    BY <2>4, <2>5, <2>6
<1>6. r \in Runs /\ runs'[r].status # "RUNNING"
  BY <1>1, <1>3 DEF Existing, RunEnd
<1> HIDE DEF r, file
<1>7. /\ UNCHANGED cancels
      /\ \A q \in Runs \ {r} : runs'[q].status = runs[q].status
  BY <1>2, <1>3
<1> QED
  BY <1>4, <1>5, <1>6, <1>7, EndingStep

(* The steps that leave cancellations and the runs' statuses alone. *)
LEMMA QuietStepsKeepCancelInv ==
    ASSUME RunsInv, CancelInv, NEW h \in Handlers,
           Request(h) \/ Serve(h),
           ~(\/ AdmitRun(h) \/ Record(h) \/ CancelSave(h) \/ ProposeSave(h)
             \/ RequestCancel(h))
    PROVE  CancelInv'
<1>0. /\ TypeOK /\ HandlerOK(h) /\ serving[h] \in Held
      /\ runs \in [Runs -> Files]
  BY DEF RunsInv, TypeOK
<1>1. UNCHANGED cancels /\ \A q \in Runs : runs'[q].status = runs[q].status
  <2>1. CASE CompleteRun(h)
    <3>1. /\ serving[h].rid \in Existing
          /\ runs[serving[h].rid].status \in RunEnd
      BY <1>0, <2>1 DEF CompleteRun, At, HandlerOK, OnRun
    <3>2. runs' = [runs EXCEPT ![serving[h].rid].status =
                     runs[serving[h].rid].status]
      BY <2>1, <3>1 DEF CompleteRun, Verdict
    <3> QED
      BY <1>0, <2>1, <3>2 DEF Files, CompleteRun
  <2>2. CASE ~CompleteRun(h)
    BY <2>2 DEF Request, Plan, ApprovePlan, RequestTransition, ExecuteReady,
        ResumeApplied, Propose, Decide, ApplyReplan, Serve, TransitLoad,
        TransitSave, Draft, RefLoad, RefSave, BuildFails, RefuseRun, Poll,
        BeginTask, EndWork, Unwind, NoteRun, CancelLoad, ProposeLoad, DecideSave,
        ApplyLoad, ApplySave, ApplyProject
  <2> QED
    BY <2>1, <2>2
<1>2. SUFFICES
        /\ \A g \in Handlers \ {h} : serving'[g] = serving[g]
        /\ \/ serving'[h].pc \notin Executing \cup Cancels
           \/ /\ serving'[h].rid = serving[h].rid
              /\ \/ serving[h].pc \in Turning /\ serving'[h].pc \in Executing
                 \/ serving[h].pc = "cancelLoad" /\ serving'[h].pc = "cancelSave"
  BY <1>1, QuietStep
<1>3. ASSUME NEW held, Hold(h, held), held.pc \notin Executing \cup Cancels
      PROVE  /\ \A g \in Handlers \ {h} : serving'[g] = serving[g]
             /\ serving'[h].pc \notin Executing \cup Cancels
  BY <1>0, <1>3, HoldEffect
<1>4. Idle.pc = "idle" /\ "idle" \notin Executing \cup Cancels
  BY DEF Idle, Executing, Turning, Cancels
<1>5. ASSUME NEW call, NEW pc, pc \notin Executing \cup Cancels,
             \/ \E goal : Enter(h, call, pc, goal)
             \/ \E r : EnterOn(h, call, pc, r)
      PROVE  /\ \A g \in Handlers \ {h} : serving'[g] = serving[g]
             /\ serving'[h].pc \notin Executing \cup Cancels
  <2>1. ASSUME NEW goal, Enter(h, call, pc, goal)
        PROVE  \E held : Hold(h, held) /\ held.pc = pc
    <3>1. [Idle EXCEPT !.call = call, !.pc = pc, !.goal = goal].pc = pc
      BY DEF Idle
    <3> QED
      BY <2>1, <3>1 DEF Enter
  <2>2. ASSUME NEW r, EnterOn(h, call, pc, r)
        PROVE  \E held : Hold(h, held) /\ held.pc = pc
    <3>1. [Idle EXCEPT !.call = call, !.pc = pc, !.rid = r].pc = pc
      BY DEF Idle
    <3> QED
      BY <2>2, <3>1 DEF EnterOn
  <2> QED
    BY <1>3, <1>5, <2>1, <2>2
<1>6. CASE Request(h)
  <2>1. CASE ApplyReplan(h)
    <3>1. PICK r \in Existing :
            Hold(h, [Idle EXCEPT !.call = "apply", !.pc = "applyLoad",
                                 !.rid = r, !.proj = project])
      BY <2>1 DEF ApplyReplan
    <3>2. [Idle EXCEPT !.call = "apply", !.pc = "applyLoad",
                       !.rid = r, !.proj = project].pc = "applyLoad"
      BY DEF Idle
    <3> QED
      BY <1>3, <3>1, <3>2 DEF Executing, Turning, Cancels
  <2>2. CASE ~ApplyReplan(h)
    <3>1. PICK call \in CallKinds, pc \in {"transit", "proposeLoad", "decideSave"} :
            \/ \E goal : Enter(h, call, pc, goal)
            \/ \E r : EnterOn(h, call, pc, r)
      BY <1>6, <2>2
         DEF Request, Plan, ApprovePlan, RequestTransition, ExecuteReady,
             ResumeApplied, Propose, Decide, CallKinds
    <3> QED
      BY <1>5, <3>1 DEF Executing, Turning, Cancels
  <2> QED
    BY <2>1, <2>2
<1>7. ASSUME NEW pc, Goto(h, pc), pc \notin Executing \cup Cancels
      PROVE  /\ \A g \in Handlers \ {h} : serving'[g] = serving[g]
             /\ serving'[h].pc \notin Executing \cup Cancels
  <2>1. serving'[h] = [serving[h] EXCEPT !.pc = pc]
    BY <1>0, <1>7, GotoEffect
  <2> QED
    BY <1>0, <1>7, <2>1, GotoEffect DEF Held
<1>8. CASE Return(h)
  BY <1>3, <1>4, <1>8 DEF Return
<1>9. CASE RefuseRun(h) \/ NoteRun(h) \/ (ApplyLoad(h) /\ ~Return(h))
           \/ ApplySave(h)
  BY <1>7, <1>9
     DEF RefuseRun, NoteRun, ApplyLoad, ApplySave, Executing, Turning, Cancels
<1>10. CASE Poll(h) \/ BeginTask(h)
  <2>1. serving[h].pc \in Turning
    BY <1>10 DEF Poll, BeginTask, At, Turning
  <2>2. UNCHANGED serving \/ \E pc \in Turning : Goto(h, pc)
    BY <1>10 DEF Poll, BeginTask, Turning
  <2>3. CASE UNCHANGED serving
    BY <2>1, <2>3 DEF Executing
  <2>4. CASE \E pc \in Turning : Goto(h, pc)
    <3>1. PICK pc \in Turning : Goto(h, pc)
      BY <2>4
    <3>2. serving'[h] = [serving[h] EXCEPT !.pc = pc]
      BY <1>0, <3>1, GotoEffect
    <3>3. serving'[h].pc = pc /\ serving'[h].rid = serving[h].rid
      BY <1>0, <3>2 DEF Held
    <3> QED
      BY <1>0, <2>1, <3>1, <3>3, GotoEffect DEF Executing
  <2> QED
    BY <2>2, <2>3, <2>4
<1>11. CASE EndWork(h)
  <2>1. PICK pc \in {"record", "raise"}, file \in Files :
          Hold(h, [serving[h] EXCEPT !.pc = pc, !.file = file])
    BY <1>11 DEF EndWork, Files, RunEnd
  <2>2. serving'[h] = [serving[h] EXCEPT !.pc = pc, !.file = file]
    BY <1>0, <2>1, HoldEffect
  <2>3. serving'[h].pc = pc /\ serving'[h].rid = serving[h].rid
    BY <1>0, <2>2 DEF Held
  <2>4. serving[h].pc = "work"
    BY <1>11 DEF EndWork, At
  <2> QED
    BY <1>0, <2>1, <2>3, <2>4, HoldEffect DEF Executing, Turning
<1>12. CASE CancelLoad(h)
  <2>1. Hold(h, [serving[h] EXCEPT !.pc = "cancelSave",
                                   !.file = runs[serving[h].rid]])
        /\ serving[h].pc = "cancelLoad"
    BY <1>12 DEF CancelLoad, At
  <2>2. serving'[h] = [serving[h] EXCEPT !.pc = "cancelSave",
                                         !.file = runs[serving[h].rid]]
    BY <1>0, <2>1, HoldEffect
  <2>3. serving'[h].pc = "cancelSave" /\ serving'[h].rid = serving[h].rid
    BY <1>0, <2>2 DEF Held
  <2> QED
    BY <1>0, <2>1, <2>3, HoldEffect
<1>13. CASE /\ ~Return(h)
            /\ \/ TransitLoad(h) \/ TransitSave(h) \/ Draft(h) \/ RefLoad(h)
               \/ RefSave(h) \/ Unwind(h) \/ CompleteRun(h) \/ ProposeLoad(h)
  <2>1. \/ Hold(h, [serving[h] EXCEPT !.pc = "transitSave", !.proj = project])
        \/ \E pc \in {"draft", "start"} : \E proj :
             Hold(h, [serving[h] EXCEPT !.pc = pc, !.proj = proj])
        \/ \E n : Hold(h, [serving[h] EXCEPT !.pc = "refLoad", !.refs = n])
        \/ Hold(h, [serving[h] EXCEPT !.pc = "refSave", !.proj = project])
        \/ \E n, goal : Hold(h, [serving[h] EXCEPT !.pc = "transit", !.refs = n,
                                                   !.goal = goal])
        \/ \E goal : Hold(h, [serving[h] EXCEPT !.pc = "transit", !.goal = goal])
        \/ \E file : Hold(h, [serving[h] EXCEPT !.pc = "proposeSave",
                                                !.file = file])
    BY <1>13 DEF TransitLoad, TransitSave, Draft, RefLoad, RefSave, Unwind,
                 CompleteRun, ProposeLoad, Resumption
  <2> DEFINE Aside == {"transitSave", "draft", "start", "refLoad", "refSave",
                       "transit", "proposeSave"}
  <2>2. /\ \A pc \in Aside : \A proj :
              [serving[h] EXCEPT !.pc = pc, !.proj = proj].pc = pc
        /\ \A pc \in Aside : \A goal :
              [serving[h] EXCEPT !.pc = pc, !.goal = goal].pc = pc
        /\ \A pc \in Aside : \A file :
              [serving[h] EXCEPT !.pc = pc, !.file = file].pc = pc
    BY <1>0 DEF Held
  <2>3. /\ \A pc \in Aside : \A n :
              [serving[h] EXCEPT !.pc = pc, !.refs = n].pc = pc
        /\ \A pc \in Aside : \A n, goal :
              [serving[h] EXCEPT !.pc = pc, !.refs = n, !.goal = goal].pc = pc
    BY <1>0 DEF Held
  <2>4. \A pc \in Aside : pc \notin Executing \cup Cancels
    BY DEF Executing, Turning, Cancels
  <2> HIDE DEF Aside
  <2>5. CASE \E pc \in Aside : \E proj :
               Hold(h, [serving[h] EXCEPT !.pc = pc, !.proj = proj])
    <3>0. PICK pc \in Aside : \E proj :
            Hold(h, [serving[h] EXCEPT !.pc = pc, !.proj = proj])
      BY <2>5
    <3>1. PICK proj : Hold(h, [serving[h] EXCEPT !.pc = pc, !.proj = proj])
      BY <3>0
    <3>2. [serving[h] EXCEPT !.pc = pc, !.proj = proj].pc \notin Executing \cup Cancels
      BY <2>2, <2>4
    <3> QED
      BY <1>3, <3>1, <3>2
  <2>6. CASE \E pc \in Aside : \E goal :
               Hold(h, [serving[h] EXCEPT !.pc = pc, !.goal = goal])
    <3>0. PICK pc \in Aside : \E goal :
            Hold(h, [serving[h] EXCEPT !.pc = pc, !.goal = goal])
      BY <2>6
    <3>1. PICK goal : Hold(h, [serving[h] EXCEPT !.pc = pc, !.goal = goal])
      BY <3>0
    <3>2. [serving[h] EXCEPT !.pc = pc, !.goal = goal].pc \notin Executing \cup Cancels
      BY <2>2, <2>4
    <3> QED
      BY <1>3, <3>1, <3>2
  <2>7. CASE \E pc \in Aside : \E file :
               Hold(h, [serving[h] EXCEPT !.pc = pc, !.file = file])
    <3>0. PICK pc \in Aside : \E file :
            Hold(h, [serving[h] EXCEPT !.pc = pc, !.file = file])
      BY <2>7
    <3>1. PICK file : Hold(h, [serving[h] EXCEPT !.pc = pc, !.file = file])
      BY <3>0
    <3>2. [serving[h] EXCEPT !.pc = pc, !.file = file].pc \notin Executing \cup Cancels
      BY <2>2, <2>4
    <3> QED
      BY <1>3, <3>1, <3>2
  <2>8. CASE \E pc \in Aside : \E n :
               Hold(h, [serving[h] EXCEPT !.pc = pc, !.refs = n])
    <3>0. PICK pc \in Aside : \E n :
            Hold(h, [serving[h] EXCEPT !.pc = pc, !.refs = n])
      BY <2>8
    <3>1. PICK n : Hold(h, [serving[h] EXCEPT !.pc = pc, !.refs = n])
      BY <3>0
    <3>2. [serving[h] EXCEPT !.pc = pc, !.refs = n].pc \notin Executing \cup Cancels
      BY <2>3, <2>4
    <3> QED
      BY <1>3, <3>1, <3>2
  <2>9. CASE \E pc \in Aside : \E n, goal :
               Hold(h, [serving[h] EXCEPT !.pc = pc, !.refs = n, !.goal = goal])
    <3>0. PICK pc \in Aside : \E n, goal :
            Hold(h, [serving[h] EXCEPT !.pc = pc, !.refs = n, !.goal = goal])
      BY <2>9
    <3>1. PICK n, goal : Hold(h, [serving[h] EXCEPT !.pc = pc, !.refs = n, !.goal = goal])
      BY <3>0
    <3>2. [serving[h] EXCEPT !.pc = pc, !.refs = n, !.goal = goal].pc \notin Executing \cup Cancels
      BY <2>3, <2>4
    <3> QED
      BY <1>3, <3>1, <3>2
  <2> QED
    BY <2>1, <2>5, <2>6, <2>7, <2>8, <2>9 DEF Aside
<1> QED
  BY <1>6, <1>8, <1>9, <1>10, <1>11, <1>12, <1>13
     DEF Serve, BuildFails, DecideSave, ApplyProject

LEMMA InitCancelInv == ASSUME Init PROVE CancelInv
<1>1. \A h \in Handlers : serving[h].pc = "idle"
  BY DEF Init, Idle
<1> QED
  BY <1>1 DEF CancelInv, Executing, Turning, Cancels

LEMMA NextKeepsCancelInv ==
    ASSUME OneProcess, RunsInv, CancelInv, [Next]_vars
    PROVE  CancelInv'
<1>1. CASE UNCHANGED vars
  BY <1>1 DEF vars, CancelInv, Live, Marked
<1>2. ASSUME NEW p \in Procs, Crash(p) PROVE CancelInv'
  BY <1>2, CrashKeepsCancelInv
<1>3. ASSUME NEW h \in Handlers, Request(h) \/ Serve(h) PROVE CancelInv'
  <2>1. CASE AdmitRun(h)
    BY <2>1, AdmitKeepsCancelInv
  <2>2. CASE Record(h) \/ CancelSave(h) \/ ProposeSave(h)
    BY <2>2, SavesKeepCancelInv
  <2>3. CASE RequestCancel(h)
    BY <2>3, RequestCancelKeepsCancelInv
  <2> QED
    BY <1>3, <2>1, <2>2, <2>3, QuietStepsKeepCancelInv
<1> QED
  BY <1>1, <1>2, <1>3 DEF Next

(* Tasks begin only in a turn whose poll has passed. *)
LEMMA TasksBeginInTurns ==
    ASSUME RunsInv, [Next]_vars, NEW r \in Runs, worked'[r] > worked[r]
    PROVE  \E h \in Handlers : serving[h].pc = "begin" /\ serving[h].rid = r
<1>0. TypeOK /\ worked[r] \in Nat
  BY DEF RunsInv, TypeOK
<1>1. worked' # worked
  BY <1>0
<1>2. PICK h \in Handlers : BeginTask(h)
  BY <1>1 DEF Next, vars, Memory, Crash, Request, Serve, Plan, ApprovePlan,
      RequestTransition, ExecuteReady, ResumeApplied, RequestCancel, Propose,
      Decide, ApplyReplan, TransitLoad, TransitSave, Draft, RefLoad, RefSave,
      AdmitRun, BuildFails, RefuseRun, Poll, EndWork, Record, Unwind, NoteRun,
      CompleteRun, CancelLoad, CancelSave, ProposeLoad, ProposeSave,
      DecideSave, ApplyLoad, ApplySave, ApplyProject
<1>3. serving[h].rid = r
  BY <1>0, <1>1, <1>2 DEF BeginTask, Unfinished, TypeOK
<1> QED
  BY <1>2, <1>3 DEF BeginTask, At
=============================================================================
