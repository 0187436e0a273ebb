------------------------- MODULE ProjectGuarantees -------------------------
(***************************************************************************)
(* What ProjectRuns promises about cancellation within one process, and    *)
(* about the project record and its runs when few clients drive the        *)
(* project: one whose copies of the record are never stale, or two in one  *)
(* process.  The other handlers, any number of them in any process, may    *)
(* cancel, and propose and decide replans.                                 *)
(***************************************************************************)
EXTENDS ProjectRunsProofs

USE ConstantsAssumption
USE DEF Stored, Memory, Turning, Executing

(* The calls that save the project record. *)
ProjectWriters == {"plan", "approve", "transition", "execute", "resume", "apply"}

(* Only the handlers in D make such calls. *)
OnlyDrivenBy(D) ==
    \A h \in Handlers \ D : MayCall[h] \cap ProjectWriters = {}

(* Where a handler is that makes none. *)
Aside == {"idle", "cancelLoad", "cancelSave", "proposeLoad", "proposeSave",
          "decideSave"}

BystandersAside(D) == \A h \in Handlers \ D : serving[h].pc \in Aside

-----------------------------------------------------------------------------
(* What a step does to the records: its handler's call, the project and    *)
(* the statuses of the runs.                                               *)

OthersStay(h) == \A g \in Handlers \ {h} : serving'[g] = serving[g]
StatusesStay == \A r \in Runs : runs'[r].status = runs[r].status

LEMMA IdleFields == Idle.pc = "idle" /\ Idle.call = "none" /\ Idle.goal = "CREATED"
BY DEF Idle

(* A new call begins aside, at the load of the project, or with the copy   *)
(* that apply_replan has loaded.                                           *)
LEMMA RequestEffect ==
    ASSUME RunsInv, NEW h \in Handlers, Request(h)
    PROVE  LET y == serving'[h]
           IN  /\ UNCHANGED <<project, runs, active, worked, crashes>>
               /\ OthersStay(h)
               /\ serving[h].pc = "idle"
               /\ y.call \in MayCall[h]
               /\ \/ y.pc \in {"cancelLoad", "proposeLoad", "decideSave"}
                  \/ y.pc = "applyLoad" /\ y.call = "apply" /\ y.proj = project
                  \/ /\ y.pc = "transit" /\ y.call \in ProjectWriters \ {"apply"}
                     /\ y.call = "plan" => project.status = "CREATED"
                     /\ y.call = "execute" => project.status = "READY"
                     /\ y.goal = "READY" => project.status = "PLANNING"
                     /\ y.goal = "COMPLETED" => y.call = "transition"
<1> DEFINE y == serving'[h]
<1>0. TypeOK
  BY DEF RunsInv
<1>1. UNCHANGED <<project, runs, active, worked, crashes>>
  BY DEF Request, Plan, ApprovePlan, RequestTransition, ExecuteReady,
         ResumeApplied, RequestCancel, Propose, Decide, ApplyReplan
<1>2. ASSUME NEW call, NEW goal, Enter(h, call, "transit", goal)
      PROVE  /\ OthersStay(h) /\ serving[h].pc = "idle" /\ call \in MayCall[h]
             /\ y.pc = "transit" /\ y.call = call /\ y.goal = goal
  <2>1. y = [Idle EXCEPT !.call = call, !.pc = "transit", !.goal = goal]
    BY <1>0, <1>2, HoldEffect DEF Enter
  <2>2. y.pc = "transit" /\ y.call = call /\ y.goal = goal
    BY <2>1 DEF Idle
  <2> QED
    BY <1>0, <1>2, <2>2, HoldEffect DEF Enter, Take, At, OthersStay
<1>3. ASSUME NEW call, NEW pc, NEW r, EnterOn(h, call, pc, r)
      PROVE  /\ OthersStay(h) /\ serving[h].pc = "idle" /\ call \in MayCall[h]
             /\ y.pc = pc /\ y.call = call
  <2>1. y = [Idle EXCEPT !.call = call, !.pc = pc, !.rid = r]
    BY <1>0, <1>3, HoldEffect DEF EnterOn
  <2>2. y.pc = pc /\ y.call = call
    BY <2>1 DEF Idle
  <2> QED
    BY <1>0, <1>3, <2>2, HoldEffect DEF EnterOn, Take, At, OthersStay
<1>4. CASE Plan(h)
  BY <1>1, <1>2, <1>4 DEF Plan, ProjectWriters
<1>5. CASE ApprovePlan(h)
  BY <1>1, <1>2, <1>5 DEF ApprovePlan, ProjectWriters
<1>6. CASE RequestTransition(h)
  <2>1. PICK goal \in GateTargets : Enter(h, "transition", "transit", goal)
    BY <1>6 DEF RequestTransition
  <2> QED
    BY <1>1, <1>2, <2>1 DEF GateTargets, ProjectWriters
<1>7. CASE ExecuteReady(h)
  BY <1>1, <1>2, <1>7 DEF ExecuteReady, ProjectWriters
<1>8. CASE ResumeApplied(h)
  BY <1>1, <1>2, <1>8 DEF ResumeApplied, ProjectWriters
<1>9. CASE RequestCancel(h) \/ Propose(h) \/ Decide(h)
  <2>1. CASE RequestCancel(h)
    BY <1>1, <1>3, <2>1 DEF RequestCancel
  <2>2. CASE Propose(h)
    BY <1>1, <1>3, <2>2 DEF Propose
  <2>3. CASE Decide(h)
    BY <1>1, <1>3, <2>3 DEF Decide
  <2> QED
    BY <1>9, <2>1, <2>2, <2>3
<1>10. CASE ApplyReplan(h)
  <2>1. PICK r : /\ Take(h, "apply")
                 /\ Hold(h, [Idle EXCEPT !.call = "apply", !.pc = "applyLoad",
                                         !.rid = r, !.proj = project])
    BY <1>10 DEF ApplyReplan
  <2>2. y = [Idle EXCEPT !.call = "apply", !.pc = "applyLoad",
                         !.rid = r, !.proj = project]
    BY <1>0, <2>1, HoldEffect
  <2>3. y.pc = "applyLoad" /\ y.call = "apply" /\ y.proj = project
    BY <2>2 DEF Idle
  <2> QED
    BY <1>0, <1>1, <2>1, <2>3, HoldEffect DEF Take, At, OthersStay
<1> QED
  BY <1>4, <1>5, <1>6, <1>7, <1>8, <1>9, <1>10 DEF Request

(* A transition is checked on the copy that is then saved. *)
LEMMA TransitLoadEffect ==
    ASSUME RunsInv, NEW h \in Handlers, TransitLoad(h)
    PROVE  LET x == serving[h]
               y == serving'[h]
           IN  /\ UNCHANGED <<project, runs, active, worked, crashes>>
               /\ OthersStay(h)
               /\ x.pc = "transit"
               /\ \/ y = Idle
                  \/ /\ y.pc = "transitSave" /\ y.proj = project
                     /\ y.goal = x.goal /\ y.call = x.call
                     /\ x.goal \in Transitions[project.status]
<1>0. TypeOK /\ serving[h] \in Held
  BY DEF RunsInv, TypeOK
<1>1. \/ /\ serving[h].goal \in Transitions[project.status]
         /\ Hold(h, [serving[h] EXCEPT !.pc = "transitSave", !.proj = project])
      \/ Hold(h, Idle)
  BY DEF TransitLoad, CanTransition, Return
<1>2. OthersStay(h)
  BY <1>0, <1>1, HoldEffect DEF OthersStay
<1>3. \/ serving'[h] = Idle
      \/ /\ serving[h].goal \in Transitions[project.status]
         /\ serving'[h] = [serving[h] EXCEPT !.pc = "transitSave",
                                             !.proj = project]
  BY <1>0, <1>1, HoldEffect
<1> QED
  BY <1>0, <1>2, <1>3 DEF TransitLoad, At, Held

LEMMA TransitSaveEffect ==
    ASSUME RunsInv, NEW h \in Handlers, TransitSave(h)
    PROVE  LET x == serving[h]
               y == serving'[h]
           IN  /\ UNCHANGED <<runs, active, worked, crashes>>
               /\ OthersStay(h)
               /\ x.pc = "transitSave"
               /\ x.goal \in Transitions[x.proj.status]
               /\ project' = [x.proj EXCEPT !.status = x.goal]
               /\ project'.status = x.goal /\ project'.last = x.proj.last
               /\ \/ y = Idle
                  \/ /\ y.proj = project'
                     /\ y.goal = x.goal /\ y.call = x.call
                     /\ \/ y.pc = "draft" /\ x.call = "plan"
                        \/ /\ y.pc = "start" /\ x.goal = "EXECUTING"
                           /\ x.call \in {"execute", "resume"}
<1> DEFINE x == serving[h]
           moved == [x.proj EXCEPT !.status = x.goal]
           next == Resumption(x.call, x.goal)
<1>0. TypeOK /\ HandlerOK(h) /\ x \in Held
  BY DEF RunsInv, TypeOK
<1>1. project' = moved /\ moved.status = x.goal /\ moved.last = x.proj.last
  BY <1>0 DEF TransitSave, Held, Projects
<1>2. x.pc = "transitSave" /\ x.goal \in Transitions[x.proj.status]
  BY <1>0 DEF TransitSave, At, HandlerOK
<1>3. \/ next # "idle" /\ Hold(h, [x EXCEPT !.pc = next, !.proj = moved])
      \/ Hold(h, Idle)
  BY DEF TransitSave, Return
<1>4. OthersStay(h)
  BY <1>0, <1>3, HoldEffect DEF OthersStay
<1>5. \/ serving'[h] = Idle
      \/ /\ next # "idle"
         /\ serving'[h] = [x EXCEPT !.pc = next, !.proj = moved]
  BY <1>0, <1>3, HoldEffect
<1>6. \/ next = "idle"
      \/ next = "draft" /\ x.call = "plan"
      \/ /\ next = "start" /\ x.goal = "EXECUTING"
         /\ x.call \in {"execute", "resume"}
  BY DEF Resumption
<1> HIDE DEF next
<1>7. \/ serving'[h] = Idle
      \/ /\ serving'[h].pc = next /\ next # "idle" /\ serving'[h].proj = moved
         /\ serving'[h].goal = x.goal /\ serving'[h].call = x.call
  BY <1>0, <1>5 DEF Held
<1> QED
  BY <1>1, <1>2, <1>4, <1>6, <1>7 DEF TransitSave

(* Planning drafts artifacts, then stores each reference on a fresh copy.  *)
LEMMA PlanningEffect ==
    ASSUME RunsInv, NEW h \in Handlers, Draft(h) \/ RefLoad(h) \/ RefSave(h)
    PROVE  LET x == serving[h]
               y == serving'[h]
           IN  /\ UNCHANGED <<runs, active, worked, crashes>>
               /\ OthersStay(h)
               /\ \/ y = Idle
                  \/ y.pc \in {"refLoad", "refSave"}
                  \/ y.pc = "transit" /\ y.goal = "PLANNING"
               /\ y.pc = "refSave" => y.proj = project'
               /\ \/ x.pc \in {"draft", "refLoad"} /\ UNCHANGED project
                  \/ /\ x.pc = "refSave"
                     /\ project'.status = x.proj.status
                     /\ project'.last = x.proj.last
<1> DEFINE x == serving[h]
           y == serving'[h]
<1>0. TypeOK /\ x \in Held
  BY DEF RunsInv, TypeOK
<1>1. CASE Draft(h)
  <2>1. PICK n : Hold(h, [x EXCEPT !.pc = "refLoad", !.refs = n]) \/ Hold(h, Idle)
    BY <1>1 DEF Draft, Return
  <2>2. y = Idle \/ y = [x EXCEPT !.pc = "refLoad", !.refs = n]
    BY <1>0, <2>1, HoldEffect
  <2>3. y = Idle \/ y.pc = "refLoad"
    BY <1>0, <2>2 DEF Held
  <2> QED
    BY <1>0, <1>1, <2>1, <2>3, HoldEffect, IdleFields
       DEF Draft, At, OthersStay
<1>2. CASE RefLoad(h)
  <2>1. Hold(h, [x EXCEPT !.pc = "refSave", !.proj = project])
    BY <1>2 DEF RefLoad
  <2>2. y = [x EXCEPT !.pc = "refSave", !.proj = project]
    BY <1>0, <2>1, HoldEffect
  <2>3. y.pc = "refSave" /\ y.proj = project
    BY <1>0, <2>2 DEF Held
  <2> QED
    BY <1>0, <1>2, <2>1, <2>3, HoldEffect DEF RefLoad, At, OthersStay
<1>3. CASE RefSave(h)
  <2>1. PICK n \in 0 .. 2 :
          \/ Hold(h, [x EXCEPT !.pc = "refLoad", !.refs = n])
          \/ Hold(h, [x EXCEPT !.pc = "transit", !.refs = n,
                               !.goal = "PLANNING"])
          \/ Hold(h, Idle)
    BY <1>3 DEF RefSave, Return
  <2>2. \/ y = Idle
        \/ y = [x EXCEPT !.pc = "refLoad", !.refs = n]
        \/ y = [x EXCEPT !.pc = "transit", !.refs = n, !.goal = "PLANNING"]
    BY <1>0, <2>1, HoldEffect
  <2>3. y = Idle \/ y.pc = "refLoad" \/ (y.pc = "transit" /\ y.goal = "PLANNING")
    BY <1>0, <2>2 DEF Held
  <2>4. project'.status = x.proj.status /\ project'.last = x.proj.last
    BY <1>0, <1>3 DEF RefSave, Held, Projects
  <2> QED
    BY <1>0, <1>3, <2>1, <2>3, <2>4, HoldEffect, IdleFields
       DEF RefSave, At, OthersStay
<1> QED
  BY <1>1, <1>2, <1>3

(* Only a run that does not exist yet is admitted. *)
LEMMA AdmitEffect ==
    ASSUME RunsInv, NEW h \in Handlers, AdmitRun(h)
    PROVE  /\ UNCHANGED <<project, worked, crashes>>
           /\ OthersStay(h)
           /\ serving[h].pc = "start" /\ ~Busy(Own(h))
           /\ serving'[h].pc = "work" /\ serving'[h].proj = serving[h].proj
           /\ \E r \in Runs \ Existing :
                /\ serving'[h].rid = r
                /\ active' = [active EXCEPT ![Own(h)] = r]
                /\ \A q \in Runs :
                     runs'[q].status = IF q = r THEN "RUNNING"
                                       ELSE runs[q].status
<1>0. TypeOK /\ serving[h] \in Held
  BY DEF RunsInv, TypeOK
<1>1. PICK r \in Runs \ Existing :
        /\ runs' = [runs EXCEPT ![r] = Opened]
        /\ active' = [active EXCEPT ![Own(h)] = r]
        /\ Hold(h, [serving[h] EXCEPT !.pc = "work", !.rid = r])
  BY DEF AdmitRun
<1>2. serving'[h] = [serving[h] EXCEPT !.pc = "work", !.rid = r]
  BY <1>0, <1>1, HoldEffect
<1>3. /\ serving'[h].pc = "work" /\ serving'[h].rid = r
      /\ serving'[h].proj = serving[h].proj
  BY <1>0, <1>2 DEF Held
<1>4. \A q \in Runs : runs'[q].status = IF q = r THEN "RUNNING"
                                        ELSE runs[q].status
  BY <1>0, <1>1 DEF TypeOK, Opened, Absent
<1> QED
  BY <1>0, <1>1, <1>3, <1>4, HoldEffect DEF AdmitRun, At, OthersStay

(* The steps of a run up to its end write nothing but the work done.       *)
LEMMA WorkEffect ==
    ASSUME RunsInv, NEW h \in Handlers,
           RefuseRun(h) \/ BuildFails(h) \/ Poll(h) \/ BeginTask(h) \/ EndWork(h)
    PROVE  LET x == serving[h]
               y == serving'[h]
           IN  /\ UNCHANGED <<project, runs, active, crashes>>
               /\ OthersStay(h)
               /\ \A r \in Runs : worked[r] = Tasks => worked'[r] = Tasks
               /\ \/ y = Idle /\ x.pc = "start"
                  \/ /\ y.proj = x.proj /\ y.rid = x.rid /\ y.call = x.call
                     /\ \/ x.pc = "start" /\ y.pc = "unwind"
                        \/ x.pc \in Turning /\ y.pc \in Turning
                        \/ /\ x.pc = "work" /\ y.pc \in {"record", "raise"}
                           /\ y.file.status = "COMPLETED" =>
                                worked'[x.rid] = Tasks
<1> DEFINE x == serving[h]
           y == serving'[h]
<1>0. TypeOK /\ x \in Held
  BY DEF RunsInv, TypeOK
<1>1. CASE RefuseRun(h)
  <2>1. Goto(h, "unwind") /\ x.pc = "start"
    BY <1>1 DEF RefuseRun, At
  <2>2. y = [x EXCEPT !.pc = "unwind"]
    BY <1>0, <2>1, GotoEffect
  <2>3. /\ y.pc = "unwind" /\ y.proj = x.proj /\ y.rid = x.rid
        /\ y.call = x.call
    BY <1>0, <2>2 DEF Held
  <2> QED
    BY <1>0, <1>1, <2>1, <2>3, GotoEffect DEF RefuseRun, OthersStay
<1>2. CASE BuildFails(h)
  BY <1>0, <1>2, HoldEffect DEF BuildFails, At, Return, OthersStay
<1>3. CASE Poll(h) \/ BeginTask(h)
  <2>1. \A r \in Runs : worked[r] = Tasks => worked'[r] = Tasks
    BY <1>0, <1>3 DEF Poll, BeginTask, Unfinished, TypeOK
  <2>2. x.pc \in Turning
    BY <1>3 DEF Poll, BeginTask, At, Turning
  <2>3. UNCHANGED serving \/ \E pc \in Turning : Goto(h, pc)
    BY <1>3 DEF Poll, BeginTask, Turning
  <2>4. CASE UNCHANGED serving
    BY <1>3, <2>1, <2>2, <2>4 DEF Poll, BeginTask, OthersStay
  <2>5. CASE \E pc \in Turning : Goto(h, pc)
    <3>1. PICK pc \in Turning : Goto(h, pc)
      BY <2>5
    <3>2. y = [x EXCEPT !.pc = pc]
      BY <1>0, <3>1, GotoEffect
    <3>3. y.pc = pc /\ y.proj = x.proj /\ y.rid = x.rid /\ y.call = x.call
      BY <1>0, <3>2 DEF Held
    <3> QED
      BY <1>0, <1>3, <2>1, <2>2, <3>1, <3>3, GotoEffect DEF Poll, BeginTask, OthersStay
  <2> QED
    BY <2>3, <2>4, <2>5
<1>4. CASE EndWork(h)
  <2>0. PICK pc \in {"record", "raise"}, status \in RunEnd,
             flag \in BOOLEAN, failed \in BOOLEAN :
          /\ Hold(h, [x EXCEPT !.pc = pc,
                        !.file = [status |-> status, flag |-> flag,
                                  failed |-> failed]])
          /\ status = "COMPLETED" => worked[x.rid] = Tasks
    BY <1>4 DEF EndWork, RunEnd
  <2> DEFINE file == [status |-> status, flag |-> flag, failed |-> failed]
  <2>1. /\ Hold(h, [x EXCEPT !.pc = pc, !.file = file])
        /\ file.status = "COMPLETED" => worked[x.rid] = Tasks
    BY <2>0
  <2>2. y = [x EXCEPT !.pc = pc, !.file = file]
    BY <1>0, <2>1, HoldEffect
  <2>3. /\ y.pc = pc /\ y.file = file /\ y.proj = x.proj /\ y.rid = x.rid
        /\ y.call = x.call
    BY <1>0, <2>2 DEF Held
  <2> QED
    BY <1>0, <1>4, <2>1, <2>3, HoldEffect DEF EndWork, At, OthersStay
<1> QED
  BY <1>1, <1>2, <1>3, <1>4

(* The end of a run goes to its file, then to the project. *)
LEMMA RecordEffect ==
    ASSUME RunsInv, NEW h \in Handlers, Record(h)
    PROVE  LET x == serving[h]
               y == serving'[h]
           IN  /\ UNCHANGED <<project, active, worked, crashes>>
               /\ OthersStay(h)
               /\ x.pc \in {"record", "raise"}
               /\ y.pc \in {"note", "unwind"}
               /\ y.proj = x.proj /\ y.rid = x.rid /\ y.call = x.call
               /\ x.rid \in Runs /\ x.file.status \in RunEnd
               /\ \A r \in Runs : runs'[r].status = IF r = x.rid
                                                    THEN x.file.status
                                                    ELSE runs[r].status
<1> DEFINE x == serving[h]
           y == serving'[h]
<1>0. TypeOK /\ HandlerOK(h) /\ x \in Held /\ runs \in [Runs -> Files]
  BY DEF RunsInv, TypeOK
<1>1. PICK pc \in {"note", "unwind"} : Goto(h, pc)
  BY DEF Record
<1>2. y = [x EXCEPT !.pc = pc]
  BY <1>0, <1>1, GotoEffect
<1>3. y.pc = pc /\ y.proj = x.proj /\ y.rid = x.rid /\ y.call = x.call
  BY <1>0, <1>2 DEF Held
<1>4. x.pc \in {"record", "raise"} /\ runs' = Overwritten(x.rid, x.file)
  BY DEF Record, At
<1>5. x.rid \in Runs /\ x.file.status \in RunEnd /\ x.file \in Files
  BY <1>0, <1>4 DEF HandlerOK, OnRun, Existing, Held
<1>6. \A r \in Runs : runs'[r].status = IF r = x.rid THEN x.file.status
                                        ELSE runs[r].status
  BY <1>0, <1>4, <1>5 DEF Overwritten, Files
<1> QED
  BY <1>0, <1>1, <1>3, <1>4, <1>5, <1>6, GotoEffect DEF Record, OthersStay

LEMMA NoteEffect ==
    ASSUME RunsInv, NEW h \in Handlers, NoteRun(h)
    PROVE  LET x == serving[h]
               y == serving'[h]
           IN  /\ UNCHANGED <<runs, active, worked, crashes>>
               /\ OthersStay(h)
               /\ x.pc = "note" /\ y.pc = "complete"
               /\ y.rid = x.rid /\ y.call = x.call
               /\ project'.status = x.proj.status /\ project'.last = x.rid
<1> DEFINE x == serving[h]
           y == serving'[h]
<1>0. TypeOK /\ x \in Held
  BY DEF RunsInv, TypeOK
<1>1. x.pc = "note" /\ Goto(h, "complete")
  BY DEF NoteRun, At
<1>2. y = [x EXCEPT !.pc = "complete"]
  BY <1>0, <1>1, GotoEffect
<1>3. y.pc = "complete" /\ y.rid = x.rid /\ y.call = x.call
  BY <1>0, <1>2 DEF Held
<1>4. project'.status = x.proj.status /\ project'.last = x.rid
  BY <1>0 DEF NoteRun, Held, Projects
<1> QED
  BY <1>0, <1>1, <1>3, <1>4, GotoEffect DEF NoteRun, OthersStay

(* complete_run confirms the status that the file holds. *)
LEMMA CompleteEffect ==
    ASSUME RunsInv, NEW h \in Handlers, CompleteRun(h)
    PROVE  LET x == serving[h]
               y == serving'[h]
           IN  /\ UNCHANGED <<project, worked, crashes>>
               /\ OthersStay(h) /\ StatusesStay
               /\ x.pc = "complete" /\ x.rid \in Runs
               /\ runs[x.rid].status \in RunEnd
               /\ active' = Forget(Own(h), x.rid)
               /\ y.pc = "transit" /\ y.call = x.call
               /\ y.goal \in RunEnd
               /\ y.goal = "COMPLETED" => runs[x.rid].status = "COMPLETED"
<1> DEFINE x == serving[h]
           y == serving'[h]
           verdict == Verdict(x.rid, x.file.status)
           goal == IF verdict \in {"COMPLETED", "FAILED"}
                   THEN verdict ELSE "BLOCKED"
<1>0. TypeOK /\ HandlerOK(h) /\ x \in Held /\ runs \in [Runs -> Files]
  BY DEF RunsInv, TypeOK
<1>1. x.pc = "complete" /\ x.rid \in Runs /\ runs[x.rid].status \in RunEnd
  BY <1>0 DEF CompleteRun, At, HandlerOK, OnRun, Existing
<1>2. verdict = runs[x.rid].status
  BY <1>1 DEF Verdict
<1>3. StatusesStay
  <2>1. runs' = [runs EXCEPT ![x.rid].status = runs[x.rid].status]
    BY <1>2 DEF CompleteRun
  <2> QED
    BY <1>0, <2>1 DEF Files, StatusesStay
<1>4. Hold(h, [x EXCEPT !.pc = "transit", !.goal = goal])
  BY DEF CompleteRun
<1>5. goal \in RunEnd /\ (goal = "COMPLETED" => verdict = "COMPLETED")
  BY DEF RunEnd
<1> HIDE DEF goal, verdict
<1>6. y = [x EXCEPT !.pc = "transit", !.goal = goal]
  BY <1>0, <1>4, HoldEffect
<1>7. y.pc = "transit" /\ y.call = x.call /\ y.goal = goal
  BY <1>0, <1>6 DEF Held
<1> QED
  BY <1>0, <1>1, <1>2, <1>3, <1>4, <1>5, <1>7, HoldEffect
     DEF CompleteRun, OthersStay

LEMMA UnwindEffect ==
    ASSUME RunsInv, NEW h \in Handlers, Unwind(h)
    PROVE  LET x == serving[h]
               y == serving'[h]
           IN  /\ UNCHANGED <<runs, worked, crashes>>
               /\ OthersStay(h)
               /\ x.pc = "unwind"
               /\ active' = [active EXCEPT ![Own(h)] = NoRun]
               /\ \/ /\ y = Idle /\ UNCHANGED project
                     /\ active[Own(h)] = NoRun
                  \/ /\ y.pc = "transit" /\ y.goal = "FAILED"
                     /\ y.call = x.call
                     /\ project'.status = x.proj.status
<1> DEFINE x == serving[h]
           y == serving'[h]
<1>0. TypeOK /\ x \in Held
  BY DEF RunsInv, TypeOK
<1>1. x.pc = "unwind"
  BY DEF Unwind, At
<1>2. CASE active[Own(h)] = NoRun
  BY <1>0, <1>1, <1>2, HoldEffect DEF Unwind, Return, OthersStay
<1>3. CASE active[Own(h)] # NoRun
  <2>1. Hold(h, [x EXCEPT !.pc = "transit", !.goal = "FAILED"])
    BY <1>3 DEF Unwind
  <2>2. y = [x EXCEPT !.pc = "transit", !.goal = "FAILED"]
    BY <1>0, <2>1, HoldEffect
  <2>3. y.pc = "transit" /\ y.goal = "FAILED" /\ y.call = x.call
    BY <1>0, <2>2 DEF Held
  <2>4. project'.status = x.proj.status
    BY <1>0, <1>3 DEF Unwind, Held, Projects
  <2> QED
    BY <1>0, <1>1, <2>1, <2>3, <2>4, HoldEffect DEF Unwind, OthersStay
<1> QED
  BY <1>2, <1>3

(* A call that is aside stays so, and ends runs only as BLOCKED.           *)
LEMMA AsideEffect ==
    ASSUME RunsInv, NEW h \in Handlers,
           \/ CancelLoad(h) \/ CancelSave(h)
           \/ ProposeLoad(h) \/ ProposeSave(h) \/ DecideSave(h)
    PROVE  /\ UNCHANGED <<project, worked, crashes>>
           /\ OthersStay(h)
           /\ serving[h].pc \in Aside \ {"idle"} /\ serving'[h].pc \in Aside
           /\ \A r \in Runs : runs'[r].status \in {runs[r].status, "BLOCKED"}
           /\ \/ UNCHANGED active
              \/ /\ serving[h].rid \in Runs
                 /\ runs'[serving[h].rid].status = "BLOCKED"
                 /\ active' = Forget(Own(h), serving[h].rid)
<1> DEFINE x == serving[h]
<1>0. TypeOK /\ HandlerOK(h) /\ x \in Held /\ runs \in [Runs -> Files]
  BY DEF RunsInv, TypeOK
<1>1. x.pc \in Aside \ {"idle"}
  BY DEF CancelLoad, CancelSave, ProposeLoad, ProposeSave, DecideSave, At,
         Aside
<1>2. CASE CancelSave(h) \/ ProposeSave(h)
  <2> DEFINE file == [x.file EXCEPT !.status = "BLOCKED"]
  <2>1. x.rid \in Runs /\ runs' = Overwritten(x.rid, file)
    BY <1>0, <1>2
       DEF CancelSave, ProposeSave, At, HandlerOK, OnRun, Existing
  <2>2. file.status = "BLOCKED" /\ file \in Files
    BY <1>0 DEF Held, Files, RunEnd
  <2> HIDE DEF file
  <2>3. \A r \in Runs : runs'[r].status = IF r = x.rid THEN "BLOCKED"
                                          ELSE runs[r].status
    BY <1>0, <2>1, <2>2 DEF Overwritten, Files
  <2>4. Hold(h, Idle)
    BY <1>2 DEF CancelSave, ProposeSave, Return
  <2>5. UNCHANGED active \/ active' = Forget(Own(h), x.rid)
    BY <1>2 DEF CancelSave, ProposeSave
  <2> QED
    BY <1>0, <1>1, <1>2, <2>1, <2>3, <2>4, <2>5, HoldEffect, IdleFields
       DEF CancelSave, ProposeSave, OthersStay, Aside
<1>3. CASE CancelLoad(h) \/ ProposeLoad(h) \/ DecideSave(h)
  <2>1. PICK pc \in {"cancelSave", "proposeSave"} :
          \/ Hold(h, [x EXCEPT !.pc = pc, !.file = runs[x.rid]])
          \/ Hold(h, Idle)
    BY <1>3 DEF CancelLoad, ProposeLoad, DecideSave, Return
  <2>2. serving'[h] = Idle
        \/ serving'[h] = [x EXCEPT !.pc = pc, !.file = runs[x.rid]]
    BY <1>0, <2>1, HoldEffect
  <2>3. serving'[h].pc \in Aside
    BY <1>0, <2>2, IdleFields DEF Held, Aside
  <2> QED
    BY <1>0, <1>1, <1>3, <2>1, <2>3, HoldEffect
       DEF CancelLoad, ProposeLoad, DecideSave, OthersStay
<1> QED
  BY <1>2, <1>3

(* apply_replan saves the copy that it loaded first. *)
LEMMA ApplyEffect ==
    ASSUME RunsInv, NEW h \in Handlers,
           ApplyLoad(h) \/ ApplySave(h) \/ ApplyProject(h)
    PROVE  LET x == serving[h]
               y == serving'[h]
           IN  /\ UNCHANGED <<runs, active, worked, crashes>>
               /\ OthersStay(h)
               /\ \/ /\ x.pc \in {"applyLoad", "applySave"}
                     /\ UNCHANGED project
                     /\ \/ y = Idle
                        \/ /\ y.pc \in {"applySave", "applyProject"}
                           /\ y.proj = x.proj
                  \/ /\ x.pc = "applyProject" /\ y = Idle
                     /\ project'.status = x.proj.status
                     /\ project'.last = x.proj.last
<1> DEFINE x == serving[h]
           y == serving'[h]
<1>0. TypeOK /\ x \in Held
  BY DEF RunsInv, TypeOK
<1>1. CASE ApplyProject(h)
  <2>1. project'.status = x.proj.status /\ project'.last = x.proj.last
    BY <1>0, <1>1 DEF ApplyProject, Held, Projects
  <2> QED
    BY <1>0, <1>1, <2>1, HoldEffect DEF ApplyProject, At, Return, OthersStay
<1>2. CASE Return(h) /\ ~ApplyProject(h)
  BY <1>0, <1>2, HoldEffect DEF ApplyLoad, ApplySave, At, Return, OthersStay
<1>3. CASE ~Return(h) /\ ~ApplyProject(h)
  <2>1. PICK pc \in {"applySave", "applyProject"} : Goto(h, pc)
    BY <1>3 DEF ApplyLoad, ApplySave
  <2>2. y = [x EXCEPT !.pc = pc]
    BY <1>0, <2>1, GotoEffect
  <2>3. y.pc = pc /\ y.proj = x.proj
    BY <1>0, <2>2 DEF Held
  <2> QED
    BY <1>0, <1>3, <2>1, <2>3, GotoEffect
       DEF ApplyLoad, ApplySave, At, OthersStay
<1> QED
  BY <1>1, <1>2, <1>3

LEMMA CrashEffect ==
    ASSUME RunsInv, NEW p \in Procs, Crash(p)
    PROVE  /\ UNCHANGED <<project, runs, worked>> /\ crashes' < crashes
           /\ \A h \in Handlers :
                \/ serving'[h] = Idle
                \/ serving'[h] = serving[h]
BY DEF Crash, RunsInv, TypeOK

-----------------------------------------------------------------------------
(* A handler that makes no such call never writes the project or begins    *)
(* work, and ends runs only as BLOCKED.                                    *)
LEMMA BystanderStep ==
    ASSUME RunsInv, NEW h \in Handlers, serving[h].pc \in Aside,
           MayCall[h] \cap ProjectWriters = {}, Request(h) \/ Serve(h)
    PROVE  /\ UNCHANGED <<project, worked, crashes>>
           /\ OthersStay(h)
           /\ serving'[h].pc \in Aside
           /\ \A r \in Runs : runs'[r].status \in {runs[r].status, "BLOCKED"}
<1>1. CASE Request(h)
  BY <1>1, RequestEffect DEF Aside, ProjectWriters
<1>2. CASE Serve(h)
  <2>1. ~(\/ TransitLoad(h) \/ TransitSave(h)
          \/ Draft(h) \/ RefLoad(h) \/ RefSave(h)
          \/ AdmitRun(h) \/ BuildFails(h) \/ RefuseRun(h)
          \/ Poll(h) \/ BeginTask(h) \/ EndWork(h)
          \/ Record(h) \/ Unwind(h) \/ NoteRun(h) \/ CompleteRun(h) \/ ApplyLoad(h) \/ ApplySave(h)
          \/ ApplyProject(h))
    BY DEF Aside, TransitLoad, TransitSave, Draft, RefLoad, RefSave, AdmitRun,
           BuildFails, RefuseRun, Poll, BeginTask, EndWork, Record, Unwind, NoteRun,
           CompleteRun, ApplyLoad, ApplySave, ApplyProject, At
  <2> QED
    BY <1>2, <2>1, AsideEffect DEF Serve
<1> QED
  BY <1>1, <1>2

LEMMA InitAside == ASSUME Init, NEW D PROVE BystandersAside(D)
BY IdleFields DEF Init, BystandersAside, Aside

(* Only the handler that moves can leave its place. *)
LEMMA OneMoves ==
    ASSUME RunsInv, NEW h \in Handlers, Request(h) \/ Serve(h)
    PROVE  OthersStay(h)
BY RequestEffect, TransitLoadEffect, TransitSaveEffect, PlanningEffect,
   AdmitEffect, WorkEffect, RecordEffect, NoteEffect, CompleteEffect,
   UnwindEffect, AsideEffect, ApplyEffect DEF Serve

(* Only a poll leads to the start of tasks, and it passes only when the     *)
(* run's file says RUNNING.                                                *)
LEMMA PollsOnRunning ==
    ASSUME OneProcess, RunsInv, CancelInv, [Next]_vars, NEW h \in Handlers,
           serving[h].pc # "begin", serving'[h].pc = "begin"
    PROVE  runs[serving'[h].rid].status = "RUNNING"
<1>0. TypeOK /\ serving[h] \in Held
  BY DEF RunsInv, TypeOK
<1>1. Poll(h)
  <2>1. PICK g \in Handlers : Request(g) \/ Serve(g)
    BY IdleFields DEF Next, vars, Crash
  <2>2. g = h
    BY <2>1, OneMoves DEF OthersStay
  <2>3. ~BeginTask(h)
    BY DEF BeginTask, At
  <2>4. ~EndWork(h)
    <3>1. ASSUME EndWork(h) PROVE serving'[h].pc \in {"record", "raise"}
      <4>0. PICK pc \in {"record", "raise"} :
              \E file : Hold(h, [serving[h] EXCEPT !.pc = pc, !.file = file])
        BY <3>1 DEF EndWork
      <4>1. PICK file : Hold(h, [serving[h] EXCEPT !.pc = pc, !.file = file])
        BY <4>0
      <4>2. serving'[h] = [serving[h] EXCEPT !.pc = pc, !.file = file]
        BY <1>0, <4>1, HoldEffect
      <4> QED
        BY <1>0, <4>2 DEF Held
    <3> QED
      BY <3>1
  <2>5. ~Request(h) /\ ~AdmitRun(h) /\ ~Record(h)
    BY RequestEffect, AdmitEffect, RecordEffect
  <2>6. ~TransitLoad(h) /\ ~TransitSave(h) /\ ~Draft(h) /\ ~RefLoad(h) /\ ~RefSave(h)
    BY TransitLoadEffect, TransitSaveEffect, PlanningEffect, IdleFields
  <2>7. ~Unwind(h) /\ ~NoteRun(h) /\ ~CompleteRun(h)
    BY UnwindEffect, NoteEffect, CompleteEffect, IdleFields
  <2>8. /\ ~CancelLoad(h) /\ ~CancelSave(h)
        /\ ~ProposeLoad(h) /\ ~ProposeSave(h) /\ ~DecideSave(h)
    BY AsideEffect DEF Aside
  <2>9. ~ApplyLoad(h) /\ ~ApplySave(h) /\ ~ApplyProject(h)
    BY ApplyEffect, IdleFields
  <2>10. ~BuildFails(h) /\ ~RefuseRun(h)
    BY WorkEffect, IdleFields DEF BuildFails, RefuseRun, At
  <2> QED
    BY <2>1, <2>2, <2>3, <2>4, <2>5, <2>6, <2>7, <2>8, <2>9, <2>10 DEF Serve
<1>2. serving[h].pc = "work" /\ ~CancelPending(Own(h), serving[h].rid)
  BY <1>1 DEF Poll, At
<1>3. Live(h)
  BY <1>2 DEF CancelInv, Marked, CancelPending, Turning
<1>4. serving'[h] = [serving[h] EXCEPT !.pc = "begin"]
  BY <1>0, <1>1, GotoEffect DEF Poll
<1>5. serving'[h].rid = serving[h].rid
  BY <1>0, <1>4 DEF Held
<1> QED
  BY <1>3, <1>5 DEF Live

(* Where every handler runs in one process (an API server and no CLI       *)
(* beside it), a poll passes only while the run's file says RUNNING, and a  *)
(* task begins only in a turn whose poll has passed: cancel_run's answer   *)
(* is final for every turn but the one that has polled already.            *)
THEOREM CancelledRunsStop == OneProcess => (Spec => CancelStopsWork)
<1> SUFFICES ASSUME OneProcess PROVE Spec => CancelStopsWork
  OBVIOUS
<1>1. RunsInv /\ CancelInv /\ [Next]_vars => CancelInv'
  BY NextKeepsCancelInv
<1>2. RunsInv /\ CancelInv /\ [Next]_vars
        => [/\ \A h \in Handlers :
                  serving[h].pc # "begin" /\ serving'[h].pc = "begin" =>
                      runs[serving'[h].rid].status = "RUNNING"
            /\ \A r \in Runs :
                  worked'[r] > worked[r] =>
                      \E h \in Handlers : serving[h].pc = "begin"
                                          /\ serving[h].rid = r]_vars
  BY PollsOnRunning, TasksBeginInTurns
<1>3. Init => CancelInv
  BY InitCancelInv
<1>4. Spec => []RunsInv
  BY RunsInvariance
<1> QED
  BY <1>1, <1>2, <1>3, <1>4, PTL DEF Spec, CancelStopsWork

LEMMA NextKeepsAside ==
    ASSUME RunsInv, NEW D, OnlyDrivenBy(D), BystandersAside(D), [Next]_vars
    PROVE  BystandersAside(D)'
<1> SUFFICES ASSUME NEW g \in Handlers \ D
             PROVE  serving'[g].pc \in Aside
  BY DEF BystandersAside
<1>0. serving[g].pc \in Aside
  BY DEF BystandersAside
<1>1. CASE UNCHANGED vars
  BY <1>0, <1>1 DEF vars
<1>2. ASSUME NEW p \in Procs, Crash(p) PROVE serving'[g].pc \in Aside
  BY <1>0, <1>2, CrashEffect, IdleFields DEF Aside
<1>3. ASSUME NEW h \in Handlers, Request(h) \/ Serve(h)
      PROVE  serving'[g].pc \in Aside
  <2>1. CASE h = g
    BY <1>0, <1>3, <2>1, BystanderStep DEF OnlyDrivenBy
  <2>2. CASE h # g
    BY <1>0, <1>3, <2>2, OneMoves DEF OthersStay
  <2> QED
    BY <2>1, <2>2
<1> QED
  BY <1>1, <1>2, <1>3 DEF Next

-----------------------------------------------------------------------------
(* One driver *)

(* Where a call holds a copy of the project record that it goes on from,   *)
(* and will save.                                                          *)
Carrying == {"transitSave", "refSave", "start", "work", "begin", "record",
             "raise", "unwind", "note", "applyLoad", "applySave", "applyProject"}

(* Nobody writes the record between a load and a save of the driver d.     *)
CopyIsCurrent(d) ==
    serving[d].pc \in Carrying => serving[d].proj = project

OneDriverInv(d) == BystandersAside({d}) /\ CopyIsCurrent(d)

(* What the driver's own steps do to its copy and to the project's status. *)
LEMMA DriverStep ==
    ASSUME RunsInv, NEW d \in Handlers, CopyIsCurrent(d), Request(d) \/ Serve(d)
    PROVE  /\ CopyIsCurrent(d)'
           /\ \/ project'.status = project.status
              \/ /\ project'.status \in Transitions[project.status]
                 /\ TransitSave(d)
<1> DEFINE x == serving[d]
           y == serving'[d]
<1>0. Idle.pc \notin Carrying
  BY IdleFields DEF Carrying
<1>1. CASE Request(d)
  BY <1>1, RequestEffect DEF CopyIsCurrent, Carrying
<1>2. CASE TransitLoad(d)
  BY <1>0, <1>2, TransitLoadEffect DEF CopyIsCurrent
<1>3. CASE TransitSave(d)
  <2>1. x.proj = project
    BY <1>3, TransitSaveEffect DEF CopyIsCurrent, Carrying
  <2> QED
    BY <1>0, <1>3, <2>1, TransitSaveEffect DEF CopyIsCurrent
<1>4. CASE Draft(d) \/ RefLoad(d) \/ RefSave(d)
  BY <1>0, <1>4, PlanningEffect DEF CopyIsCurrent, Carrying
<1>5. CASE AdmitRun(d)
  BY <1>5, AdmitEffect DEF CopyIsCurrent, Carrying
<1>6. CASE RefuseRun(d) \/ BuildFails(d) \/ Poll(d) \/ BeginTask(d) \/ EndWork(d)
  BY <1>0, <1>6, WorkEffect DEF CopyIsCurrent, Carrying
<1>7. CASE Record(d)
  BY <1>7, RecordEffect DEF CopyIsCurrent, Carrying
<1>8. CASE NoteRun(d)
  BY <1>8, NoteEffect DEF CopyIsCurrent, Carrying
<1>9. CASE CompleteRun(d)
  BY <1>9, CompleteEffect DEF CopyIsCurrent, Carrying
<1>10. CASE Unwind(d)
  BY <1>0, <1>10, UnwindEffect DEF CopyIsCurrent, Carrying
<1>11. CASE \/ CancelLoad(d) \/ CancelSave(d)
            \/ ProposeLoad(d) \/ ProposeSave(d) \/ DecideSave(d)
  BY <1>11, AsideEffect DEF CopyIsCurrent, Carrying, Aside
<1>12. CASE ApplyLoad(d) \/ ApplySave(d) \/ ApplyProject(d)
  BY <1>0, <1>12, ApplyEffect DEF CopyIsCurrent, Carrying
<1> QED
  BY <1>1, <1>2, <1>3, <1>4, <1>5, <1>6, <1>7, <1>8, <1>9, <1>10, <1>11,
     <1>12 DEF Serve

LEMMA InitOneDriver == ASSUME Init, NEW d \in Handlers PROVE OneDriverInv(d)
<1>1. serving[d].pc = "idle"
  BY IdleFields DEF Init
<1> QED
  BY <1>1, InitAside DEF OneDriverInv, CopyIsCurrent, Carrying

LEMMA NextKeepsOneDriver ==
    ASSUME RunsInv, NEW d \in Handlers, OnlyDrivenBy({d}), OneDriverInv(d),
           [Next]_vars
    PROVE  /\ OneDriverInv(d)'
           /\ \/ project'.status = project.status
              \/ project'.status \in Transitions[project.status]
<1>0. BystandersAside({d})' /\ CopyIsCurrent(d)
  BY NextKeepsAside DEF OneDriverInv
<1>1. SUFFICES /\ CopyIsCurrent(d)'
               /\ \/ project'.status = project.status
                  \/ project'.status \in Transitions[project.status]
  BY <1>0 DEF OneDriverInv
<1>2. CASE UNCHANGED vars
  BY <1>0, <1>2 DEF vars, CopyIsCurrent
<1>3. ASSUME NEW p \in Procs, Crash(p)
      PROVE  CopyIsCurrent(d)' /\ project'.status = project.status
  BY <1>0, <1>3, CrashEffect, IdleFields DEF CopyIsCurrent, Carrying
<1>4. ASSUME NEW h \in Handlers \ {d}, Request(h) \/ Serve(h)
      PROVE  CopyIsCurrent(d)' /\ project'.status = project.status
  <2>1. UNCHANGED project /\ OthersStay(h)
    BY <1>4, BystanderStep DEF OneDriverInv, BystandersAside, OnlyDrivenBy
  <2> QED
    BY <1>0, <2>1 DEF CopyIsCurrent, OthersStay
<1> QED
  BY <1>0, <1>2, <1>3, <1>4, DriverStep DEF Next

(* With one driver, whose copies of the record are never stale, COMPLETED  *)
(* and FAILED are final, whatever it calls, whatever the bystanders of any *)
(* process do meanwhile, and wherever a process dies.                      *)
THEOREM FinalStatesHold ==
    (\E d \in Handlers : OnlyDrivenBy({d})) => (Spec => FinalIsFinal)
<1> SUFFICES ASSUME NEW d \in Handlers, OnlyDrivenBy({d})
             PROVE  Spec => FinalIsFinal
  OBVIOUS
<1>1. RunsInv /\ OneDriverInv(d) /\ [Next]_vars => OneDriverInv(d)'
  BY NextKeepsOneDriver
<1>2. RunsInv /\ OneDriverInv(d) /\ [Next]_vars
        => [project.status \in {"COMPLETED", "FAILED"}
              => project'.status = project.status]_vars
  BY NextKeepsOneDriver DEF Transitions
<1>3. Init => OneDriverInv(d)
  BY InitOneDriver
<1>4. Spec => []RunsInv
  BY RunsInvariance
<1> QED
  BY <1>1, <1>2, <1>3, <1>4, PTL DEF Spec, FinalIsFinal

(* Where a run is admitted, worked off and noted. *)
Underway == {"start", "work", "begin", "record", "raise", "unwind", "note"}

Earned(r) == r # NoRun /\ worked[r] = Tasks

(* From the start of a run to the choice of the last transition the        *)
(* project is EXECUTING; COMPLETED is claimed, by a call or by a run's     *)
(* file, only for a run that has worked off its tasks.                     *)
DriverEarns(d) ==
    LET x == serving[d]
    IN  /\ x.pc \in Underway \cup {"complete"} => project.status = "EXECUTING"
        /\ x.pc = "complete" => project.last = x.rid
        /\ x.pc \in {"transit", "transitSave"} /\ x.goal = "COMPLETED" =>
              Earned(project.last)
        /\ x.pc \in {"record", "raise"} /\ x.file.status = "COMPLETED" =>
              Earned(x.rid)

FilesEarned == \A r \in Runs : runs[r].status = "COMPLETED" => Earned(r)

EarnedInv(d) ==
    OneDriverInv(d) /\ DriverEarns(d) /\ FilesEarned /\ CompletedWasEarned

LEMMA InitEarned == ASSUME Init, NEW d \in Handlers PROVE EarnedInv(d)
<1>1. serving[d].pc = "idle"
  BY IdleFields DEF Init
<1>2. FilesEarned /\ CompletedWasEarned
  BY DEF Init, FilesEarned, CompletedWasEarned, NewProject, Absent
<1> QED
  BY <1>1, <1>2, InitOneDriver DEF EarnedInv, DriverEarns, Underway

(* Work done stays done, and a file that says COMPLETED already did, or is *)
(* written by the driver at the end of a run that earned it.               *)
LEMMA WorkIsKept ==
    ASSUME RunsInv, NEW h \in Handlers, Request(h) \/ Serve(h), NEW r,
           Earned(r), r \in Runs \cup {NoRun}
    PROVE  Earned(r)'
<1>1. \A q \in Runs : worked[q] = Tasks => worked'[q] = Tasks
  BY RequestEffect, TransitLoadEffect, TransitSaveEffect, PlanningEffect,
     AdmitEffect, WorkEffect, RecordEffect, NoteEffect, CompleteEffect,
     UnwindEffect, AsideEffect, ApplyEffect DEF Serve
<1> QED
  BY <1>1 DEF Earned

LEMMA DriverKeepsFilesEarned ==
    ASSUME RunsInv, NEW d \in Handlers, EarnedInv(d), Request(d) \/ Serve(d)
    PROVE  FilesEarned'
<1> SUFFICES ASSUME NEW r \in Runs, runs'[r].status = "COMPLETED"
             PROVE  Earned(r)'
  BY DEF FilesEarned
<1>1. CASE runs[r].status = "COMPLETED"
  BY <1>1, WorkIsKept DEF EarnedInv, FilesEarned
<1>2. CASE runs[r].status # "COMPLETED"
  <2>1. Record(d)
    BY <1>2, RequestEffect, TransitLoadEffect, TransitSaveEffect,
       PlanningEffect, AdmitEffect, WorkEffect, NoteEffect, CompleteEffect,
       UnwindEffect, AsideEffect, ApplyEffect DEF Serve, StatusesStay
  <2>2. r = serving[d].rid /\ serving[d].file.status = "COMPLETED"
        /\ serving[d].pc \in {"record", "raise"}
    BY <1>2, <2>1, RecordEffect
  <2>3. Earned(r)
    BY <2>2 DEF EarnedInv, DriverEarns
  <2> QED
    BY <2>3, WorkIsKept
<1> QED
  BY <1>1, <1>2

(* COMPLETED is reached by a transition to it, and a COMPLETED project     *)
(* keeps the run it names.                                                 *)
LEMMA DriverKeepsCompleted ==
    ASSUME RunsInv, NEW d \in Handlers, EarnedInv(d), Request(d) \/ Serve(d)
    PROVE  CompletedWasEarned'
<1> SUFFICES ASSUME project'.status = "COMPLETED"
             PROVE  Earned(project.last)'
  BY DEF CompletedWasEarned, Earned
<1> DEFINE x == serving[d]
<1>0. /\ CopyIsCurrent(d) /\ DriverEarns(d)
      /\ project.last \in Runs \cup {NoRun}
      /\ project.status = "COMPLETED" => Earned(project.last)
  BY DEF EarnedInv, OneDriverInv, RunsInv, TypeOK, Projects,
         CompletedWasEarned, Earned
<1>1. CASE TransitSave(d)
  <2>1. x.proj = project /\ x.pc = "transitSave" /\ x.goal = "COMPLETED"
    BY <1>0, <1>1, TransitSaveEffect DEF CopyIsCurrent, Carrying
  <2>2. Earned(project.last)
    BY <1>0, <2>1 DEF DriverEarns
  <2>3. project'.last = project.last
    BY <1>1, <2>1, TransitSaveEffect
  <2> QED
    BY <1>0, <2>2, <2>3, WorkIsKept DEF Earned
<1>2. CASE ~TransitSave(d)
  <2>1. project.status = "COMPLETED"
    BY <1>0, <1>2, DriverStep
  <2>2. x.pc \notin Underway
    BY <1>0, <2>1 DEF DriverEarns
  <2>3. project'.last = project.last
    <3>1. CASE RefSave(d)
      BY <1>0, <3>1, PlanningEffect DEF CopyIsCurrent, Carrying
    <3>2. CASE ApplyLoad(d) \/ ApplySave(d) \/ ApplyProject(d)
      BY <1>0, <3>2, ApplyEffect DEF CopyIsCurrent, Carrying
    <3>3. CASE ~(RefSave(d) \/ ApplyLoad(d) \/ ApplySave(d) \/ ApplyProject(d))
      BY <1>2, <2>2, <3>3, RequestEffect, TransitLoadEffect, AdmitEffect,
         WorkEffect, RecordEffect, NoteEffect, CompleteEffect, UnwindEffect,
         AsideEffect DEF Serve, Draft, RefLoad, Underway
    <3> QED
      BY <3>1, <3>2, <3>3
  <2>4. Earned(project.last)
    BY <1>0, <2>1
  <2> QED
    BY <1>0, <2>3, <2>4, WorkIsKept DEF Earned
<1> QED
  BY <1>1, <1>2

LEMMA DriverKeepsEarning ==
    ASSUME RunsInv, NEW d \in Handlers, EarnedInv(d),
           "transition" \notin MayCall[d], Request(d) \/ Serve(d)
    PROVE  DriverEarns(d)'
<1> DEFINE x == serving[d]
           y == serving'[d]
<1>0. /\ CopyIsCurrent(d) /\ DriverEarns(d) /\ FilesEarned /\ HandlerOK(d)
      /\ project.last \in Runs \cup {NoRun} /\ x.rid \in Runs \cup {NoRun}
      /\ \A r \in Runs \cup {NoRun} : Earned(r) => Earned(r)'
  BY WorkIsKept
     DEF EarnedInv, OneDriverInv, RunsInv, TypeOK, Projects, Held
<1>1. ASSUME y.pc \notin Underway \cup {"complete", "transit", "transitSave"}
      PROVE  DriverEarns(d)'
  BY <1>1 DEF DriverEarns, Underway
<1>2. ASSUME y.pc = "transit", y.goal # "COMPLETED"
      PROVE  DriverEarns(d)'
  BY <1>2 DEF DriverEarns, Underway
<1>3. Idle.pc \notin Underway \cup {"complete", "transit", "transitSave"}
  BY IdleFields DEF Underway
<1>4. CASE Request(d)
  BY <1>1, <1>2, <1>4, RequestEffect DEF Underway
<1>5. CASE TransitLoad(d)
  <2>1. CASE y = Idle
    BY <1>1, <1>3, <2>1
  <2>2. CASE y # Idle
    <3>1. /\ y.pc = "transitSave" /\ y.goal = x.goal /\ x.pc = "transit"
          /\ UNCHANGED project
      BY <1>5, <2>2, TransitLoadEffect
    <3>2. y.goal = "COMPLETED" => Earned(project.last)'
      BY <1>0, <3>1 DEF DriverEarns, Earned
    <3> QED
      BY <3>1, <3>2 DEF DriverEarns, Underway
  <2> QED
    BY <2>1, <2>2
<1>6. CASE TransitSave(d)
  <2>1. y = Idle \/ y.pc = "draft"
        \/ (y.pc = "start" /\ project'.status = "EXECUTING")
    BY <1>6, TransitSaveEffect
  <2>2. CASE y.pc = "start"
    BY <1>3, <2>1, <2>2, IdleFields DEF DriverEarns
  <2> QED
    BY <1>1, <1>3, <2>1, <2>2 DEF Underway
<1>7. CASE Draft(d) \/ RefLoad(d) \/ RefSave(d)
  BY <1>1, <1>2, <1>3, <1>7, PlanningEffect DEF Underway
<1>8. CASE AdmitRun(d)
  <2>1. x.pc = "start" /\ y.pc = "work" /\ UNCHANGED project
    BY <1>8, AdmitEffect
  <2> QED
    BY <1>0, <2>1 DEF DriverEarns, Underway
<1>9. CASE RefuseRun(d) \/ BuildFails(d) \/ Poll(d) \/ BeginTask(d) \/ EndWork(d)
  <2>1. CASE y = Idle
    BY <1>1, <1>3, <2>1
  <2>2. CASE y # Idle
    <3>1. /\ UNCHANGED project /\ x.pc \in Underway
          /\ y.pc \in {"unwind", "work", "begin", "record", "raise"}
          /\ y.rid = x.rid
          /\ y.pc \in {"record", "raise"} => x.pc = "work"
                /\ (y.file.status = "COMPLETED" => worked'[x.rid] = Tasks)
      BY <1>9, <2>2, WorkEffect DEF Underway
    <3>2. x.pc = "work" => x.rid # NoRun
      BY <1>0 DEF HandlerOK, OnRun, Existing
    <3> QED
      BY <1>0, <3>1, <3>2 DEF DriverEarns, Underway, Earned
  <2> QED
    BY <2>1, <2>2
<1>10. CASE Record(d)
  <2>1. /\ x.pc \in {"record", "raise"} /\ y.pc \in {"note", "unwind"}
        /\ UNCHANGED project
    BY <1>10, RecordEffect
  <2> QED
    BY <1>0, <2>1 DEF DriverEarns, Underway
<1>11. CASE NoteRun(d)
  <2>1. /\ x.pc = "note" /\ y.pc = "complete" /\ y.rid = x.rid
        /\ project'.status = project.status /\ project'.last = x.rid
    BY <1>0, <1>11, NoteEffect DEF CopyIsCurrent, Carrying
  <2> QED
    BY <1>0, <2>1 DEF DriverEarns, Underway
<1>12. CASE CompleteRun(d)
  <2>1. /\ x.pc = "complete" /\ x.rid \in Runs /\ UNCHANGED project
        /\ y.pc = "transit"
        /\ y.goal = "COMPLETED" => runs[x.rid].status = "COMPLETED"
    BY <1>12, CompleteEffect
  <2>2. project.last = x.rid
    BY <1>0, <2>1 DEF DriverEarns
  <2>3. y.goal = "COMPLETED" => Earned(project.last)'
    BY <1>0, <2>1, <2>2 DEF FilesEarned, Earned
  <2> QED
    BY <2>1, <2>3 DEF DriverEarns, Underway
<1>13. CASE Unwind(d)
  BY <1>1, <1>2, <1>3, <1>13, UnwindEffect
<1>14. CASE \/ CancelLoad(d) \/ CancelSave(d)
            \/ ProposeLoad(d) \/ ProposeSave(d) \/ DecideSave(d)
  BY <1>1, <1>14, AsideEffect DEF Aside, Underway
<1>15. CASE ApplyLoad(d) \/ ApplySave(d) \/ ApplyProject(d)
  BY <1>1, <1>3, <1>15, ApplyEffect DEF Underway
<1> QED
  BY <1>4, <1>5, <1>6, <1>7, <1>8, <1>9, <1>10, <1>11, <1>12, <1>13, <1>14,
     <1>15 DEF Serve

LEMMA NextKeepsEarned ==
    ASSUME RunsInv, NEW d \in Handlers, OnlyDrivenBy({d}),
           "transition" \notin MayCall[d], EarnedInv(d), [Next]_vars
    PROVE  EarnedInv(d)'
<1>0. OneDriverInv(d)'
  BY NextKeepsOneDriver DEF EarnedInv
<1>1. SUFFICES DriverEarns(d)' /\ FilesEarned' /\ CompletedWasEarned'
  BY <1>0 DEF EarnedInv
<1>2. CASE UNCHANGED vars
  BY <1>2 DEF vars, EarnedInv, DriverEarns, FilesEarned, CompletedWasEarned,
              Earned
<1>3. ASSUME NEW p \in Procs, Crash(p)
      PROVE  DriverEarns(d)' /\ FilesEarned' /\ CompletedWasEarned'
  <2>1. UNCHANGED <<project, runs, worked>>
    BY <1>3, CrashEffect
  <2>2. FilesEarned' /\ CompletedWasEarned'
    BY <2>1 DEF EarnedInv, FilesEarned, CompletedWasEarned, Earned
  <2>3. DriverEarns(d)'
    BY <1>3, <2>1, CrashEffect, IdleFields
       DEF EarnedInv, DriverEarns, Earned, Underway
  <2> QED
    BY <2>2, <2>3
<1>4. ASSUME NEW h \in Handlers \ {d}, Request(h) \/ Serve(h)
      PROVE  DriverEarns(d)' /\ FilesEarned' /\ CompletedWasEarned'
  <2>1. /\ UNCHANGED <<project, worked>> /\ serving'[d] = serving[d]
        /\ \A r \in Runs : runs'[r].status \in {runs[r].status, "BLOCKED"}
    BY <1>4, BystanderStep
       DEF EarnedInv, OneDriverInv, BystandersAside, OnlyDrivenBy, OthersStay
  <2>2. FilesEarned' /\ CompletedWasEarned'
    BY <2>1 DEF EarnedInv, FilesEarned, CompletedWasEarned, Earned
  <2>3. DriverEarns(d)'
    BY <2>1 DEF EarnedInv, DriverEarns, Earned
  <2> QED
    BY <2>2, <2>3
<1>5. ASSUME Request(d) \/ Serve(d)
      PROVE  DriverEarns(d)' /\ FilesEarned' /\ CompletedWasEarned'
  BY <1>5, DriverKeepsEarning, DriverKeepsFilesEarned, DriverKeepsCompleted
<1> QED
  BY <1>2, <1>3, <1>4, <1>5 DEF Next

(* With one driver that does not claim the end by the transition endpoint  *)
(* (routes.py:84), a COMPLETED project names a run that has worked off    *)
(* every task, whatever is cancelled, proposed or decided meanwhile.       *)
THEOREM CompletionIsEarned ==
    (\E d \in Handlers : OnlyDrivenBy({d}) /\ "transition" \notin MayCall[d])
        => (Spec => []CompletedWasEarned)
<1> SUFFICES ASSUME NEW d \in Handlers, OnlyDrivenBy({d}),
                    "transition" \notin MayCall[d]
             PROVE  Spec => []CompletedWasEarned
  OBVIOUS
<1>1. RunsInv /\ EarnedInv(d) /\ [Next]_vars => EarnedInv(d)'
  BY NextKeepsEarned
<1>2. Init => EarnedInv(d)
  BY InitEarned
<1>3. EarnedInv(d) => CompletedWasEarned
  BY DEF EarnedInv
<1>4. Spec => []RunsInv
  BY RunsInvariance
<1> QED
  BY <1>1, <1>2, <1>3, <1>4, PTL DEF Spec

-----------------------------------------------------------------------------
(* Two drivers in one process *)

Working(w, r) ==
    serving[w].pc \in Executing /\ serving[w].rid = r

(* What is left to a driver once the project has FAILED. *)
Spent(h) ==
    LET x == serving[h]
    IN  /\ x.pc \in Aside \cup {"transit", "applyLoad", "applySave",
                                "applyProject"}
        /\ x.pc \in {"applyLoad", "applySave", "applyProject"} =>
              x.proj.status = "FAILED"

(* A driver that was refused a run, on its way to fail the project. *)
Failing(o) ==
    LET x == serving[o]
    IN  /\ x.pc \in {"transit", "transitSave"}
        /\ x.goal = "FAILED" /\ x.call # "plan"

(* The process has dropped the run that w works on: the driver that made it *)
(* do so fails the project, and no other is left that could start one.     *)
Dropped(w) ==
    \/ project.status = "FAILED" /\ \A h \in Handlers \ {w} : Spent(h)
    \/ /\ project.status = "EXECUTING"
       /\ \E o \in Handlers \ {w} :
            Failing(o) /\ \A h \in Handlers \ {w, o} : serving[h].pc \in Aside

(* A RUNNING run is somebody's work, and the process knows it as active or *)
(* has dropped it.                                                         *)
RunIsGuarded(r) ==
    \E w \in Handlers :
        Working(w, r) /\ (active[Own(w)] = r \/ Dropped(w))

RunsAreGuarded ==
    /\ \A r \in Runs : runs[r].status = "RUNNING" => RunIsGuarded(r)
    /\ OneActiveRun

StartsExecuting ==
    \A h \in Handlers :
        serving[h].pc \in Underway =>
            /\ serving[h].proj.status = "EXECUTING"
            /\ serving[h].call \in {"execute", "resume"}

TwoDriversInv(a, b) ==
    /\ BystandersAside({a, b})
    /\ StartsExecuting
    /\ crashes = MaxCrashes => RunsAreGuarded

LEMMA StepKeepsStarts ==
    ASSUME RunsInv, StartsExecuting, NEW h \in Handlers, Request(h) \/ Serve(h)
    PROVE  StartsExecuting'
<1> DEFINE x == serving[h]
           y == serving'[h]
<1>1. OthersStay(h)
  BY OneMoves
<1>2. SUFFICES y.pc \in Underway =>
                  y.proj.status = "EXECUTING" /\ y.call \in {"execute", "resume"}
  BY <1>1 DEF StartsExecuting, OthersStay
<1>3. Idle.pc \notin Underway
  BY IdleFields DEF Underway
<1>4. CASE TransitSave(h)
  BY <1>3, <1>4, TransitSaveEffect DEF Underway
<1>5. CASE AdmitRun(h)
  <2>1. y.call = x.call
    <3>1. PICK r : Hold(h, [x EXCEPT !.pc = "work", !.rid = r])
      BY <1>5 DEF AdmitRun
    <3>2. y = [x EXCEPT !.pc = "work", !.rid = r]
      BY <3>1, HoldEffect DEF RunsInv
    <3> QED
      BY <3>2 DEF RunsInv, TypeOK, Held
  <2> QED
    BY <1>5, <2>1, AdmitEffect DEF StartsExecuting, Underway
<1>6. CASE RefuseRun(h) \/ BuildFails(h) \/ Poll(h) \/ BeginTask(h) \/ EndWork(h)
  BY <1>3, <1>6, WorkEffect DEF StartsExecuting, Underway
<1>7. CASE Record(h)
  BY <1>7, RecordEffect DEF StartsExecuting, Underway
<1>8. CASE ~(\/ TransitSave(h) \/ AdmitRun(h) \/ RefuseRun(h)
             \/ BuildFails(h) \/ Poll(h) \/ BeginTask(h) \/ EndWork(h)
             \/ Record(h))
  BY <1>3, <1>8, RequestEffect, TransitLoadEffect, PlanningEffect, NoteEffect,
     CompleteEffect, UnwindEffect, AsideEffect, ApplyEffect
     DEF Serve, Underway, Aside
<1> QED
  BY <1>4, <1>5, <1>6, <1>7, <1>8

(* Who works on a run goes on with it until its file is not RUNNING.       *)
LEMMA WorkerGoesOn ==
    ASSUME RunsInv, NEW w \in Handlers, NEW r \in Runs, Working(w, r),
           Request(w) \/ Serve(w)
    PROVE  /\ UNCHANGED <<project, active>> /\ OthersStay(w)
           /\ Working(w, r)' \/ runs'[r].status # "RUNNING"
<1> DEFINE x == serving[w]
<1>0. x.pc \in Executing /\ x.rid = r
  BY DEF Working
<1>1. Poll(w) \/ BeginTask(w) \/ EndWork(w) \/ Record(w)
  BY <1>0, RequestEffect, TransitLoadEffect, TransitSaveEffect,
     PlanningEffect, AdmitEffect, WorkEffect, NoteEffect, CompleteEffect,
     UnwindEffect, AsideEffect, ApplyEffect
     DEF Serve, Aside, RefuseRun, BuildFails, At
<1>2. CASE Poll(w) \/ BeginTask(w) \/ EndWork(w)
  BY <1>0, <1>2, WorkEffect, IdleFields DEF Working
<1>3. CASE Record(w)
  BY <1>0, <1>3, RecordEffect DEF RunEnd
<1> QED
  BY <1>1, <1>2, <1>3

(* Once a run has been dropped it stays so: the project ends as FAILED.    *)
LEMMA DroppedStays ==
    ASSUME RunsInv, NEW a, NEW b, OnlyDrivenBy({a, b}),
           BystandersAside({a, b}),
           NEW w \in Handlers, NEW r, Working(w, r), Dropped(w),
           NEW h \in Handlers \ {w}, Request(h) \/ Serve(h)
    PROVE  Dropped(w)'
<1> DEFINE x == serving[h]
           y == serving'[h]
<1>0. OthersStay(h)
  BY OneMoves
<1>1. CASE project.status = "FAILED" /\ \A g \in Handlers \ {w} : Spent(g)
  <2>1. Spent(h)
    BY <1>1
  <2>2. SUFFICES project'.status = "FAILED" /\ Spent(h)'
    BY <1>0, <1>1 DEF Dropped, OthersStay, Spent
  <2>3. Idle.pc \in Aside
    BY IdleFields DEF Aside
  <2>4. ASSUME y.pc \in Aside \cup {"transit"} PROVE Spent(h)'
    BY <2>4 DEF Spent, Aside
  <2>5. CASE Request(h)
    BY <1>1, <2>4, <2>5, RequestEffect DEF Spent, Aside
  <2>6. CASE TransitLoad(h)
    BY <1>1, <2>3, <2>4, <2>6, TransitLoadEffect DEF Transitions
  <2>7. CASE ApplyLoad(h) \/ ApplySave(h) \/ ApplyProject(h)
    BY <1>1, <2>1, <2>3, <2>4, <2>7, ApplyEffect DEF Spent
  <2>8. CASE \/ CancelLoad(h) \/ CancelSave(h)
             \/ ProposeLoad(h) \/ ProposeSave(h) \/ DecideSave(h)
    BY <1>1, <2>4, <2>8, AsideEffect
  <2> QED
    BY <2>1, <2>5, <2>6, <2>7, <2>8, TransitSaveEffect, PlanningEffect,
       AdmitEffect, WorkEffect, RecordEffect, NoteEffect, CompleteEffect,
       UnwindEffect DEF Serve, Spent, Aside
<1>2. CASE /\ project.status = "EXECUTING"
           /\ \E o \in Handlers \ {w} :
                Failing(o) /\ \A g \in Handlers \ {w, o} : serving[g].pc \in Aside
  <2>1. PICK o \in Handlers \ {w} :
          Failing(o) /\ \A g \in Handlers \ {w, o} : serving[g].pc \in Aside
    BY <1>2
  <2>2. o \in {a, b} /\ w \in {a, b}
    BY <2>1 DEF BystandersAside, Failing, Working, Aside
  <2>3. CASE h # o
    <3>1. UNCHANGED project /\ y.pc \in Aside
      BY <2>1, <2>2, <2>3, BystanderStep DEF OnlyDrivenBy
    <3>2. Failing(o)'
      BY <1>0, <2>1, <2>3 DEF OthersStay, Failing
    <3> QED
      BY <1>0, <1>2, <2>1, <3>1, <3>2 DEF Dropped, OthersStay
  <2>4. CASE h = o
    <3>1. x.pc \in {"transit", "transitSave"} /\ x.goal = "FAILED"
          /\ x.call # "plan"
      BY <2>1, <2>4 DEF Failing
    <3>2. \A g \in Handlers \ {w, o} : serving'[g].pc \in Aside
      BY <1>0, <2>1, <2>4 DEF OthersStay
    <3>3. TransitLoad(o) \/ TransitSave(o)
      BY <2>4, <3>1, RequestEffect, PlanningEffect, AdmitEffect, WorkEffect,
         RecordEffect, NoteEffect, CompleteEffect, UnwindEffect, AsideEffect,
         ApplyEffect DEF Serve, Aside
    <3>4. CASE TransitLoad(o)
      <4>1. CanTransition(project.status, x.goal)
        BY <1>2, <3>1 DEF CanTransition, Transitions
      <4>2. y # Idle
        <5>1. Hold(o, [x EXCEPT !.pc = "transitSave", !.proj = project])
          BY <2>4, <3>4, <4>1 DEF TransitLoad
        <5>2. y = [x EXCEPT !.pc = "transitSave", !.proj = project]
          BY <2>4, <5>1, HoldEffect DEF RunsInv
        <5>3. y.pc = "transitSave"
          BY <2>4, <5>2 DEF RunsInv, TypeOK, Held
        <5> QED
          BY <5>3, IdleFields
      <4>3. UNCHANGED project /\ Failing(o)'
        BY <2>4, <3>1, <3>4, <4>2, TransitLoadEffect DEF Failing
      <4> QED
        BY <1>2, <3>2, <4>3 DEF Dropped
    <3>5. CASE TransitSave(o)
      <4>1. project'.status = "FAILED" /\ y = Idle
        BY <2>4, <3>1, <3>5, TransitSaveEffect
      <4>2. \A g \in Handlers \ {w} : Spent(g)'
        BY <2>4, <3>2, <4>1, IdleFields DEF Spent, Aside
      <4> QED
        BY <4>1, <4>2 DEF Dropped
    <3> QED
      BY <3>3, <3>4, <3>5
  <2> QED
    BY <2>3, <2>4
<1> QED
  BY <1>1, <1>2 DEF Dropped

(* The process stops knowing a RUNNING run only when it refuses a driver   *)
(* another run, and the driver unwinds.                                    *)
LEMMA ActiveIsKept ==
    ASSUME OneProcess, RunsInv, NEW h \in Handlers, ~Unwind(h), ~AdmitRun(h),
           Request(h) \/ Serve(h), NEW w \in Handlers,
           NEW r \in Runs, runs'[r].status = "RUNNING", active[Own(w)] = r
    PROVE  active'[Own(w)] = r
<1>0. Own(w) = Own(h) /\ Own(h) \in Procs /\ active \in [Procs -> Runs \cup {NoRun}]
  BY DEF OneProcess, Own, RunsInv, TypeOK
<1>1. CASE CompleteRun(h)
  <2>1. r # serving[h].rid
    BY <1>1, CompleteEffect DEF StatusesStay, RunEnd
  <2> QED
    BY <1>0, <1>1, <2>1, CompleteEffect DEF Forget
<1>2. CASE \/ CancelLoad(h) \/ CancelSave(h)
           \/ ProposeLoad(h) \/ ProposeSave(h) \/ DecideSave(h)
  <2>1. UNCHANGED active \/ (r # serving[h].rid
                             /\ active' = Forget(Own(h), serving[h].rid))
    BY <1>2, AsideEffect
  <2> QED
    BY <1>0, <2>1 DEF Forget
<1> QED
  BY <1>1, <1>2, RequestEffect, TransitLoadEffect, TransitSaveEffect,
     PlanningEffect, WorkEffect, RecordEffect, NoteEffect, ApplyEffect
     DEF Serve

(* A RUNNING run was RUNNING before, or has just been admitted.            *)
LEMMA OnlyAdmitted ==
    ASSUME RunsInv, NEW h \in Handlers, ~AdmitRun(h), Request(h) \/ Serve(h),
           NEW r \in Runs, runs'[r].status = "RUNNING"
    PROVE  runs[r].status = "RUNNING"
<1>1. CASE Record(h)
  BY <1>1, RecordEffect DEF RunEnd
<1> QED
  BY <1>1, RequestEffect, TransitLoadEffect, TransitSaveEffect,
     PlanningEffect, WorkEffect, NoteEffect, CompleteEffect, UnwindEffect,
     AsideEffect, ApplyEffect DEF Serve, StatusesStay

LEMMA GuardIsKept ==
    ASSUME OneProcess, RunsInv, NEW a, NEW b, OnlyDrivenBy({a, b}),
           BystandersAside({a, b}), StartsExecuting, RunsAreGuarded,
           NEW h \in Handlers, ~AdmitRun(h), Request(h) \/ Serve(h),
           NEW r \in Runs, runs'[r].status = "RUNNING"
    PROVE  RunIsGuarded(r)'
<1> DEFINE x == serving[h]
           y == serving'[h]
<1>1. PICK w \in Handlers :
        Working(w, r) /\ (active[Own(w)] = r \/ Dropped(w))
  BY OnlyAdmitted DEF RunsAreGuarded, RunIsGuarded
<1>2. CASE h = w
  <2>1. UNCHANGED <<project, active>> /\ OthersStay(w) /\ Working(w, r)'
    BY <1>1, <1>2, WorkerGoesOn
  <2>2. Dropped(w) => Dropped(w)'
    BY <2>1 DEF Dropped, Spent, Failing, OthersStay
  <2> QED
    BY <1>1, <2>1, <2>2 DEF RunIsGuarded
<1>3. CASE h # w
  <2>1. OthersStay(h) /\ Working(w, r)'
    BY <1>1, <1>3, OneMoves DEF OthersStay, Working
  <2>2. CASE Dropped(w)
    BY <1>1, <1>3, <2>1, <2>2, DroppedStays DEF RunIsGuarded
  <2>3. CASE active[Own(w)] = r /\ ~Unwind(h)
    BY <2>1, <2>3, ActiveIsKept DEF RunIsGuarded
  <2>4. CASE active[Own(w)] = r /\ Unwind(h)
    <3>1. active[Own(h)] # NoRun
      BY <2>4 DEF OneProcess
    <3>2. /\ y.pc = "transit" /\ y.goal = "FAILED" /\ y.call = x.call
          /\ project'.status = x.proj.status /\ x.pc = "unwind"
      BY <2>4, <3>1, UnwindEffect
    <3>3. x.proj.status = "EXECUTING" /\ x.call # "plan"
      BY <3>2 DEF StartsExecuting, Underway
    <3>4. h \in {a, b} /\ w \in {a, b}
      BY <1>1, <3>2 DEF BystandersAside, Working, Aside
    <3>5. \A g \in Handlers \ {w, h} : serving'[g].pc \in Aside
      BY <1>3, <2>1, <3>4 DEF BystandersAside, OthersStay
    <3>6. Dropped(w)'
      BY <1>3, <3>2, <3>3, <3>5 DEF Dropped, Failing
    <3> QED
      BY <2>1, <3>6 DEF RunIsGuarded
  <2> QED
    BY <1>1, <2>2, <2>3, <2>4
<1> QED
  BY <1>2, <1>3

(* start_run admits a run only when no other is RUNNING: the process would *)
(* know it, and where it has dropped one nobody starts another.            *)
LEMMA AdmittedAlone ==
    ASSUME OneProcess, RunsInv, RunsAreGuarded, NEW h \in Handlers, AdmitRun(h)
    PROVE  RunsAreGuarded'
<1>1. ASSUME NEW q \in Runs, runs[q].status = "RUNNING"
      PROVE  FALSE
  <2>1. PICK w \in Handlers :
          Working(w, q) /\ (active[Own(w)] = q \/ Dropped(w))
    BY <1>1 DEF RunsAreGuarded, RunIsGuarded
  <2>2. serving[h].pc = "start" /\ ~Busy(Own(h)) /\ Own(w) = Own(h)
    BY AdmitEffect DEF OneProcess
  <2>3. active[Own(w)] # q
    BY <1>1, <2>2 DEF Busy
  <2>4. h # w /\ ~Spent(h) /\ ~Failing(h) /\ serving[h].pc \notin Aside
    BY <2>1, <2>2 DEF Working, Spent, Failing, Aside
  <2> QED
    BY <2>1, <2>3, <2>4 DEF Dropped
<1>2. PICK r \in Runs :
        /\ serving'[h].rid = r /\ serving'[h].pc = "work"
        /\ active' = [active EXCEPT ![Own(h)] = r]
        /\ \A q \in Runs : runs'[q].status = IF q = r THEN "RUNNING"
                                             ELSE runs[q].status
  BY AdmitEffect
<1>3. \A q \in Runs : runs'[q].status = "RUNNING" => q = r
  BY <1>1, <1>2
<1>4. active'[Own(h)] = r
  BY <1>2 DEF RunsInv, TypeOK, Own
<1>5. RunIsGuarded(r)'
  BY <1>2, <1>4 DEF RunIsGuarded, Working
<1> QED
  BY <1>3, <1>5 DEF RunsAreGuarded, OneActiveRun

LEMMA InitTwoDrivers == ASSUME Init, NEW a, NEW b PROVE TwoDriversInv(a, b)
<1>1. StartsExecuting
  BY IdleFields DEF Init, StartsExecuting, Underway
<1>2. \A r \in Runs : runs[r].status # "RUNNING"
  BY DEF Init, Absent
<1> QED
  BY <1>1, <1>2, InitAside DEF TwoDriversInv, RunsAreGuarded, OneActiveRun

LEMMA NextKeepsTwoDrivers ==
    ASSUME OneProcess, RunsInv, NEW a, NEW b, OnlyDrivenBy({a, b}),
           TwoDriversInv(a, b), [Next]_vars
    PROVE  TwoDriversInv(a, b)'
<1>0. BystandersAside({a, b})'
  BY NextKeepsAside DEF TwoDriversInv
<1>1. SUFFICES /\ StartsExecuting'
               /\ crashes' = MaxCrashes => RunsAreGuarded'
  BY <1>0 DEF TwoDriversInv
<1>2. CASE UNCHANGED vars
  BY <1>2 DEF vars, TwoDriversInv, StartsExecuting, RunsAreGuarded,
              RunIsGuarded, Working, Dropped, Spent, Failing, OneActiveRun
<1>3. ASSUME NEW p \in Procs, Crash(p)
      PROVE  StartsExecuting' /\ crashes' # MaxCrashes
  <2>1. StartsExecuting'
    BY <1>3, CrashEffect, IdleFields
       DEF TwoDriversInv, StartsExecuting, Underway
  <2> QED
    BY <1>3, <2>1, CrashEffect DEF RunsInv, TypeOK
<1>4. ASSUME NEW h \in Handlers, Request(h) \/ Serve(h)
      PROVE  StartsExecuting' /\ (crashes' = MaxCrashes => RunsAreGuarded')
  <2>1. StartsExecuting'
    BY <1>4, StepKeepsStarts DEF TwoDriversInv
  <2>2. UNCHANGED crashes
    BY <1>4, RequestEffect, TransitLoadEffect, TransitSaveEffect,
       PlanningEffect, AdmitEffect, WorkEffect, RecordEffect, NoteEffect,
       CompleteEffect, UnwindEffect, AsideEffect, ApplyEffect DEF Serve
  <2>3. ASSUME crashes = MaxCrashes PROVE RunsAreGuarded'
    <3>1. RunsAreGuarded
      BY <2>3 DEF TwoDriversInv
    <3>2. CASE AdmitRun(h)
      BY <3>1, <3>2, AdmittedAlone
    <3>3. CASE ~AdmitRun(h)
      <4>1. \A r \in Runs : runs'[r].status = "RUNNING" => RunIsGuarded(r)'
        BY <1>4, <3>1, <3>3, GuardIsKept DEF TwoDriversInv
      <4>2. OneActiveRun'
        BY <1>4, <3>1, <3>3, OnlyAdmitted DEF RunsAreGuarded, OneActiveRun
      <4> QED
        BY <4>1, <4>2 DEF RunsAreGuarded
    <3> QED
      BY <3>2, <3>3
  <2> QED
    BY <2>1, <2>2, <2>3
<1> QED
  BY <1>2, <1>3, <1>4 DEF Next

(* Two drivers that share a process keep the project to one active run     *)
(* until the process dies, whatever they call, whatever they have loaded   *)
(* before and save later, and however many others cancel and replan.       *)
THEOREM TwoDriversOneRun ==
    (OneProcess /\ \E a, b \in Handlers : OnlyDrivenBy({a, b}))
        => (Spec => []OneActiveRunUntilCrash)
<1> SUFFICES ASSUME OneProcess,
                    NEW a \in Handlers, NEW b \in Handlers,
                    OnlyDrivenBy({a, b})
             PROVE  Spec => []OneActiveRunUntilCrash
  OBVIOUS
<1>1. RunsInv /\ TwoDriversInv(a, b) /\ [Next]_vars => TwoDriversInv(a, b)'
  BY NextKeepsTwoDrivers
<1>2. Init => TwoDriversInv(a, b)
  BY InitTwoDrivers
<1>3. TwoDriversInv(a, b) => OneActiveRunUntilCrash
  BY DEF TwoDriversInv, RunsAreGuarded, OneActiveRunUntilCrash
<1>4. Spec => []RunsInv
  BY RunsInvariance
<1> QED
  BY <1>1, <1>2, <1>3, <1>4, PTL DEF Spec
=============================================================================
