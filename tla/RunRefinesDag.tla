---------------------------- MODULE RunRefinesDag ----------------------------
(***************************************************************************)
(* Proof that Orchestrator implements DagRun, for every set of tasks,      *)
(* every task graph and every configuration: its initial states map to     *)
(* initial states, and each of its steps to a step of DagRun or a stutter. *)
(***************************************************************************)
EXTENDS OrchestratorProofs

USE OrchestratorAssumption
USE DEF TurnBegins, AllDone, StoppedStatus, BackToPending, InProgress, Finalized

(* The run's tasks as the abstract run sees them. *)
Tasks == [t \in Task |-> AsTask(status[t])]

(* What the abstract run sees tells the statuses apart as the code does.    *)
LEMMA SeenAs ==
    ASSUME NEW s \in TaskStatus
    PROVE  /\ AsTask(s) = "waiting" <=> s \in Idle
           /\ AsTask(s) = "running" <=> s \in InFlight
           /\ AsTask(s) = "done" <=> s = "DONE"
           /\ AsTask(s) \in {"failed", "blocked"} <=> s \in Broken
           /\ AsTask(s) \in {"done", "failed", "blocked"} <=> s \in Settled
           /\ AsTask(s) \in {"waiting", "running", "done", "failed", "blocked"}
BY DEF AsTask, TaskStatus, Idle, InFlight, Broken, Settled

LEMMA TasksSeen ==
    ASSUME TypeOK
    PROVE  /\ Tasks \in [Task -> {"waiting", "running"} \cup Abstract!Outcome]
           /\ \A t \in Task : /\ Tasks[t] = AsTask(status[t])
                              /\ status[t] \in TaskStatus
<1>1. \A t \in Task : status[t] \in TaskStatus
  BY DEF TypeOK
<1>2. \A t \in Task : AsTask(status[t]) \in {"waiting", "running", "done", "failed", "blocked"}
  BY <1>1, SeenAs
<1> QED
  BY <1>1, <1>2 DEF Tasks, Abstract!Outcome

(* A task that is ready is one the abstract run may start.                  *)
LEMMA ReadyIsStartable ==
    ASSUME TypeOK, Flying = {}, NEW t \in Task
    PROVE  Abstract!Startable(t) <=> t \in Wave
<1>1. TaskIds(graph) = Task /\ status \in [Task -> TaskStatus]
  BY GraphFacts DEF TypeOK
<1>2. \A u \in Task : /\ AsTask(status[u]) = "waiting" <=> status[u] \in Idle
                      /\ AsTask(status[u]) = "done" <=> status[u] = "DONE"
  BY <1>1, SeenAs
<1>3. \A u \in Task : status[u] \in Idle <=> status[u] \notin Settled
  BY <1>1 DEF Flying, Idle, InFlight, Settled, TaskStatus
<1>4. \A d : Abstract!Done(d) <=> d \in Task /\ status[d] = "DONE"
  BY <1>2 DEF Abstract!Done
<1> QED
  BY <1>1, <1>2, <1>3, <1>4 DEF Abstract!Startable, Wave, ReadyTasks, IsReady

(* A sweep gives up only tasks that wait on a failed or blocked one.        *)
LEMMA SweepGivesUp ==
    ASSUME TypeOK, NEW before \in [Task -> TaskStatus],
           UpdateStates(graph, before, status')
    PROVE  \A t \in Task :
              \/ status'[t] = before[t]
              \/ before[t] \in Idle /\ status'[t] = "READY"
              \/ /\ before[t] \in Idle /\ status'[t] = "BLOCKED"
                 /\ \E d \in graph.deps[t] \cap Task : status'[d] \in Broken
<1>1. TaskIds(graph) = Task
  BY GraphFacts
<1>2. PICK B \in SUBSET Task : /\ SweepBlocks(graph, before, B)
                               /\ status' = Swept(graph, before, B)
  BY <1>1 DEF UpdateStates
<1>3. \A t \in Task : status'[t] = IF t \in B THEN "BLOCKED"
                                   ELSE IF before[t] \in Idle /\ IsReady(graph, before, t)
                                        THEN "READY" ELSE before[t]
  BY <1>2 DEF Swept
<1>4. \A t \in B : /\ before[t] \in Idle
                   /\ \/ \E d \in graph.deps[t] \cap Task : before[d] \in Broken
                      \/ \E d \in graph.deps[t] \cap B : TRUE
  BY <1>1, <1>2 DEF SweepBlocks, IsBlockedByDependency
<1>5. \A d \in Task : before[d] \in Broken => status'[d] \in Broken
  BY <1>3 DEF Idle, Broken
<1>6. \A d \in B : status'[d] \in Broken
  BY <1>3 DEF Broken
<1> QED
  BY <1>3, <1>4, <1>5, <1>6

-----------------------------------------------------------------------------
LEMMA InitRefines == Init => Abstract!Init
<1> SUFFICES ASSUME Init PROVE Abstract!Init
  OBVIOUS
<1>1. DOMAIN graph.deps = Task
  BY DEF Init
<1>2. \A t \in Task : status[t] \in {"PENDING", "BLOCKED"}
  BY DEF Init
<1>3. \A t \in Task : AsTask(status[t]) \in {"waiting", "blocked"}
  BY <1>2 DEF AsTask, Idle, InFlight
<1>4. AsVerdict = "new"
  BY DEF Init, AsVerdict
<1> QED
  BY <1>1, <1>3, <1>4 DEF Abstract!Init

-----------------------------------------------------------------------------
(* What run.reason can be before the run returns: no reason of a refusal or *)
(* a stop is left over when the run ends by itself.                         *)
ReasonOpen == pc # "returned" => run.reason \in {"", "NEEDS_USER_REPLAN_APPROVAL"}

LEMMA ReasonStaysOpen ==
    ASSUME IInv, ReasonOpen, [Next]_vars
    PROVE  ReasonOpen'
<1> USE DEF ReasonOpen
<1>0. run \in Run
  BY DEF IInv, TypeOK
<1>1. ASSUME NEW t \in Task \cup {NoTask}, NEW asked, MaybePropose(t, asked), pc # "returned"
      PROVE  ReasonOpen'
  BY <1>0, <1>1 DEF MaybePropose, Run
<1>2. Refreshed.reason = run.reason
  BY RefreshedTyped DEF IInv
<1>c. pc \in SerialPoints => cur \in Task
  BY DEF IInv, Control
<1>3. CASE RejectGraph \/ EnterLoop \/ StopBetweenTasks \/ Complete \/ NothingReady
  BY <1>3 DEF RejectGraph, EnterLoop, StopBetweenTasks, Complete, NothingReady
<1>4. CASE \/ DispatchHead \/ FallBackToSerial \/ FallBackRaises
           \/ WorktreeCreationRaises \/ FanOut
  BY <1>2, <1>4 DEF DispatchHead, FallBackToSerial, FallBackRaises, StartSerially,
                    WorktreeCreationRaises, FanOut
<1>5. CASE AdapterFails \/ ValidatorAnswers
  BY <1>1, <1>5, <1>c DEF AdapterFails, ValidatorAnswers, Settle, SerialPoints
<1>6. CASE \/ Poll \/ AdapterImplements \/ ValidatorRaises
           \/ WorkerStarts \/ WorkerReturns \/ WorkerRaises
           \/ MergeBranch \/ Revalidate \/ RevalidationRaises \/ RequestStop
  BY <1>6 DEF Poll, AdapterImplements, ValidatorRaises, WorkerStarts, WorkerReturns, WorkerRaises,
              MergeBranch, Revalidate, RevalidationRaises, RequestStop, runVars, loopVars
<1>7. CASE Finalize
  <2>1. PICK t \in todo : MaybePropose(t, outcome[t] = "FAILED")
    BY <1>7 DEF Finalize
  <2>2. t \in Task
    BY DEF IInv, TypeOK
  <2> QED
    BY <1>1, <1>7, <2>1, <2>2 DEF Finalize
<1>8. CASE UNCHANGED vars
  BY <1>8 DEF vars, runVars, loopVars
<1> QED
  BY <1>3, <1>4, <1>5, <1>6, <1>7, <1>8 DEF Next, LoopStep, Rest

-----------------------------------------------------------------------------
(* Entering run() opens or refuses the abstract run. *)
LEMMA EntryRefines ==
    ASSUME IInv, RejectGraph \/ EnterLoop
    PROVE  Abstract!Next
<1>0. TypeOK
  BY DEF IInv
<1>1. CASE RejectGraph
  <2>1. run'.reason = "INVALID_GRAPH"
    BY <1>0, <1>1 DEF RejectGraph, TypeOK, Run
  <2>2. AsVerdict = "new" /\ AsVerdict' = "refused"
    BY <1>1, <2>1 DEF RejectGraph, AsVerdict
  <2>3. Tasks' = Tasks /\ UNCHANGED graph
    BY <1>1 DEF RejectGraph, Tasks
  <2> QED
    BY <2>2, <2>3 DEF Abstract!Refuse, Abstract!Next, Tasks
<1>2. CASE EnterLoop
  <2>1. status' \in [Task -> TaskStatus] /\ UNCHANGED graph
    BY <1>0, <1>2, GraphFacts, SweepEffect DEF EnterLoop, TypeOK
  <2>2. AsVerdict = "new" /\ AsVerdict' = "open"
    BY <1>2 DEF EnterLoop, AsVerdict
  <2>3. \A t \in Task : status[t] \in TaskStatus /\ status'[t] \in TaskStatus
    BY <1>0, <2>1 DEF TypeOK
  <2>4. \A t \in Task : /\ Tasks[t] = AsTask(status[t]) /\ Tasks'[t] = AsTask(status'[t])
                        /\ AsTask(status'[t]) \in {"waiting", "running"} \cup Abstract!Outcome
    BY <2>3, SeenAs DEF Tasks, Abstract!Outcome
  <2>5. \A t \in Task :
           \/ status'[t] = status[t]
           \/ status[t] \in Idle /\ status'[t] = "READY"
           \/ /\ status[t] \in Idle /\ status'[t] = "BLOCKED"
              /\ \E d \in graph.deps[t] \cap Task : status'[d] \in Broken
    BY <1>0, <1>2, SweepGivesUp DEF EnterLoop, TypeOK
  <2>6. \A d \in Task : status'[d] \in Broken => AsTask(status'[d]) \in {"failed", "blocked"}
    BY <2>3, SeenAs
  <2>7. AsTask("READY") = "waiting" /\ AsTask("BLOCKED") = "blocked"
    BY DEF AsTask, Idle, InFlight
  <2>8. \A t \in Task : status[t] \in Idle => AsTask(status[t]) = "waiting"
    BY DEF AsTask
  <2>9. \A t \in Task :
           \/ Tasks'[t] = Tasks[t]
           \/ /\ Tasks[t] = "waiting" /\ Tasks'[t] = "blocked"
              /\ \E d \in graph.deps[t] \cap Task : Tasks'[d] \in {"failed", "blocked"}
    BY <2>4, <2>5, <2>6, <2>7, <2>8
  <2>10. Tasks' \in [Task -> {"waiting", "running"} \cup Abstract!Outcome]
    BY <2>4 DEF Tasks
  <2>11. Abstract!GivenUp(Tasks', {})
    BY <2>9 DEF Abstract!GivenUp, Tasks
  <2> QED
    BY <2>1, <2>2, <2>10, <2>11 DEF Abstract!Open, Abstract!Next, Tasks
<1> QED
  BY <1>1, <1>2

(* Handing tasks of the wave to workers, or to the serial body, starts them *)
(* in the abstract run.                                                     *)
LEMMA StartRefines ==
    ASSUME IInv, NEW S \in SUBSET Wave, pc = "turn", pc' \notin {"begin", "returned"},
           UNCHANGED graph,
           \A t \in Task : \/ t \in S /\ status'[t] = "IN_PROGRESS"
                           \/ t \notin S /\ status'[t] = status[t]
                           \/ t \in Wave \ S /\ status'[t] = "PENDING"
    PROVE  Abstract!Next
<1>0. TypeOK /\ Flying = {}
  BY DEF IInv, Control
<1>1. Wave \in SUBSET Task
  BY <1>0, GraphFacts DEF Wave, ReadyTasks
<1>2. \A t \in S : Abstract!Startable(t)
  BY <1>0, <1>1, ReadyIsStartable
<1>3. \A t \in Wave : AsTask(status[t]) = "waiting"
  <2>1. \A t \in Wave : Abstract!Startable(t)
    BY <1>0, <1>1, ReadyIsStartable
  <2> QED
    BY <1>1, <2>1 DEF Abstract!Startable
<1>4. AsTask("IN_PROGRESS") = "running" /\ AsTask("PENDING") = "waiting"
  BY DEF AsTask, Idle, InFlight
<1>5. \A t \in Task : AsTask(status'[t]) = IF t \in S THEN "running" ELSE AsTask(status[t])
  BY <1>3, <1>4
<1>6. Tasks' = [t \in Task |-> IF t \in S THEN "running" ELSE Tasks[t]]
  BY <1>5 DEF Tasks
<1>7. AsVerdict = "open" /\ AsVerdict' = "open"
  BY DEF AsVerdict
<1>8. S \in SUBSET {t \in Task : Abstract!Startable(t)}
  BY <1>1, <1>2
<1> QED
  BY <1>6, <1>7, <1>8 DEF Abstract!Start, Abstract!Next, Tasks

LEMMA DispatchRefines ==
    ASSUME IInv,
           DispatchHead \/ FallBackToSerial \/ FallBackRaises
             \/ WorktreeCreationRaises \/ FanOut
    PROVE  Abstract!Next
<1>0. status \in [Task -> TaskStatus]
  BY DEF IInv, TypeOK
<1>w. Wave \in SUBSET Task
  BY GraphFacts DEF IInv, Wave, ReadyTasks
<1>1. CASE DispatchHead
  <2>1. PICK t \in Wave : StartSerially(t, status)
    BY <1>1 DEF DispatchHead
  <2>2. \A u \in Task : \/ u \in {t} /\ status'[u] = "IN_PROGRESS"
                        \/ u \notin {t} /\ status'[u] = status[u]
    BY <1>0, <2>1 DEF StartSerially
  <2>3. {t} \in SUBSET Wave /\ pc = "turn" /\ pc' = "executing" /\ UNCHANGED graph
    BY <1>1, <2>1 DEF DispatchHead, StartSerially
  <2> QED
    BY <2>2, <2>3, StartRefines
<1>2. CASE FallBackToSerial
  <2>1. PICK P \in CreatedBeforeFailure, t \in Wave : StartSerially(t, BackToPending(P))
    BY <1>2 DEF FallBackToSerial
  <2>2. P \in SUBSET Wave
    BY DEF CreatedBeforeFailure
  <2>3. \A u \in Task : \/ u \in {t} /\ status'[u] = "IN_PROGRESS"
                        \/ u \notin {t} /\ status'[u] = status[u]
                        \/ u \in Wave \ {t} /\ status'[u] = "PENDING"
    BY <1>0, <1>w, <2>1, <2>2 DEF StartSerially
  <2>4. {t} \in SUBSET Wave /\ pc = "turn" /\ pc' = "executing" /\ UNCHANGED graph
    BY <1>2, <2>1 DEF FallBackToSerial, StartSerially
  <2> QED
    BY <2>3, <2>4, StartRefines
<1>3. CASE WorktreeCreationRaises
  <2>1. PICK P \in CreatedBeforeFailure :
           status' = [t \in Task |-> IF t \in P THEN "IN_PROGRESS" ELSE status[t]]
    BY <1>3 DEF WorktreeCreationRaises
  <2>2. P \in SUBSET Wave
    BY DEF CreatedBeforeFailure
  <2>3. pc = "turn" /\ pc' = "raised" /\ UNCHANGED graph
    BY <1>3 DEF WorktreeCreationRaises
  <2> QED
    BY <2>1, <2>2, <2>3, StartRefines
<1>4. CASE FanOut
  <2>1. /\ status' = [t \in Task |-> IF t \in Wave THEN "IN_PROGRESS" ELSE status[t]]
        /\ pc = "turn" /\ pc' = "workers" /\ UNCHANGED graph
    BY <1>4 DEF FanOut
  <2> QED
    BY <2>1, StartRefines
<1>5. CASE FallBackRaises
  <2>1. PICK P \in CreatedBeforeFailure : \E r \in P :
           LET removed == {t \in P : Before(graph, t, r)} IN
           status' = [t \in Task |-> IF t \in removed THEN "PENDING" ELSE InProgress(P)[t]]
    BY <1>5 DEF FallBackRaises
  <2>2. PICK removed \in SUBSET P :
           status' = [t \in Task |-> IF t \in removed THEN "PENDING" ELSE InProgress(P)[t]]
    BY <2>1
  <2>3. P \in SUBSET Wave
    BY DEF CreatedBeforeFailure
  <2>4. \A t \in Task : \/ t \in P \ removed /\ status'[t] = "IN_PROGRESS"
                        \/ t \notin P \ removed /\ status'[t] = status[t]
                        \/ t \in Wave \ (P \ removed) /\ status'[t] = "PENDING"
    BY <2>2, <2>3
  <2>5. pc = "turn" /\ pc' = "raised" /\ UNCHANGED graph /\ P \ removed \in SUBSET Wave
    BY <1>5, <2>3 DEF FallBackRaises
  <2> QED
    BY <2>4, <2>5, StartRefines
<1> QED
  BY <1>1, <1>2, <1>3, <1>4, <1>5

(* A task that settles, with whatever a sweep then gives up, settles in the *)
(* abstract run.                                                            *)
LEMMA SettlingRefines ==
    ASSUME IInv, NEW t \in Flying, NEW new \in Settled,
           pc \notin {"begin", "returned"}, pc' \notin {"begin", "returned"},
           UNCHANGED graph,
           \/ UpdateStates(graph, [status EXCEPT ![t] = new], status')
           \/ status' = [status EXCEPT ![t] = new]
    PROVE  Abstract!Next
<1>0. TypeOK /\ status \in [Task -> TaskStatus] /\ t \in Task /\ status[t] \in InFlight
  BY DEF IInv, TypeOK, Flying
<1> DEFINE before == [status EXCEPT ![t] = new]
<1>1. /\ before \in [Task -> TaskStatus] /\ before[t] = new
      /\ \A u \in Task \ {t} : before[u] = status[u]
  BY <1>0 DEF Settled, TaskStatus
<1> HIDE DEF before
<1>2. UpdateStates(graph, before, status') \/ status' = before
  BY DEF before
<1>3. status' \in [Task -> TaskStatus]
  BY <1>0, <1>1, <1>2, GraphFacts, SweepEffect
<1>4. \A u \in Task :
         \/ status'[u] = before[u]
         \/ before[u] \in Idle /\ status'[u] = "READY"
         \/ /\ before[u] \in Idle /\ status'[u] = "BLOCKED"
            /\ \E d \in graph.deps[u] \cap Task : status'[d] \in Broken
  BY <1>0, <1>1, <1>2, SweepGivesUp
<1>5. \A u \in Task : /\ status[u] \in TaskStatus /\ status'[u] \in TaskStatus
                      /\ Tasks[u] = AsTask(status[u]) /\ Tasks'[u] = AsTask(status'[u])
  BY <1>0, <1>3 DEF Tasks
<1>6. \A d \in Task : status'[d] \in Broken => Tasks'[d] \in {"failed", "blocked"}
  BY <1>5, SeenAs
<1>7. AsTask("READY") = "waiting" /\ AsTask("BLOCKED") = "blocked"
  BY DEF AsTask, Idle, InFlight
<1>8. \A u \in Task : status[u] \in Idle => Tasks[u] = "waiting"
  BY <1>5 DEF AsTask
<1>9. \A u \in Task \ {t} :
         \/ Tasks'[u] = Tasks[u]
         \/ /\ Tasks[u] = "waiting" /\ Tasks'[u] = "blocked"
            /\ \E d \in graph.deps[u] \cap Task : Tasks'[d] \in {"failed", "blocked"}
  BY <1>1, <1>4, <1>5, <1>6, <1>7, <1>8
<1>10. Abstract!GivenUp(Tasks', {t})
  BY <1>9 DEF Abstract!GivenUp, Tasks
<1>11. Tasks[t] = "running"
  BY <1>0, <1>5, SeenAs
<1>12. status'[t] = new
  BY <1>0, <1>1, <1>4 DEF Settled, Idle
<1>13. Tasks'[t] \in Abstract!Outcome
  BY <1>0, <1>5, <1>12, SeenAs DEF Abstract!Outcome
<1>14. Tasks' \in [Task -> {"waiting", "running"} \cup Abstract!Outcome]
  <2>1. \A u \in Task : AsTask(status'[u]) \in {"waiting", "running"} \cup Abstract!Outcome
    BY <1>5, SeenAs DEF Abstract!Outcome
  <2> QED
    BY <2>1 DEF Tasks
<1>15. AsVerdict = "open" /\ AsVerdict' = "open"
  BY DEF AsVerdict
<1> QED
  BY <1>0, <1>10, <1>11, <1>13, <1>14, <1>15 DEF Abstract!Settle, Abstract!Next, Tasks

LEMMA OutcomeRefines ==
    ASSUME IInv, AdapterFails \/ ValidatorAnswers \/ Finalize
    PROVE  Abstract!Next
<1>c. /\ pc \in SerialPoints => cur \in Flying
      /\ pc = "finalizing" => todo \subseteq Flying /\ \A t \in todo : outcome[t] \in Settled
  BY DEF IInv, TypeOK, Control, WavePoints
<1>1. CASE AdapterFails
  <2>1. PICK new \in Settled : Settle(cur, new, TRUE)
    BY <1>1 DEF AdapterFails, StatusOfResult, Settled
  <2> QED
    BY <1>1, <1>c, <2>1, SettlingRefines DEF AdapterFails, Settle, SerialPoints
<1>2. CASE ValidatorAnswers
  <2>1. PICK v \in Verdict : Settle(cur, StatusOfVerdict(v), StatusOfVerdict(v) = "FAILED")
    BY <1>2 DEF ValidatorAnswers
  <2>2. StatusOfVerdict(v) \in Settled
    BY DEF StatusOfVerdict, Verdict, Settled
  <2> QED
    BY <1>2, <1>c, <2>1, <2>2, SettlingRefines DEF ValidatorAnswers, Settle, SerialPoints
<1>3. CASE Finalize
  <2>1. PICK t \in todo : status' = [status EXCEPT ![t] = outcome[t]]
    BY <1>3 DEF Finalize
  <2>2. pc = "finalizing" /\ pc' \in {"finalizing", "top"} /\ UNCHANGED graph
    BY <1>3 DEF Finalize
  <2> QED
    BY <1>c, <2>1, <2>2, SettlingRefines
<1> QED
  BY <1>1, <1>2, <1>3

(* The run ends by itself, or is stopped. *)
LEMMA EndRefines ==
    ASSUME IInv, ReasonOpen, StopBetweenTasks \/ Complete \/ NothingReady
    PROVE  Abstract!Next
<1>0. /\ TypeOK /\ Flying = {} /\ pc \in {"top", "turn"} /\ run \in Run
      /\ status \in [Task -> TaskStatus]
  BY DEF IInv, TypeOK, Control, StopBetweenTasks, Complete, NothingReady
<1>1. \A t \in Task : /\ status[t] \in TaskStatus /\ status[t] \notin InFlight
                      /\ Tasks[t] = AsTask(status[t]) /\ Tasks[t] # "running"
  BY <1>0, SeenAs DEF Flying, Tasks
<1>2. AsVerdict = "open"
  BY <1>0 DEF AsVerdict
<1>3. CASE StopBetweenTasks
  <2>1. \A t \in Task : status'[t] = IF status[t] \in Settled THEN status[t] ELSE "BLOCKED"
    BY <1>3 DEF StopBetweenTasks
  <2>2. AsTask("BLOCKED") = "blocked"
    BY DEF AsTask, Idle, InFlight
  <2>3. \A t \in Task : /\ status[t] \in Settled => AsTask(status[t]) # "waiting"
                        /\ status[t] \notin Settled => AsTask(status[t]) = "waiting"
    BY <1>1, SeenAs DEF TaskStatus, Idle, InFlight, Settled
  <2>4. \A t \in Task : AsTask(status'[t]) = IF Tasks[t] = "waiting" THEN "blocked"
                                             ELSE Tasks[t]
    BY <1>1, <2>1, <2>2, <2>3
  <2>5. Tasks' = [t \in Task |-> IF Tasks[t] = "waiting" THEN "blocked" ELSE Tasks[t]]
    BY <2>4 DEF Tasks
  <2>6. run'.reason \in {"CANCELLED", "TIME_BUDGET_EXCEEDED"} /\ pc' = "returned"
    BY <1>0, <1>3 DEF StopBetweenTasks, Run
  <2>7. AsVerdict' = "stopped"
    BY <2>6 DEF AsVerdict, Stopped
  <2>8. UNCHANGED graph
    BY <1>3 DEF StopBetweenTasks
  <2> QED
    BY <1>1, <1>2, <2>5, <2>7, <2>8 DEF Abstract!Stop, Abstract!Next, Tasks
<1>4. \A t \in Task : Abstract!Startable(t) <=> t \in Wave
  BY <1>0, ReadyIsStartable
<1>5. \A t \in Task : Tasks[t] = "done" <=> status[t] = "DONE"
  BY <1>1, SeenAs
<1>6. ASSUME Complete \/ NothingReady
      PROVE  /\ Tasks' = Tasks /\ UNCHANGED graph
             /\ \A t \in Task : ~Abstract!Startable(t)
             /\ AsVerdict' = IF run'.status = "COMPLETED" THEN "completed" ELSE "blocked"
  <2>1. status' = status /\ UNCHANGED graph /\ pc' = "returned"
    BY <1>6 DEF Complete, NothingReady
  <2>2. \A t \in Task : t \notin Wave
    <3>1. CASE Complete
      BY <3>1 DEF Complete, Wave, ReadyTasks, IsReady, Settled
    <3>2. CASE NothingReady
      BY <3>2 DEF NothingReady
    <3> QED
      BY <1>6, <3>1, <3>2
  <2>3. run'.reason \in {"", "NEEDS_USER_REPLAN_APPROVAL", "UNRESOLVED_DEPENDENCIES", "STOPPED"}
    <3>1. /\ Refreshed \in Run
          /\ Refreshed.reason \in {"", "NEEDS_USER_REPLAN_APPROVAL"}
      BY <1>0, RefreshedTyped DEF ReasonOpen
    <3> QED
      BY <1>6, <3>1 DEF Complete, NothingReady, Run
  <2>4. AsVerdict' = IF run'.status = "COMPLETED" THEN "completed" ELSE "blocked"
    BY <2>1, <2>3 DEF AsVerdict, Stopped
  <2> QED
    BY <2>1, <2>2, <2>4, <1>4 DEF Tasks
<1>7. CASE Complete
  <2>1. run'.status = "COMPLETED" /\ \A t \in Task : status[t] = "DONE"
    BY <1>0, <1>7, RefreshedTyped DEF Complete, Run
  <2> QED
    BY <1>1, <1>2, <1>5, <1>6, <1>7, <2>1 DEF Abstract!Finish, Abstract!Next, Tasks
<1>8. CASE NothingReady
  <2>1. run'.status = "BLOCKED"
    <3>1. CASE run.proposal # NoTask
      BY <1>0, <1>8, <3>1, RefreshedTyped DEF NothingReady, IInv, ProposalBlocks
    <3>2. CASE run.proposal = NoTask
      BY <1>0, <1>8, <3>2, RefreshedTyped DEF NothingReady, Run
    <3> QED
      BY <3>1, <3>2
  <2>2. ~(\A t \in Task : status[t] = "DONE")
    BY <1>8 DEF NothingReady
  <2> QED
    BY <1>1, <1>2, <1>5, <1>6, <1>8, <2>1, <2>2 DEF Abstract!Finish, Abstract!Next, Tasks
<1> QED
  BY <1>3, <1>7, <1>8

(* Everything else is invisible in the abstract run. *)
LEMMA OtherStepsStutter ==
    ASSUME IInv,
           \/ Poll \/ AdapterImplements \/ ValidatorRaises
           \/ WorkerStarts \/ WorkerReturns \/ WorkerRaises
           \/ MergeBranch \/ Revalidate \/ RevalidationRaises \/ RequestStop
           \/ UNCHANGED vars
    PROVE  UNCHANGED Abstract!dagVars
<1>0. status \in [Task -> TaskStatus]
  BY DEF IInv, TypeOK
<1>1. UNCHANGED graph
  BY DEF Poll, AdapterImplements, ValidatorRaises, WorkerStarts, WorkerReturns,
         WorkerRaises, MergeBranch, Revalidate, RevalidationRaises, RequestStop, vars
<1>2. CASE AdapterImplements
  <2>1. cur \in Task /\ status[cur] \in InFlight
    BY <1>2 DEF AdapterImplements, IInv, Control, Flying, SerialPoints
  <2>2. \A t \in Task : AsTask(status'[t]) = AsTask(status[t])
    <3>1. \A t \in Task : \/ status'[t] = status[t]
                          \/ status[t] \in InFlight /\ status'[t] \in InFlight
      BY <1>0, <1>2, <2>1 DEF AdapterImplements, InFlight
    <3> QED
      BY <3>1 DEF AsTask, Idle, InFlight
  <2>3. AsVerdict' = AsVerdict
    BY <1>2 DEF AdapterImplements, AsVerdict
  <2> QED
    BY <1>1, <2>2, <2>3 DEF Abstract!dagVars
<1>3. CASE WorkerStarts \/ WorkerReturns \/ MergeBranch \/ Revalidate
  <2>1. status' = status /\ pc \in WavePoints /\ pc' \in WavePoints
    BY <1>3 DEF WorkerStarts, WorkerReturns, MergeBranch, Revalidate, Handled, loopVars,
                WavePoints
  <2> QED
    BY <1>1, <2>1 DEF Abstract!dagVars, AsVerdict, WavePoints
<1>4. CASE \/ Poll \/ ValidatorRaises \/ WorkerRaises \/ RevalidationRaises
           \/ RequestStop \/ UNCHANGED vars
  <2>1. /\ status' = status /\ UNCHANGED run
        /\ \/ pc' = pc
           \/ pc \in SerialPoints \cup WavePoints /\ pc' = "raised"
           \/ pc = "top" /\ pc' = "turn"
    BY <1>4 DEF Poll, ValidatorRaises, WorkerRaises, RevalidationRaises, RequestStop,
                runVars, loopVars, vars, SerialPoints, WavePoints
  <2> QED
    BY <1>1, <2>1 DEF Abstract!dagVars, AsVerdict, Stopped, SerialPoints, WavePoints
<1> QED
  BY <1>2, <1>3, <1>4

-----------------------------------------------------------------------------
LEMMA InitReason == Init => ReasonOpen
<1> SUFFICES ASSUME Init PROVE run.reason = ""
  BY DEF ReasonOpen
<1> QED
  BY DEF Init

LEMMA StepRefines ==
    ASSUME IInv, ReasonOpen, [Next]_vars
    PROVE  [Abstract!Next]_Abstract!dagVars
<1>1. CASE RejectGraph \/ EnterLoop
  BY <1>1, EntryRefines
<1>2. CASE StopBetweenTasks \/ Complete \/ NothingReady
  BY <1>2, EndRefines
<1>3. CASE \/ DispatchHead \/ FallBackToSerial \/ FallBackRaises
           \/ WorktreeCreationRaises \/ FanOut
  BY <1>3, DispatchRefines
<1>4. CASE AdapterFails \/ ValidatorAnswers \/ Finalize
  BY <1>4, OutcomeRefines
<1>5. CASE \/ Poll \/ AdapterImplements \/ ValidatorRaises
           \/ WorkerStarts \/ WorkerReturns \/ WorkerRaises
           \/ MergeBranch \/ Revalidate \/ RevalidationRaises \/ RequestStop
           \/ UNCHANGED vars
  BY <1>5, OtherStepsStutter
<1> QED
  BY <1>1, <1>2, <1>3, <1>4, <1>5 DEF Next, LoopStep, Rest

(* A run of the orchestrator - serial or in worktrees, with rollbacks,      *)
(* proposals, files and stops - is a run of the abstract one: tasks start   *)
(* only after what they need, settle once, stay settled, and the verdict    *)
(* tells the truth about them.                                              *)
THEOREM RefinesDagRun == Spec => ImplementsDagRun
<1>1. Init => IInv /\ ReasonOpen
  BY InitIInv, InitReason
<1>2. IInv /\ ReasonOpen /\ [Next]_vars => IInv' /\ ReasonOpen'
  BY NextKeepsIInv, ReasonStaysOpen
<1>3. IInv /\ ReasonOpen /\ [Next]_vars => [Abstract!Next]_Abstract!dagVars
  BY StepRefines
<1>4. Init => Abstract!Init
  BY InitRefines
<1> QED
  BY <1>1, <1>2, <1>3, <1>4, PTL DEF Spec, Abstract!Spec, ImplementsDagRun
==============================================================================
