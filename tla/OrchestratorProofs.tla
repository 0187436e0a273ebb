-------------------------- MODULE OrchestratorProofs --------------------------
(***************************************************************************)
(* Proofs about Orchestrator, for every set of tasks, every task graph and *)
(* every configuration: the inductive invariant IInv and what follows.     *)
(***************************************************************************)
EXTENDS Orchestrator, TLAPS

USE OrchestratorAssumption
(* Abbreviations of single expressions. *)
USE DEF TurnBegins, AllDone, StoppedStatus, BackToPending, InProgress, HeadBeforeTask,
        WorktreeView, WorkspaceView, Finalized

(* The graph of a run names exactly the tasks. *)
LEMMA GraphFacts ==
    ASSUME TypeOK
    PROVE  TaskIds(graph) = Task /\ DOMAIN graph.deps = Task
BY DEF TypeOK, OrchestratorAssumption

(* One sweep of update_states touches only PENDING and READY tasks, and     *)
(* leaves each of them as it was, READY or BLOCKED.                         *)
LEMMA SweepEffect ==
    ASSUME NEW g, TaskIds(g) = Task,
           NEW st \in [Task -> TaskStatus],
           NEW new, UpdateStates(g, st, new)
    PROVE  /\ new \in [Task -> TaskStatus]
           /\ \A t \in Task : \/ new[t] = st[t]
                              \/ st[t] \in Idle /\ new[t] \in {"READY", "BLOCKED"}
<1>1. PICK B \in SUBSET Task : SweepBlocks(g, st, B) /\ new = Swept(g, st, B)
  BY DEF UpdateStates
<1>2. \A t \in B : st[t] \in Idle
  BY <1>1 DEF SweepBlocks
<1>3. new = [t \in Task |-> IF t \in B THEN "BLOCKED"
                            ELSE IF st[t] \in Idle /\ IsReady(g, st, t) THEN "READY"
                            ELSE st[t]]
  BY <1>1 DEF Swept
<1> QED
  BY <1>2, <1>3 DEF TaskStatus, Idle

(* Every record names a task and the settled status that task still has.    *)
LEMMA RecordFacts ==
    ASSUME TypeOK, RecordsAgree
    PROVE  /\ Len(records) \in Nat
           /\ \A i \in 1 .. Len(records) :
                 /\ records[i].task \in Task
                 /\ records[i].status \in Settled
                 /\ status[records[i].task] = records[i].status
<1>1. records \in Seq(Record)
  BY DEF TypeOK
<1>2. Len(records) \in Nat /\ \A i \in 1 .. Len(records) : records[i] \in Record
  BY <1>1
<1> QED
  BY <1>2 DEF Record, RecordsAgree

-----------------------------------------------------------------------------
(* The three statements about records survive a step that records nothing   *)
(* if it settles nothing but to BLOCKED and starts only what may start.     *)
LEMMA NothingRecorded ==
    ASSUME TypeOK, AtMostOnce, DependenciesFirst, RecordsAgree,
           UNCHANGED <<graph, records>>,
           \A t \in Task : \/ status'[t] = status[t]
                           \/ /\ status[t] \notin Settled
                              /\ status'[t] \in Idle \cup InFlight \cup {"BLOCKED"},
           \A t \in Task : status'[t] \in InFlight =>
                 \/ status[t] \in InFlight
                 \/ graph.deps[t] \subseteq With(status, "DONE")
    PROVE  AtMostOnce' /\ DependenciesFirst' /\ RecordsAgree'
<1>1. \A t \in Task : Recorded(t)' <=> Recorded(t)
  BY DEF Recorded
<1>2. \A t \in Task : status[t] = "DONE" => status'[t] = "DONE"
  BY DEF Settled
<1>3. AtMostOnce'
  BY DEF AtMostOnce
<1>4. DependenciesFirst'
  BY <1>1, <1>2 DEF DependenciesFirst, With
<1>5. \A i \in 1 .. Len(records) : /\ records[i].task \in Task
                                   /\ status[records[i].task] \in Settled
  BY RecordFacts
<1>6. RecordsAgree'
  BY <1>1, <1>5 DEF RecordsAgree, Idle, InFlight, Settled
<1> QED
  BY <1>3, <1>4, <1>6

(* ... and a step that settles and records one task that was in flight.     *)
LEMMA OneRecorded ==
    ASSUME TypeOK, AtMostOnce, DependenciesFirst, RecordsAgree,
           NEW t \in Flying, NEW new \in Settled,
           UNCHANGED graph,
           records' = Append(records, [task |-> t, status |-> new]),
           status'[t] = new,
           \A u \in Task \ {t} : \/ status'[u] = status[u]
                                 \/ /\ status[u] \in Idle
                                    /\ status'[u] \in {"READY", "BLOCKED"}
    PROVE  AtMostOnce' /\ DependenciesFirst' /\ RecordsAgree'
<1> DEFINE n == Len(records)
<1>0. t \in Task /\ status[t] \in InFlight
  BY DEF Flying
<1>1. /\ n \in Nat
      /\ Len(records') = n + 1
      /\ \A i \in 1 .. n : records'[i] = records[i]
      /\ records'[n + 1] = [task |-> t, status |-> new]
  BY DEF TypeOK
<1>2. \A i \in 1 .. n : /\ records[i].task \in Task
                        /\ status[records[i].task] = records[i].status
                        /\ records[i].status \in Settled
  BY RecordFacts
<1>3. \A i \in 1 .. n : records[i].task # t
  BY <1>0, <1>2 DEF InFlight, Settled
<1>4. \A u \in Task : Recorded(u)' <=> Recorded(u) \/ u = t
  BY <1>1 DEF Recorded
<1>5. \A u \in Task : status[u] = "DONE" => status'[u] = "DONE"
  BY <1>0 DEF InFlight, Idle
<1>6. AtMostOnce'
  BY <1>1, <1>3 DEF AtMostOnce
<1>7. DependenciesFirst'
  <2> SUFFICES ASSUME NEW u \in Task, status'[u] \in InFlight \/ Recorded(u)'
               PROVE  graph.deps[u] \subseteq With(status, "DONE")'
    BY DEF DependenciesFirst
  <2>1. status[u] \in InFlight \/ Recorded(u)
    BY <1>0, <1>4 DEF InFlight, Idle, Settled
  <2> QED
    BY <2>1, <1>5 DEF DependenciesFirst, With
<1>8. RecordsAgree'
  <2>1. ASSUME NEW i \in 1 .. (n + 1)
        PROVE  status'[records'[i].task] = records'[i].status
    BY <1>0, <1>1, <1>2, <1>3 DEF Idle, Settled
  <2>2. ASSUME NEW u \in Task, status'[u] \in {"DONE", "FAILED"}
        PROVE  Recorded(u)'
    <3>1. CASE u = t
      BY <3>1, <1>4
    <3>2. CASE u # t
      <4>1. status[u] \in {"DONE", "FAILED"}
        BY <3>2, <2>2
      <4> QED
        BY <4>1, <1>4 DEF RecordsAgree
    <3> QED
      BY <3>1, <3>2
  <2> QED
    BY <1>1, <2>1, <2>2 DEF RecordsAgree
<1> QED
  BY <1>6, <1>7, <1>8

-----------------------------------------------------------------------------
(* Types of what the helpers of several actions assign. *)

LEMMA RefreshedTyped ==
    ASSUME TypeOK
    PROVE  /\ Refreshed \in Run
           /\ Refreshed.status = run.status
           /\ Refreshed.reason = run.reason
           /\ Refreshed.proposal = run.proposal
<1>1. run \in Run
  BY DEF TypeOK
<1>2. Wave \in SUBSET Task /\ \A s : With(status, s) \in SUBSET Task
  BY GraphFacts DEF Wave, ReadyTasks, With
<1> QED
  BY <1>1, <1>2 DEF Refreshed, Run

LEMMA SavedTyped ==
    ASSUME TypeOK, SaveRun, run' \in Run, records' \in Seq(Record)
    PROVE  saved' \in {NoRun} \cup [run : Run, records : Seq(Record)]
<1>1. [run' EXCEPT !.cancelled = @ \/ FileCancelled] \in Run
  <2>1. (run'.cancelled \/ FileCancelled) \in BOOLEAN
    OBVIOUS
  <2> QED
    BY <2>1 DEF Run
<1> QED
  BY <1>1 DEF SaveRun, TypeOK

LEMMA ProposalTyped ==
    ASSUME TypeOK, ProposalBlocks, pc # "returned",
           NEW t \in Task, NEW asked, MaybePropose(t, asked)
    PROVE  /\ run' \in Run
           /\ proposals' \in SUBSET Task
           /\ run'.proposal # NoTask => run'.status = "BLOCKED"
<1>1. run \in Run /\ proposals \in SUBSET Task
  BY DEF TypeOK
<1>2. CASE Replan /\ asked
  <2>1. /\ proposals' = proposals \cup {t}
        /\ run' = [run EXCEPT !.status = "BLOCKED",
                               !.reason = "NEEDS_USER_REPLAN_APPROVAL",
                               !.proposal = t]
    BY <1>2 DEF MaybePropose
  <2> QED
    BY <1>1, <2>1 DEF Run
<1>3. CASE ~(Replan /\ asked)
  BY <1>1, <1>3 DEF MaybePropose, ProposalBlocks
<1> QED
  BY <1>2, <1>3

LEMMA RecordTyped ==
    ASSUME TypeOK, NEW t \in Task, NEW new \in Settled,
           records' = Append(records, [task |-> t, status |-> new])
    PROVE  records' \in Seq(Record)
BY DEF TypeOK, Record

(* Settling a task in flight leaves the rest of them in flight and keeps    *)
(* every statement about records.                                           *)
LEMMA SettleEffect ==
    ASSUME IInv, pc # "returned", NEW t \in Flying, NEW new \in Settled, NEW asked,
           Settle(t, new, asked)
    PROVE  /\ status' \in [Task -> TaskStatus]
           /\ Flying' = Flying \ {t}
           /\ run' \in Run /\ proposals' \in SUBSET Task
           /\ records' \in Seq(Record)
           /\ saved' \in {NoRun} \cup [run : Run, records : Seq(Record)]
           /\ run'.proposal # NoTask => run'.status = "BLOCKED"
           /\ AtMostOnce' /\ DependenciesFirst' /\ RecordsAgree'
<1>1. t \in Task /\ status[t] \in InFlight /\ status \in [Task -> TaskStatus]
  BY DEF Flying, IInv, TypeOK
<1> DEFINE before == [status EXCEPT ![t] = new]
<1>2. /\ before \in [Task -> TaskStatus]
      /\ before[t] = new
      /\ \A u \in Task \ {t} : before[u] = status[u]
  BY <1>1 DEF Settled, TaskStatus
<1>3. TaskIds(graph) = Task
  BY GraphFacts DEF IInv
<1>4. UpdateStates(graph, before, status')
  BY DEF Settle
<1> HIDE DEF before
<1>5. /\ status' \in [Task -> TaskStatus]
      /\ \A u \in Task : \/ status'[u] = before[u]
                         \/ before[u] \in Idle /\ status'[u] \in {"READY", "BLOCKED"}
  BY <1>2, <1>3, <1>4, SweepEffect
<1>6. status'[t] = new
  BY <1>1, <1>2, <1>5 DEF Settled, Idle
<1>7. \A u \in Task \ {t} : \/ status'[u] = status[u]
                            \/ status[u] \in Idle /\ status'[u] \in {"READY", "BLOCKED"}
  BY <1>2, <1>5
<1>8. Flying' = Flying \ {t}
  BY <1>6, <1>7 DEF Flying, Idle, InFlight, Settled
<1>9. records' = Append(records, [task |-> t, status |-> new]) /\ UNCHANGED graph
  BY DEF Settle
<1>10. AtMostOnce' /\ DependenciesFirst' /\ RecordsAgree'
  BY <1>6, <1>7, <1>9, OneRecorded DEF IInv
<1>11. records' \in Seq(Record)
  BY <1>1, <1>9, RecordTyped DEF IInv
<1>12. /\ run' \in Run /\ proposals' \in SUBSET Task
       /\ run'.proposal # NoTask => run'.status = "BLOCKED"
  BY <1>1, ProposalTyped DEF Settle, IInv
<1>13. saved' \in {NoRun} \cup [run : Run, records : Seq(Record)]
  BY <1>11, <1>12, SavedTyped DEF Settle, IInv
<1> QED
  BY <1>5, <1>8, <1>10, <1>11, <1>12, <1>13

-----------------------------------------------------------------------------
(* IInv is inductive. *)

LEMMA InitIInv == Init => IInv
<1> SUFFICES ASSUME Init PROVE IInv
  OBVIOUS
<1>1. status \in [Task -> {"PENDING", "BLOCKED"}]
  BY DEF Init, OrchestratorAssumption
<1>2. records \in Seq(Record) /\ Len(records) = 0
  <2>1. records = << >>
    BY DEF Init
  <2> QED
    BY <2>1
<1>3. run \in Run
  BY DEF Init, Run
<1>4. TypeOK
  <2>1. dirty \in SUBSET Author
    BY DEF Init, Author
  <2>2. checked \in [Task -> [verdict : Verdict \cup {"none"}, against : SUBSET Author]]
    BY DEF Init, NotChecked
  <2> QED
    BY <1>1, <1>2, <1>3, <2>1, <2>2 DEF Init, TypeOK, TaskStatus, Points
<1>5. Flying = {}
  BY <1>1 DEF Flying, InFlight
<1>6. Control
  BY <1>5 DEF Init, Control, SerialPoints, WavePoints
<1>7. AtMostOnce /\ DependenciesFirst /\ RecordsAgree
  <2>1. \A t \in Task : ~Recorded(t) /\ status[t] \notin InFlight \cup {"DONE", "FAILED"}
    BY <1>1, <1>2 DEF Recorded, InFlight
  <2> QED
    BY <1>2, <2>1 DEF AtMostOnce, DependenciesFirst, RecordsAgree
<1>8. ProposalBlocks /\ VerdictSound
  BY DEF Init, ProposalBlocks, VerdictSound
<1> QED
  BY <1>4, <1>6, <1>7, <1>8 DEF IInv

(* Entering run(), and the ways it returns. *)
LEMMA EntryAndExitKeepIInv ==
    ASSUME IInv,
           RejectGraph \/ EnterLoop \/ StopBetweenTasks \/ Poll \/ Complete \/ NothingReady
    PROVE  IInv'
<1> USE DEF Points, SerialPoints, WavePoints
<1>0. /\ TypeOK /\ Control
      /\ AtMostOnce /\ DependenciesFirst /\ RecordsAgree /\ ProposalBlocks
      /\ run \in Run /\ records \in Seq(Record)
      /\ status \in [Task -> TaskStatus]
  BY DEF IInv, TypeOK
<1>b. ASSUME EnsureGitBaseline
      PROVE  head' \in SUBSET Author /\ dirty' \in SUBSET Author
  BY <1>0, <1>b DEF EnsureGitBaseline, TypeOK
<1>1. CASE RejectGraph
  <2>1. run' \in Run /\ records' = records
    BY <1>0, <1>1 DEF RejectGraph, Run
  <2>2. TypeOK'
    BY <1>0, <1>1, <1>b, <2>1, SavedTyped DEF RejectGraph, TypeOK, waveVars
  <2>3. Control'
    BY <1>0, <1>1 DEF RejectGraph, Control, Flying
  <2>4. AtMostOnce' /\ DependenciesFirst' /\ RecordsAgree'
    BY <1>0, <1>1, NothingRecorded DEF RejectGraph
  <2>5. VerdictSound'
    <3>1. run'.status = "BLOCKED" /\ run'.reason = "INVALID_GRAPH"
      BY <1>0, <1>1 DEF RejectGraph, Run
    <3>2. \A t \in Task : status'[t] \notin InFlight
      BY <1>0, <1>1 DEF RejectGraph, Control, Flying
    <3> QED
      BY <3>1, <3>2 DEF VerdictSound
  <2>6. ProposalBlocks'
    BY <1>1 DEF RejectGraph, ProposalBlocks
  <2> QED
    BY <2>2, <2>3, <2>4, <2>5, <2>6 DEF IInv
<1>2. CASE EnterLoop
  <2>1. run' = run /\ records' = records /\ pc = "begin" /\ pc' = "top"
    BY <1>2 DEF EnterLoop
  <2>2. /\ status' \in [Task -> TaskStatus]
        /\ \A t \in Task : \/ status'[t] = status[t]
                           \/ status[t] \in Idle /\ status'[t] \in {"READY", "BLOCKED"}
    BY <1>0, <1>2, GraphFacts, SweepEffect DEF EnterLoop
  <2>3. TypeOK'
    BY <1>0, <1>2, <1>b, <2>1, <2>2, SavedTyped DEF EnterLoop, TypeOK, waveVars
  <2>4. Control'
    BY <1>0, <2>1, <2>2 DEF Control, Flying, InFlight
  <2>5. AtMostOnce' /\ DependenciesFirst' /\ RecordsAgree'
    <3>1. \A t \in Task : \/ status'[t] = status[t]
                          \/ /\ status[t] \notin Settled
                             /\ status'[t] \in Idle \cup InFlight \cup {"BLOCKED"}
      BY <2>2 DEF Idle, Settled
    <3>2. \A t \in Task : status'[t] \in InFlight => status[t] \in InFlight
      BY <2>2 DEF InFlight
    <3>3. UNCHANGED <<graph, records>>
      BY <1>2 DEF EnterLoop
    <3> QED
      BY <1>0, <3>1, <3>2, <3>3, NothingRecorded
  <2>6. VerdictSound' /\ ProposalBlocks'
    BY <1>0, <2>1 DEF VerdictSound, ProposalBlocks
  <2> QED
    BY <2>3, <2>4, <2>5, <2>6 DEF IInv
<1>3. CASE StopBetweenTasks
  <2>1. /\ \A t \in Task : status'[t] = IF status[t] \in Settled THEN status[t]
                                        ELSE "BLOCKED"
        /\ status' \in [Task -> TaskStatus]
        /\ records' = records /\ pc' = "returned"
    BY <1>0, <1>3 DEF StopBetweenTasks, TaskStatus
  <2>2. /\ run' \in Run /\ run'.status = "BLOCKED"
        /\ run'.reason \in {"CANCELLED", "TIME_BUDGET_EXCEEDED"}
    <3>1. With(status', "BLOCKED") \in SUBSET Task
      BY DEF With
    <3> QED
      BY <1>0, <1>3, <3>1 DEF StopBetweenTasks, Run
  <2>3. TypeOK'
    BY <1>0, <1>3, <2>1, <2>2, SavedTyped DEF StopBetweenTasks, TypeOK, waveVars, gitVars
  <2>4. Flying' = {}
    BY <2>1 DEF Flying, InFlight, Settled
  <2>5. Control'
    BY <2>1, <2>4 DEF Control
  <2>6. AtMostOnce' /\ DependenciesFirst' /\ RecordsAgree'
    BY <1>0, <1>3, <2>1, NothingRecorded DEF StopBetweenTasks, InFlight, Settled
  <2>7. VerdictSound' /\ ProposalBlocks'
    BY <2>1, <2>2, <2>4 DEF VerdictSound, ProposalBlocks, Stopped, Flying
  <2> QED
    BY <2>3, <2>5, <2>6, <2>7 DEF IInv
<1>4. CASE Complete
  <2>1. /\ run' \in Run /\ run'.status = "COMPLETED"
        /\ records' = records /\ pc' = "returned" /\ status' = status
    BY <1>0, <1>4, RefreshedTyped DEF Complete, Run
  <2>2. TypeOK'
    BY <1>0, <1>4, <2>1, SavedTyped DEF Complete, TypeOK, waveVars, gitVars
  <2>3. Control'
    BY <1>0, <1>4 DEF Complete, Control, Flying
  <2>4. AtMostOnce' /\ DependenciesFirst' /\ RecordsAgree'
    BY <1>0, <1>4, NothingRecorded DEF Complete
  <2>5. VerdictSound' /\ ProposalBlocks'
    BY <1>4, <2>1 DEF Complete, VerdictSound, ProposalBlocks, With, InFlight
  <2> QED
    BY <2>2, <2>3, <2>4, <2>5 DEF IInv
<1>5. CASE NothingReady
  <2>1. /\ run' \in Run /\ run'.status = "BLOCKED"
        /\ records' = records /\ pc' = "returned" /\ status' = status /\ graph' = graph
    <3>1. CASE run.proposal # NoTask
      BY <1>0, <1>5, <3>1, RefreshedTyped DEF NothingReady, ProposalBlocks
    <3>2. CASE run.proposal = NoTask
      BY <1>0, <1>5, <3>2, RefreshedTyped DEF NothingReady, Run
    <3> QED
      BY <3>1, <3>2
  <2>2. TypeOK'
    BY <1>0, <1>5, <2>1, SavedTyped DEF NothingReady, TypeOK, waveVars, gitVars
  <2>3. Control'
    BY <1>0, <1>5 DEF NothingReady, Control, Flying
  <2>4. AtMostOnce' /\ DependenciesFirst' /\ RecordsAgree'
    BY <1>0, <1>5, NothingRecorded DEF NothingReady
  <2>5. VerdictSound'
    <3>1. \A t \in Task : status[t] \notin InFlight
      BY <1>0, <1>5 DEF NothingReady, Control, Flying
    <3>2. With(status, "DONE") # Task
      BY <1>5 DEF NothingReady, With
    <3>3. \A t \in Task : status[t] \in Settled \/ ~(graph.deps[t] \subseteq With(status, "DONE"))
      <4>1. \A t \in Task : ~IsReady(graph, status, t)
        BY <1>0, <1>5, GraphFacts DEF NothingReady, Wave, ReadyTasks
      <4> QED
        BY <1>0, <4>1, GraphFacts DEF IsReady, With
    <3>4. \A t \in Task : status[t] \in Settled => Recorded(t) \/ status[t] = "BLOCKED"
      BY <1>0 DEF RecordsAgree, Settled
    <3>5. \A t \in Task : Recorded(t)' <=> Recorded(t)
      BY <2>1 DEF Recorded
    <3>6. With(status, "DONE")' = With(status, "DONE")
      BY <2>1 DEF With
    <3> QED
      BY <2>1, <3>1, <3>2, <3>3, <3>4, <3>5, <3>6 DEF VerdictSound
  <2>6. ProposalBlocks'
    BY <2>1 DEF ProposalBlocks
  <2> QED
    BY <2>2, <2>3, <2>4, <2>5, <2>6 DEF IInv
<1>6. CASE Poll
  <2>1. /\ pc = "top" /\ pc' = "turn"
        /\ UNCHANGED <<graph, status, run, records, proposals, saved, cur, wave, todo,
                       queued, outcome, carries, worktrees, stuck, head, dirty, base,
                       unclean, checked, stop>>
    BY <1>6 DEF Poll, runVars, waveVars, gitVars
  <2>2. TypeOK'
    BY <1>0, <2>1 DEF TypeOK
  <2>3. Control'
    BY <1>0, <2>1 DEF Control, Flying
  <2>4. AtMostOnce' /\ DependenciesFirst' /\ RecordsAgree'
    BY <1>0, <2>1, NothingRecorded
  <2>5. VerdictSound' /\ ProposalBlocks'
    BY <1>0, <2>1 DEF VerdictSound, ProposalBlocks
  <2> QED
    BY <2>2, <2>3, <2>4, <2>5 DEF IInv
<1> QED
  BY <1>1, <1>2, <1>3, <1>4, <1>5, <1>6

(* The serial body. *)
LEMMA SerialStepsKeepIInv ==
    ASSUME IInv, AdapterFails \/ AdapterImplements \/ ValidatorAnswers \/ ValidatorRaises
    PROVE  IInv'
<1> USE DEF Points, SerialPoints, WavePoints
<1>0. /\ TypeOK /\ Control
      /\ AtMostOnce /\ DependenciesFirst /\ RecordsAgree /\ ProposalBlocks
      /\ run \in Run /\ records \in Seq(Record)
      /\ status \in [Task -> TaskStatus]
  BY DEF IInv, TypeOK
<1>1. /\ pc \in SerialPoints
      /\ cur \in Task /\ Flying = {cur}
  BY <1>0 DEF AdapterFails, AdapterImplements, ValidatorAnswers, ValidatorRaises, Control
(* Whether a rollback works or fails, or there is none, the types stay. *)
<1>r. ASSUME NEW left \in SUBSET Author,
             \/ RollBack(cur, left)
             \/ dirty' = left /\ UNCHANGED <<head, unclean>>
      PROVE  head' \in SUBSET Author /\ dirty' \in SUBSET Author /\ unclean' \in SUBSET Task
  BY <1>0, <1>1, <1>r DEF TypeOK, RollBack
(* What Settle gives once the workspace has been dealt with. *)
<1>2. ASSUME NEW new \in Settled, NEW asked, Settle(cur, new, asked),
             head' \in SUBSET Author, dirty' \in SUBSET Author, unclean' \in SUBSET Task,
             checked' \in [Task -> [verdict : Verdict \cup {"none"}, against : SUBSET Author]]
      PROVE  IInv'
  <2>1. /\ status' \in [Task -> TaskStatus]
        /\ Flying' = Flying \ {cur}
        /\ run' \in Run /\ proposals' \in SUBSET Task
        /\ records' \in Seq(Record)
        /\ saved' \in {NoRun} \cup [run : Run, records : Seq(Record)]
        /\ run'.proposal # NoTask => run'.status = "BLOCKED"
        /\ AtMostOnce' /\ DependenciesFirst' /\ RecordsAgree'
    BY <1>1, <1>2, SettleEffect
  <2>2. TypeOK'
    BY <1>0, <1>2, <2>1 DEF Settle, TypeOK, waveVars
  <2>3. pc' = "top" /\ Flying' = {}
    BY <1>1, <1>2, <2>1 DEF Settle
  <2>4. Control' /\ VerdictSound'
    BY <2>3 DEF Control, VerdictSound
  <2>5. ProposalBlocks'
    BY <2>1 DEF ProposalBlocks
  <2> QED
    BY <2>1, <2>2, <2>4, <2>5 DEF IInv
<1>3. CASE AdapterFails
  <2>1. PICK r \in AdapterFailure \cup {"RAISED", "BLOCKED"}, work \in {{}, {cur}} :
          LET new  == IF r = "RAISED" THEN "FAILED" ELSE StatusOfResult(r)
              left == dirty \cup work
          IN  /\ IF RollsBack(new) THEN RollBack(cur, left)
                                   ELSE dirty' = left /\ UNCHANGED <<head, unclean>>
              /\ Settle(cur, new, TRUE)
    BY <1>3 DEF AdapterFails
  <2> DEFINE new == IF r = "RAISED" THEN "FAILED" ELSE StatusOfResult(r)
  <2>2. new \in Settled
    BY DEF StatusOfResult, Settled
  <2>3. head' \in SUBSET Author /\ dirty' \in SUBSET Author /\ unclean' \in SUBSET Task
    <3>1. dirty \cup work \in SUBSET Author
      BY <1>0, <1>1 DEF TypeOK, Author
    <3> QED
      BY <2>1, <3>1, <1>r
  <2>4. checked' \in [Task -> [verdict : Verdict \cup {"none"}, against : SUBSET Author]]
    BY <1>0, <1>3 DEF AdapterFails, TypeOK
  <2>5. Settle(cur, new, TRUE)
    BY <2>1
  <2> QED
    BY <1>2, <2>2, <2>3, <2>4, <2>5
<1>4. CASE ValidatorAnswers
  <2>1. PICK v \in Verdict :
          LET new == StatusOfVerdict(v) IN
          /\ checked' = [checked EXCEPT ![cur] = [verdict |-> v, against |-> Visible]]
          /\ IF RollsBack(new) THEN RollBack(cur, dirty)
                               ELSE UNCHANGED <<head, dirty, unclean>>
          /\ Settle(cur, new, new = "FAILED")
    BY <1>4 DEF ValidatorAnswers
  <2> DEFINE new == StatusOfVerdict(v)
  <2>2. new \in Settled
    BY DEF StatusOfVerdict, Verdict, Settled
  <2>3. head' \in SUBSET Author /\ dirty' \in SUBSET Author /\ unclean' \in SUBSET Task
    <3>1. dirty \in SUBSET Author
      BY <1>0 DEF TypeOK
    <3> QED
      BY <2>1, <3>1, <1>r
  <2>4. checked' \in [Task -> [verdict : Verdict \cup {"none"}, against : SUBSET Author]]
    <3>1. Visible \in SUBSET Author
      BY <1>0 DEF Visible, TypeOK
    <3> QED
      BY <1>0, <1>1, <2>1, <3>1 DEF TypeOK
  <2>5. Settle(cur, new, new = "FAILED")
    BY <2>1
  <2> QED
    BY <1>2, <2>2, <2>3, <2>4, <2>5
<1>5. CASE AdapterImplements
  <2>1. /\ run' = run /\ records' = records /\ graph' = graph /\ cur' = cur
        /\ pc' = "validating" /\ status' = [status EXCEPT ![cur] = "VALIDATING"]
    BY <1>5 DEF AdapterImplements
  <2>2. status' \in [Task -> TaskStatus] /\ Flying' = {cur}
    <3>1. \A t \in Task : status'[t] = IF t = cur THEN "VALIDATING" ELSE status[t]
      BY <1>0, <1>1, <2>1
    <3>2. status' \in [Task -> TaskStatus]
      BY <1>0, <2>1 DEF TaskStatus
    <3> QED
      BY <1>1, <3>1, <3>2 DEF Flying, InFlight
  <2>3. /\ head' \in SUBSET Author /\ dirty' \in SUBSET Author
    <3>1. /\ head \in SUBSET Author /\ dirty \in SUBSET Author /\ cur \in Author
      BY <1>0, <1>1 DEF TypeOK, Author
    <3>2. AdapterCommits(cur)
      BY <1>5 DEF AdapterImplements
    <3> QED
      BY <3>1, <3>2 DEF AdapterCommits
  <2>4. TypeOK'
    BY <1>0, <1>5, <2>1, <2>2, <2>3, SavedTyped DEF AdapterImplements, TypeOK, waveVars
  <2>5. Control' /\ VerdictSound'
    BY <1>1, <2>1, <2>2 DEF Control, VerdictSound
  <2>6. AtMostOnce' /\ DependenciesFirst' /\ RecordsAgree'
    <3>1. \A t \in Task : \/ status'[t] = status[t]
                          \/ /\ status[t] \in InFlight
                             /\ status'[t] = "VALIDATING"
      BY <1>0, <1>1, <2>1 DEF Flying
    <3> QED
      BY <1>0, <2>1, <3>1, NothingRecorded DEF InFlight, Settled
  <2>7. ProposalBlocks'
    BY <1>0, <1>1, <2>1 DEF ProposalBlocks
  <2> QED
    BY <2>4, <2>5, <2>6, <2>7 DEF IInv
<1>6. CASE ValidatorRaises
  <2>1. /\ UNCHANGED <<graph, status, run, records, proposals, saved, cur, wave, todo,
                       queued, outcome, carries, worktrees, stuck, head, dirty, base,
                       unclean, checked, stop>>
        /\ pc' = "raised"
    BY <1>6 DEF ValidatorRaises, runVars, waveVars, gitVars
  <2>2. TypeOK' /\ Control' /\ VerdictSound'
    BY <1>0, <2>1 DEF TypeOK, Control, VerdictSound
  <2>3. AtMostOnce' /\ DependenciesFirst' /\ RecordsAgree'
    BY <1>0, <2>1, NothingRecorded
  <2>4. ProposalBlocks'
    BY <1>0, <1>1, <2>1 DEF ProposalBlocks
  <2> QED
    BY <2>2, <2>3, <2>4 DEF IInv
<1> QED
  BY <1>3, <1>4, <1>5, <1>6

(* Leaving the top of the loop for a task or for a wave. *)
LEMMA ReadyFacts ==
    ASSUME IInv, pc = "turn"
    PROVE  /\ Wave \in SUBSET Task
           /\ \A t \in Wave : /\ status[t] \in Idle
                              /\ graph.deps[t] \subseteq With(status, "DONE")
<1>1. TypeOK /\ Control /\ TaskIds(graph) = Task
  BY GraphFacts DEF IInv
<1>2. \A t \in Wave : t \in Task /\ IsReady(graph, status, t)
  BY <1>1 DEF Wave, ReadyTasks
<1>3. \A t \in Task : status[t] \notin InFlight /\ status[t] \in TaskStatus
  BY <1>1 DEF Control, Flying, TypeOK
<1>4. \A t \in Wave : status[t] \in Idle
  BY <1>2, <1>3 DEF IsReady, TaskStatus, Idle, InFlight, Settled
<1>5. \A t \in Wave : graph.deps[t] \subseteq With(status, "DONE")
  BY <1>1, <1>2 DEF IsReady, With
<1> QED
  BY <1>2, <1>4, <1>5

LEMMA DispatchKeepsIInv ==
    ASSUME IInv,
           DispatchHead \/ FallBackToSerial \/ FallBackRaises
             \/ WorktreeCreationRaises \/ FanOut
    PROVE  IInv'
<1> USE DEF Points, SerialPoints, WavePoints
<1>0. /\ TypeOK /\ Control
      /\ AtMostOnce /\ DependenciesFirst /\ RecordsAgree /\ ProposalBlocks
      /\ run \in Run /\ records \in Seq(Record)
      /\ status \in [Task -> TaskStatus]
      /\ pc = "turn" /\ Flying = {}
  BY DEF IInv, TypeOK, DispatchHead, FallBackToSerial, FallBackRaises,
         WorktreeCreationRaises, FanOut, Control
<1>1. /\ Wave \in SUBSET Task
      /\ \A t \in Wave : /\ status[t] \in Idle
                         /\ graph.deps[t] \subseteq With(status, "DONE")
  BY <1>0, ReadyFacts
<1>2. \A t \in Task : status[t] \notin InFlight
  BY <1>0 DEF Flying
<1>3. /\ run' = Refreshed /\ graph' = graph /\ records' = records
      /\ run' \in Run /\ run'.status = run.status /\ run'.proposal = run.proposal
  BY <1>0, RefreshedTyped
     DEF DispatchHead, FallBackToSerial, FallBackRaises, WorktreeCreationRaises, FanOut,
         StartSerially
<1>4. pc' # "returned" => VerdictSound' /\ ProposalBlocks'
  BY <1>0, <1>3 DEF VerdictSound, ProposalBlocks
(* Whatever goes in flight is ready; what went in flight and back is PENDING. *)
<1>5. ASSUME NEW S \in SUBSET Wave,
             \A t \in Task : \/ t \in S /\ status'[t] = "IN_PROGRESS"
                             \/ t \notin S /\ status'[t] = status[t]
                             \/ t \in Wave \ S /\ status'[t] = "PENDING"
      PROVE  /\ Flying' = S
             /\ AtMostOnce' /\ DependenciesFirst' /\ RecordsAgree'
  <2>1. Flying' = S
    BY <1>1, <1>2, <1>5 DEF Flying, InFlight
  <2>2. \A t \in Task : \/ status'[t] = status[t]
                        \/ /\ status[t] \notin Settled
                           /\ status'[t] \in Idle \cup InFlight \cup {"BLOCKED"}
    BY <1>1, <1>5 DEF Idle, InFlight, Settled
  <2>3. \A t \in Task : status'[t] \in InFlight =>
                            graph.deps[t] \subseteq With(status, "DONE")
    BY <1>1, <1>2, <1>5 DEF InFlight
  <2> QED
    BY <1>0, <1>3, <2>1, <2>2, <2>3, NothingRecorded
<1>6. ASSUME NEW t \in Wave, NEW before \in [Task -> TaskStatus],
             \A u \in Task : before[u] = status[u] \/ (u \in Wave /\ before[u] = "PENDING"),
             StartSerially(t, before),
             worktrees' \in SUBSET Task, stuck' \in SUBSET Task
      PROVE  IInv'
  <2>1. /\ \A u \in Task : status'[u] = IF u = t THEN "IN_PROGRESS" ELSE before[u]
        /\ status' \in [Task -> TaskStatus]
    BY <1>1, <1>6 DEF StartSerially, TaskStatus
  <2>2. \A u \in Task : \/ u \in {t} /\ status'[u] = "IN_PROGRESS"
                        \/ u \notin {t} /\ status'[u] = status[u]
                        \/ u \in Wave \ {t} /\ status'[u] = "PENDING"
    BY <1>6, <2>1
  <2>3. Flying' = {t} /\ AtMostOnce' /\ DependenciesFirst' /\ RecordsAgree'
    <3>1. {t} \in SUBSET Wave
      OBVIOUS
    <3> QED
      BY <1>5, <2>2, <3>1
  <2>4. cur' = t /\ pc' = "executing" /\ t \in Task
    BY <1>1, <1>6 DEF StartSerially
  <2>5. TypeOK'
    BY <1>0, <1>3, <1>6, <2>1, <2>4, SavedTyped DEF StartSerially, TypeOK, waveVars
  <2>6. Control'
    BY <2>3, <2>4 DEF Control
  <2> QED
    BY <1>4, <2>3, <2>4, <2>5, <2>6 DEF IInv
<1>7. CASE DispatchHead
  <2>1. PICK t \in Wave : IsFirst(graph, Wave, t) /\ StartSerially(t, status)
    BY <1>7 DEF DispatchHead
  <2>2. worktrees' \in SUBSET Task /\ stuck' \in SUBSET Task
    BY <1>0, <1>7 DEF DispatchHead, TypeOK
  <2> QED
    BY <1>0, <1>6, <2>1, <2>2
<1>8. CASE FallBackToSerial
  <2>1. PICK P \in CreatedBeforeFailure :
          /\ \E stay \in SUBSET MayStay(P) :
                worktrees' = worktrees \cup stay /\ stuck' = stuck \cup stay
          /\ \E t \in Wave : StartSerially(t, [u \in Task |-> IF u \in P THEN "PENDING"
                                                               ELSE status[u]])
    BY <1>8 DEF FallBackToSerial
  <2>2. P \subseteq Wave
    BY DEF CreatedBeforeFailure
  <2> DEFINE before == [u \in Task |-> IF u \in P THEN "PENDING" ELSE status[u]]
  <2>3. /\ before \in [Task -> TaskStatus]
        /\ \A u \in Task : before[u] = status[u] \/ (u \in Wave /\ before[u] = "PENDING")
    BY <1>0, <2>2 DEF TaskStatus
  <2>4. PICK t \in Wave : StartSerially(t, before)
    BY <2>1
  <2>5. worktrees' \in SUBSET Task /\ stuck' \in SUBSET Task
    BY <1>0, <1>1, <2>1, <2>2 DEF MayStay, TypeOK
  <2> HIDE DEF before
  <2> QED
    BY <1>6, <2>3, <2>4, <2>5
<1>9. CASE FallBackRaises
  <2>0. PICK P \in CreatedBeforeFailure : \E r \in P :
          LET removed == {t \in P : Before(graph, t, r)} IN
          /\ status' = [t \in Task |-> IF t \in removed THEN "PENDING"
                                       ELSE InProgress(P)[t]]
          /\ \E stay \in SUBSET MayStay(P) : worktrees' = worktrees \cup stay
    BY <1>9 DEF FallBackRaises
  <2>1. PICK r \in P :
          LET removed == {t \in P : Before(graph, t, r)} IN
          /\ status' = [t \in Task |-> IF t \in removed THEN "PENDING"
                                       ELSE InProgress(P)[t]]
          /\ \E stay \in SUBSET MayStay(P) : worktrees' = worktrees \cup stay
    BY <2>0
  <2>2. P \in SUBSET Wave
    BY DEF CreatedBeforeFailure
  <2> DEFINE removed == {t \in P : Before(graph, t, r)}
  <2>3. \A t \in Task : status'[t] = IF t \in removed THEN "PENDING"
                                    ELSE IF t \in P THEN "IN_PROGRESS" ELSE status[t]
    BY <2>1
  <2>4. AtMostOnce' /\ DependenciesFirst' /\ RecordsAgree'
    <3>1. P \ removed \in SUBSET Wave /\ removed \in SUBSET P
      BY <2>2
    <3> HIDE DEF removed
    <3>2. \A t \in Task : \/ t \in P \ removed /\ status'[t] = "IN_PROGRESS"
                          \/ t \notin P \ removed /\ status'[t] = status[t]
                          \/ t \in Wave \ (P \ removed) /\ status'[t] = "PENDING"
      BY <2>2, <2>3, <3>1
    <3> QED
      BY <1>5, <3>1, <3>2
  <2>5. /\ status' \in [Task -> TaskStatus]
        /\ worktrees' \in SUBSET Task /\ pc' = "raised"
    <3>1. status' \in [Task -> TaskStatus]
      BY <1>0, <2>1 DEF TaskStatus
    <3>2. worktrees' \in SUBSET Task
      BY <1>0, <1>1, <2>1, <2>2 DEF MayStay, TypeOK
    <3> QED
      BY <1>9, <3>1, <3>2 DEF FallBackRaises
  <2>6. TypeOK'
    BY <1>0, <1>3, <1>9, <2>5 DEF FallBackRaises, TypeOK, gitVars
  <2>7. Control'
    BY <2>5 DEF Control
  <2> QED
    BY <1>4, <2>4, <2>5, <2>6, <2>7 DEF IInv
<1>10. CASE WorktreeCreationRaises
  <2>1. PICK P \in CreatedBeforeFailure, partial \in BOOLEAN :
          /\ status' = [t \in Task |-> IF t \in P THEN "IN_PROGRESS" ELSE status[t]]
          /\ worktrees' = worktrees \cup (IF partial THEN MayStay(P) ELSE P)
    BY <1>10 DEF WorktreeCreationRaises
  <2>2. P \in SUBSET Wave
    BY DEF CreatedBeforeFailure
  <2>3. AtMostOnce' /\ DependenciesFirst' /\ RecordsAgree'
    BY <1>5, <2>1, <2>2
  <2>4. status' \in [Task -> TaskStatus] /\ worktrees' \in SUBSET Task /\ pc' = "raised"
    <3>1. worktrees' \in SUBSET Task
      BY <1>0, <1>1, <2>1, <2>2 DEF MayStay, TypeOK
    <3> QED
      BY <1>0, <1>1, <1>10, <2>1, <2>2, <3>1 DEF WorktreeCreationRaises, TaskStatus
  <2>5. TypeOK'
    BY <1>0, <1>3, <1>10, <2>4 DEF WorktreeCreationRaises, TypeOK, gitVars
  <2>6. Control'
    BY <2>4 DEF Control
  <2> QED
    BY <1>4, <2>3, <2>4, <2>5, <2>6 DEF IInv
<1>11. CASE FanOut
  <2>1. /\ \A t \in Task : status'[t] = IF t \in Wave THEN "IN_PROGRESS" ELSE status[t]
        /\ status' \in [Task -> TaskStatus]
    BY <1>0, <1>11 DEF FanOut, TaskStatus
  <2>2. /\ wave' = Wave /\ todo' = Wave /\ queued' = Wave
        /\ worktrees' = worktrees \cup Wave /\ base' = head
        /\ pc' = "workers"
    BY <1>11 DEF FanOut
  <2>3. Flying' = Wave /\ AtMostOnce' /\ DependenciesFirst' /\ RecordsAgree'
    BY <1>5, <2>1
  <2>4. TypeOK'
    BY <1>0, <1>1, <1>3, <1>11, <2>1, <2>2 DEF FanOut, TypeOK
  <2>5. Control'
    BY <2>2, <2>3 DEF Control
  <2> QED
    BY <1>4, <2>2, <2>3, <2>4, <2>5 DEF IInv
<1> QED
  BY <1>7, <1>8, <1>9, <1>10, <1>11

(* The phases of a wave, and a request to stop. *)

(* What Handled does to the control state, wherever it leads. *)
LEMMA HandledEffect ==
    ASSUME TypeOK, NEW t \in todo, NEW next \in Points, Handled(t, next), wave' = wave
    PROVE  /\ todo' \in SUBSET wave'
           /\ pc' \in {pc, next}
           /\ pc' = pc \/ todo = {t}
           /\ pc' = pc => \/ todo' = todo \ {t}
                          \/ pc = next /\ todo' = wave
BY DEF Handled, TypeOK

LEMMA ReclaimTyped ==
    ASSUME TypeOK, Reclaim
    PROVE  worktrees' \in SUBSET Task /\ stuck' \in SUBSET Task
BY DEF Reclaim, Reclaimed, TypeOK

LEMMA WaveStepsKeepIInv ==
    ASSUME IInv,
           WorkerStarts \/ WorkerReturns \/ WorkerRaises \/ MergeBranch \/ Revalidate
             \/ RevalidationRaises \/ RequestStop
    PROVE  IInv'
<1> USE DEF Points, SerialPoints, WavePoints
<1>0. /\ TypeOK /\ Control
      /\ AtMostOnce /\ DependenciesFirst /\ RecordsAgree /\ ProposalBlocks /\ VerdictSound
  BY DEF IInv
<1>1. UNCHANGED <<graph, status, run, records, proposals, saved, cur, wave>>
  BY DEF WorkerStarts, WorkerReturns, WorkerRaises, MergeBranch, Revalidate,
         RevalidationRaises, RequestStop, runVars, loopVars
<1>2. AtMostOnce' /\ DependenciesFirst' /\ RecordsAgree' /\ Flying' = Flying
  BY <1>0, <1>1, NothingRecorded DEF Flying
<1>3. ASSUME pc # "returned", pc' # "returned"
      PROVE  ProposalBlocks' /\ VerdictSound'
  BY <1>0, <1>1, <1>3 DEF ProposalBlocks, VerdictSound
<1>4. CASE WorkerReturns
  <2>1. PICK t \in todo :
          /\ \/ \E r \in AdapterFailure \cup {"RAISED", "BLOCKED"} :
                   outcome' = [outcome EXCEPT ![t] =
                      IF r = "RAISED" THEN "FAILED" ELSE StatusOfResult(r)]
                /\ UNCHANGED <<carries, checked>>
             \/ \E v \in Verdict, committed \in Commits :
                   /\ outcome' = [outcome EXCEPT ![t] = StatusOfVerdict(v)]
                   /\ checked' = [checked EXCEPT ![t] =
                                     [verdict |-> v, against |-> WorktreeView(t)]]
                   /\ carries' = IF committed THEN carries \cup {t} ELSE carries
          /\ Handled(t, "merging")
    BY <1>4 DEF WorkerReturns
  <2>2. /\ t \in Task /\ pc = "workers" /\ Flying = wave
        /\ outcome \in [Task -> Settled \cup {"none"}]
        /\ carries \in SUBSET Task
        /\ checked \in [Task -> [verdict : Verdict \cup {"none"}, against : SUBSET Author]]
        /\ base \cup {t} \in SUBSET Author
        /\ \A u \in wave \ todo : outcome[u] # "none"
    BY <1>0, <1>4 DEF WorkerReturns, TypeOK, Control, Author
  <2>3. PICK new \in Settled : outcome' = [outcome EXCEPT ![t] = new]
    BY <2>1 DEF StatusOfResult, StatusOfVerdict, AdapterFailure, Verdict, Settled
  <2>4. outcome' \in [Task -> Settled \cup {"none"}]
    BY <2>2, <2>3
  <2>5. \A u \in (wave \ todo) \cup {t} : outcome'[u] # "none"
    BY <1>0, <2>2, <2>3 DEF Settled, TypeOK
  <2>6. /\ carries' \in SUBSET Task
        /\ checked' \in [Task -> [verdict : Verdict \cup {"none"}, against : SUBSET Author]]
    <3>1. CASE UNCHANGED <<carries, checked>>
      BY <2>2, <3>1
    <3>2. CASE \E v \in Verdict, committed \in Commits :
                   /\ checked' = [checked EXCEPT ![t] =
                                     [verdict |-> v, against |-> WorktreeView(t)]]
                   /\ carries' = IF committed THEN carries \cup {t} ELSE carries
      BY <2>2, <3>2 DEF Author
    <3> QED
      BY <2>1, <3>1, <3>2
  <2>7. /\ todo' \in SUBSET wave' /\ pc' \in {"workers", "merging"}
        /\ pc' = "merging" => todo = {t}
        /\ pc' = "workers" => todo' = todo \ {t}
    BY <1>0, <1>1, <2>1, <2>2, HandledEffect
  <2>8. TypeOK'
    BY <1>0, <1>1, <1>4, <2>4, <2>6, <2>7 DEF WorkerReturns, TypeOK, gitVars
  <2>9. Control'
    BY <1>1, <1>2, <2>2, <2>5, <2>7 DEF Control
  <2> QED
    BY <1>2, <1>3, <2>2, <2>7, <2>8, <2>9 DEF IInv
<1>5. CASE MergeBranch
  <2>1. PICK t \in todo :
          /\ \/ /\ outcome[t] = "DONE"
                /\ head' = head \cup (carries \cap {t})
                /\ UNCHANGED <<outcome, dirty>>
             \/ /\ outcome[t] = "DONE"
                /\ outcome' = [outcome EXCEPT ![t] = "FAILED"]
                /\ FailedMerge(t)
             \/ /\ outcome[t] # "DONE"
                /\ UNCHANGED <<outcome, head, dirty>>
          /\ Handled(t, "revalidating")
    BY <1>5 DEF MergeBranch
  <2>2. /\ t \in Task /\ pc = "merging" /\ Flying = wave
        /\ outcome \in [Task -> Settled \cup {"none"}]
        /\ head \in SUBSET Author /\ dirty \in SUBSET Author /\ t \in Author
        /\ \A u \in wave : outcome[u] # "none"
    BY <1>0, <1>5 DEF MergeBranch, TypeOK, Control, Author
  <2>3. /\ outcome' \in [Task -> Settled \cup {"none"}]
        /\ head' \in SUBSET Author /\ dirty' \in SUBSET Author
        /\ \A u \in wave : outcome'[u] # "none"
    <3>1. head' \in SUBSET Author /\ dirty' \in SUBSET Author
      BY <2>1, <2>2 DEF FailedMerge
    <3>2. UNCHANGED outcome \/ outcome' = [outcome EXCEPT ![t] = "FAILED"]
      BY <2>1
    <3> QED
      BY <1>0, <2>2, <3>1, <3>2 DEF Settled, TypeOK
  <2>4. /\ todo' \in SUBSET wave' /\ pc' \in {"merging", "revalidating"}
    BY <1>0, <1>1, <2>1, <2>2, HandledEffect
  <2>5. TypeOK'
    BY <1>0, <1>1, <1>5, <2>3, <2>4 DEF MergeBranch, TypeOK
  <2>6. Control'
    BY <1>1, <1>2, <2>2, <2>3, <2>4 DEF Control
  <2> QED
    BY <1>2, <1>3, <2>2, <2>4, <2>5, <2>6 DEF IInv
<1>6. CASE Revalidate
  <2>1. PICK t \in todo :
          /\ \/ /\ outcome[t] = "DONE"
                /\ \E v \in Verdict :
                      /\ outcome' = [outcome EXCEPT ![t] =
                                        IF v = "FAIL" THEN "FAILED" ELSE @]
                      /\ checked' = [checked EXCEPT ![t] =
                                        [verdict |-> v, against |-> Visible]]
             \/ /\ outcome[t] # "DONE"
                /\ UNCHANGED <<outcome, checked>>
          /\ Handled(t, "finalizing")
    BY <1>6 DEF Revalidate
  <2>2. /\ t \in Task /\ pc = "revalidating" /\ Flying = wave
        /\ outcome \in [Task -> Settled \cup {"none"}]
        /\ checked \in [Task -> [verdict : Verdict \cup {"none"}, against : SUBSET Author]]
        /\ Visible \in SUBSET Author
        /\ \A u \in wave : outcome[u] # "none"
    BY <1>0, <1>6 DEF Revalidate, TypeOK, Control, Visible
  <2>3. /\ outcome' \in [Task -> Settled \cup {"none"}]
        /\ checked' \in [Task -> [verdict : Verdict \cup {"none"}, against : SUBSET Author]]
        /\ \A u \in wave : outcome'[u] # "none"
    <3>1. CASE outcome[t] = "DONE"
      <4>1. PICK v \in Verdict :
              /\ outcome' = [outcome EXCEPT ![t] = IF v = "FAIL" THEN "FAILED" ELSE @]
              /\ checked' = [checked EXCEPT ![t] = [verdict |-> v, against |-> Visible]]
        BY <2>1, <3>1
      <4>2. outcome' \in [Task -> Settled \cup {"none"}]
        BY <2>2, <4>1 DEF Settled
      <4>3. \A u \in wave : outcome'[u] # "none"
        BY <2>2, <4>1
      <4>4. checked' \in [Task -> [verdict : Verdict \cup {"none"}, against : SUBSET Author]]
        BY <2>2, <4>1
      <4> QED
        BY <4>2, <4>3, <4>4
    <3>2. CASE outcome[t] # "DONE"
      BY <2>1, <2>2, <3>2
    <3> QED
      BY <3>1, <3>2
  <2>4. /\ todo' \in SUBSET wave'
        /\ \/ pc' = "revalidating"
           \/ pc' = "finalizing" /\ todo' = wave
    BY <1>0, <1>1, <2>1, <2>2, HandledEffect DEF Handled
  <2>5. TypeOK'
    BY <1>0, <1>1, <1>6, <2>3, <2>4 DEF Revalidate, TypeOK, gitVars
  <2>6. Control'
    BY <1>1, <1>2, <2>2, <2>3, <2>4 DEF Control
  <2> QED
    BY <1>2, <1>3, <2>2, <2>4, <2>5, <2>6 DEF IInv
<1>7. CASE WorkerRaises
  <2>1. /\ pc = "workers" /\ pc' = "raised" /\ todo' = todo
        /\ UNCHANGED <<queued, outcome, carries, worktrees, stuck, head, dirty, base,
                       unclean, checked, stop>>
    BY <1>7 DEF WorkerRaises, waveVars, gitVars
  <2>2. TypeOK' /\ Control'
    BY <1>0, <1>1, <2>1 DEF TypeOK, Control
  <2> QED
    BY <1>2, <1>3, <2>1, <2>2 DEF IInv
<1>8. CASE RevalidationRaises
  <2>1. /\ pc = "revalidating" /\ pc' = "raised" /\ todo' = todo
        /\ worktrees' \in SUBSET Task /\ stuck' \in SUBSET Task
        /\ UNCHANGED <<queued, outcome, carries, head, dirty, base, unclean, checked, stop>>
    BY <1>0, <1>8, ReclaimTyped DEF RevalidationRaises, gitVars
  <2>2. TypeOK' /\ Control'
    BY <1>0, <1>1, <2>1 DEF TypeOK, Control
  <2> QED
    BY <1>2, <1>3, <2>1, <2>2 DEF IInv
<1>9. CASE RequestStop
  <2>1. /\ pc # "returned" /\ pc' = pc /\ todo' = todo
        /\ UNCHANGED <<queued, outcome, carries, worktrees, stuck, head, dirty, base,
                       unclean, checked>>
        /\ stop' \in SUBSET {"cancel", "budget"}
    BY <1>0, <1>9 DEF RequestStop, loopVars, waveVars, gitVars, TypeOK,
                      OrchestratorAssumption
  <2>2. TypeOK'
    BY <1>0, <1>1, <2>1 DEF TypeOK
  <2>3. Control'
    BY <1>0, <1>1, <1>2, <2>1 DEF Control
  <2> QED
    BY <1>2, <1>3, <2>1, <2>2, <2>3 DEF IInv
<1>10. CASE WorkerStarts
  <2>1. /\ pc = "workers" /\ pc' = pc /\ todo' = todo /\ queued' \in SUBSET queued
        /\ UNCHANGED <<outcome, carries, worktrees, stuck, head, dirty, base, unclean,
                       checked, stop>>
    BY <1>10 DEF WorkerStarts, loopVars, gitVars
  <2>2. TypeOK'
    BY <1>0, <1>1, <2>1 DEF TypeOK
  <2>3. Control'
    BY <1>0, <1>1, <1>2, <2>1 DEF Control
  <2> QED
    BY <1>2, <1>3, <2>1, <2>2, <2>3 DEF IInv
<1> QED
  BY <1>4, <1>5, <1>6, <1>7, <1>8, <1>9, <1>10

LEMMA FinalizeKeepsIInv ==
    ASSUME IInv, Finalize
    PROVE  IInv'
<1> USE DEF Points, SerialPoints, WavePoints
<1>0. /\ TypeOK /\ Control
      /\ AtMostOnce /\ DependenciesFirst /\ RecordsAgree /\ ProposalBlocks
  BY DEF IInv
<1>1. PICK t \in todo :
          /\ status' = [status EXCEPT ![t] = outcome[t]]
          /\ records' = Append(records, [task |-> t, status |-> outcome[t]])
          /\ MaybePropose(t, outcome[t] = "FAILED")
          /\ IF Replan /\ outcome[t] = "FAILED" THEN SaveRun ELSE UNCHANGED saved
          /\ IF todo = {t}
             THEN /\ pc' = "top" /\ todo' = {} /\ wave' = {}
                  /\ Reclaim /\ carries' = {}
                  /\ outcome' = [u \in Task |-> "none"]
             ELSE /\ todo' = todo \ {t}
                  /\ UNCHANGED <<pc, wave, worktrees, stuck, carries, outcome>>
  BY DEF Finalize
<1>2. /\ pc = "finalizing" /\ Flying = todo /\ t \in Task /\ t \in wave
      /\ \A u \in wave : outcome[u] # "none"
      /\ outcome \in [Task -> Settled \cup {"none"}]
      /\ status \in [Task -> TaskStatus]
      /\ todo \in SUBSET wave
  BY <1>0 DEF Finalize, Control, TypeOK
<1>3. outcome[t] \in Settled
  BY <1>2
<1>4. /\ status'[t] = outcome[t]
      /\ \A u \in Task \ {t} : status'[u] = status[u]
      /\ status' \in [Task -> TaskStatus]
  BY <1>1, <1>2, <1>3 DEF Settled, TaskStatus
<1>5. Flying' = todo \ {t}
  BY <1>2, <1>3, <1>4 DEF Flying, InFlight, Settled
<1>6. AtMostOnce' /\ DependenciesFirst' /\ RecordsAgree'
  <2>1. UNCHANGED graph
    BY DEF Finalize
  <2> QED
    BY <1>0, <1>1, <1>2, <1>3, <1>4, <2>1, OneRecorded
<1>7. records' \in Seq(Record)
  BY <1>0, <1>1, <1>2, <1>3, RecordTyped
<1>8. /\ run' \in Run /\ proposals' \in SUBSET Task
      /\ run'.proposal # NoTask => run'.status = "BLOCKED"
  BY <1>0, <1>1, <1>2, ProposalTyped
<1>9. saved' \in {NoRun} \cup [run : Run, records : Seq(Record)]
  BY <1>0, <1>1, <1>7, <1>8, SavedTyped DEF TypeOK
<1>10. \/ /\ todo = {t} /\ pc' = "top" /\ todo' = {} /\ wave' = {}
          /\ carries' = {} /\ outcome' = [u \in Task |-> "none"]
          /\ worktrees' \in SUBSET Task /\ stuck' \in SUBSET Task
       \/ /\ todo' = todo \ {t} /\ pc' = pc
          /\ UNCHANGED <<wave, worktrees, stuck, carries, outcome>>
  BY <1>0, <1>1, ReclaimTyped
<1>11. TypeOK'
  BY <1>0, <1>4, <1>7, <1>8, <1>9, <1>10 DEF Finalize, TypeOK, gitVars
<1>12. Control'
  BY <1>2, <1>5, <1>10 DEF Control
<1>13. pc' # "returned"
  BY <1>2, <1>10
<1>14. ProposalBlocks' /\ VerdictSound'
  BY <1>8, <1>13 DEF ProposalBlocks, VerdictSound
<1> QED
  BY <1>6, <1>11, <1>12, <1>14 DEF IInv

LEMMA NextKeepsIInv == IInv /\ [Next]_vars => IInv'
<1> SUFFICES ASSUME IInv, [Next]_vars PROVE IInv'
  OBVIOUS
<1>1. CASE LoopStep
  BY <1>1, EntryAndExitKeepIInv, DispatchKeepsIInv, SerialStepsKeepIInv,
     WaveStepsKeepIInv, FinalizeKeepsIInv DEF LoopStep
<1>2. CASE RequestStop
  BY <1>2, WaveStepsKeepIInv
<1>3. CASE UNCHANGED vars
  <2>1. UNCHANGED <<graph, status, run, records, proposals, saved, pc, cur, wave, todo,
                    queued, outcome, carries, worktrees, stuck, head, dirty, base,
                    unclean, checked, stop>>
    BY <1>3 DEF vars, runVars, loopVars, waveVars, gitVars
  <2>2. TypeOK' /\ Control' /\ ProposalBlocks' /\ AtMostOnce'
    BY <2>1 DEF IInv, TypeOK, Control, Flying, ProposalBlocks, AtMostOnce
  <2>3. DependenciesFirst' /\ RecordsAgree' /\ VerdictSound'
    BY <2>1 DEF IInv, DependenciesFirst, RecordsAgree, VerdictSound, Recorded, With, Stopped
  <2> QED
    BY <2>2, <2>3 DEF IInv
<1> QED
  BY <1>1, <1>2, <1>3 DEF Next, Rest

-----------------------------------------------------------------------------
(* What holds in every state of every run. *)

(* IInv is an invariant of run(), serial or parallel, for every graph. *)
THEOREM Invariance == Spec => []IInv
  BY InitIInv, NextKeepsIInv, PTL DEF Spec

(* Type correctness. *)
THEOREM TypeCorrect == Spec => []TypeOK
<1>1. IInv => TypeOK
  BY DEF IInv
<1> QED
  BY <1>1, Invariance, PTL

(* No task is executed twice in a run. *)
THEOREM ExecutedAtMostOnce == Spec => []AtMostOnce
<1>1. IInv => AtMostOnce
  BY DEF IInv
<1> QED
  BY <1>1, Invariance, PTL

(* Nothing runs before what it depends on is DONE, or after it ceased to be. *)
THEOREM DependenciesRespected == Spec => []DependenciesFirst
<1>1. IInv => DependenciesFirst
  BY DEF IInv
<1> QED
  BY <1>1, Invariance, PTL

(* The records of a run and the statuses of its tasks agree. *)
THEOREM RecordsTrustworthy == Spec => []RecordsAgree
<1>1. IInv => RecordsAgree
  BY DEF IInv
<1> QED
  BY <1>1, Invariance, PTL

(* What run() returns is the truth about the tasks. *)
THEOREM VerdictTrustworthy == Spec => []VerdictSound
<1>1. IInv => VerdictSound
  BY DEF IInv
<1> QED
  BY <1>1, Invariance, PTL
===============================================================================
