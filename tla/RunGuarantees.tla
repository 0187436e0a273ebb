---------------------------- MODULE RunGuarantees ----------------------------
(***************************************************************************)
(* Proofs of what an execution run guarantees about the workspace, its     *)
(* worktrees, proposals, reports and files, for every set of tasks, every  *)
(* task graph and every configuration of Orchestrator.                     *)
(***************************************************************************)
EXTENDS OrchestratorProofs

USE OrchestratorAssumption
USE DEF TurnBegins, AllDone, StoppedStatus, BackToPending, InProgress, HeadBeforeTask,
        WorkspaceView, Finalized

(* The tasks an action takes its turn on are tasks of the run. *)
LEMMA Current ==
    ASSUME IInv
    PROVE  /\ status \in [Task -> TaskStatus]
           /\ TaskIds(graph) = Task
           /\ wave \in SUBSET Task /\ todo \in SUBSET wave
           /\ pc \in SerialPoints => cur \in Flying /\ cur \in Task
           /\ \A t \in Wave : t \in Task /\ status[t] \notin Settled
           /\ pc = "turn" => \A t \in Wave : status[t] \in Idle
<1>1. /\ TypeOK /\ Control /\ status \in [Task -> TaskStatus]
      /\ wave \in SUBSET Task /\ todo \in SUBSET wave
  BY DEF IInv, TypeOK
<1>2. TaskIds(graph) = Task
  BY <1>1, GraphFacts
<1>3. \A t \in Wave : t \in Task /\ status[t] \notin Settled
  BY <1>2 DEF Wave, ReadyTasks, IsReady
<1>4. pc = "turn" => \A t \in Wave : status[t] \in Idle
  BY <1>1, <1>3 DEF Control, Flying, Settled, Idle, InFlight, TaskStatus
<1>5. pc \in SerialPoints => cur \in Flying /\ cur \in Task
  BY <1>1 DEF Control
<1> QED
  BY <1>1, <1>2, <1>3, <1>4, <1>5

(* What happens to the statuses when a task in flight settles. *)
LEMMA SettleMoves ==
    ASSUME IInv, NEW t \in Flying, NEW new \in Settled, NEW asked, Settle(t, new, asked)
    PROVE  /\ status'[t] = new
           /\ \A u \in Task \ {t} :
                 \/ status'[u] = status[u]
                 \/ status[u] \in Idle /\ status'[u] \in {"READY", "BLOCKED"}
<1> DEFINE before == [status EXCEPT ![t] = new]
<1>1. t \in Task /\ TaskIds(graph) = Task /\ status \in [Task -> TaskStatus]
  BY Current DEF Flying
<1>2. /\ before \in [Task -> TaskStatus] /\ before[t] = new
      /\ \A u \in Task \ {t} : before[u] = status[u]
  BY <1>1 DEF Settled, TaskStatus
<1>3. UpdateStates(graph, before, status')
  BY DEF Settle
<1> HIDE DEF before
<1>4. \A u \in Task : \/ status'[u] = before[u]
                      \/ before[u] \in Idle /\ status'[u] \in {"READY", "BLOCKED"}
  BY <1>1, <1>2, <1>3, SweepEffect
<1> QED
  BY <1>1, <1>2, <1>4 DEF Settled, Idle

(* Both ways into the serial body start one task that was idle. *)
LEMMA SerialStart ==
    ASSUME IInv, DispatchHead \/ FallBackToSerial
    PROVE  /\ \E t \in Wave :
                 /\ t \in Task /\ status[t] \in Idle /\ cur' = t
                 /\ status'[t] = "IN_PROGRESS"
                 /\ \A u \in Task \ {t} :
                       \/ status'[u] = status[u]
                       \/ status[u] \in Idle /\ status'[u] = "PENDING"
           /\ run' = Refreshed /\ UNCHANGED records /\ SaveRun
           /\ base' = head /\ pc = "turn" /\ pc' = "executing"
           /\ stuck \subseteq stuck' /\ worktrees' \subseteq worktrees \cup stuck'
           /\ UNCHANGED <<graph, proposals, wave, todo, head, dirty, unclean>>
<1>0. /\ status \in [Task -> TaskStatus]
      /\ pc = "turn" => \A t \in Wave : t \in Task /\ status[t] \in Idle
  BY Current
<1>1. CASE DispatchHead
  <2>1. PICK t \in Wave : StartSerially(t, status)
    BY <1>1 DEF DispatchHead
  <2> QED
    BY <1>0, <1>1, <2>1 DEF DispatchHead, StartSerially
<1>2. CASE FallBackToSerial
  <2>1. PICK P \in CreatedBeforeFailure, t \in Wave : StartSerially(t, BackToPending(P))
    BY <1>2 DEF FallBackToSerial
  <2>2. P \in SUBSET Wave
    BY DEF CreatedBeforeFailure
  <2>4. stuck \subseteq stuck' /\ worktrees' \subseteq worktrees \cup stuck'
    BY <1>2 DEF FallBackToSerial
  <2>3. /\ status'[t] = "IN_PROGRESS"
        /\ \A u \in Task \ {t} :
              \/ status'[u] = status[u]
              \/ status[u] \in Idle /\ status'[u] = "PENDING"
    BY <1>0, <1>2, <2>1, <2>2 DEF FallBackToSerial, StartSerially
  <2> QED
    BY <1>0, <1>2, <2>1, <2>3, <2>4 DEF FallBackToSerial, StartSerially
<1> QED
  BY <1>1, <1>2

(* The answers of the serial body, as a settled task. *)
LEMMA SerialAnswers ==
    ASSUME IInv, AdapterFails \/ ValidatorAnswers
    PROVE  \E new \in Settled, asked \in BOOLEAN :
              /\ Settle(cur, new, asked) /\ cur \in Flying
              /\ new = "DONE" => pc = "validating"
              /\ new = "FAILED" => asked = TRUE
              /\ \/ /\ RollsBack(new)
                    /\ head' = base /\ dirty' = {} /\ unclean' = unclean
                 \/ /\ RollsBack(new) /\ unclean' = unclean \cup {cur}
                    /\ head' \in {base, head} /\ dirty' \subseteq dirty \cup {cur}
                 \/ /\ ~RollsBack(new) /\ unclean' = unclean
                    /\ head' = head /\ dirty' \subseteq dirty \cup {cur}
<1>r. ASSUME NEW new, NEW left, left \subseteq dirty \cup {cur},
             IF RollsBack(new) THEN RollBack(cur, left)
                               ELSE dirty' = left /\ UNCHANGED <<head, unclean>>
      PROVE  \/ /\ RollsBack(new)
                /\ head' = base /\ dirty' = {} /\ unclean' = unclean
             \/ /\ RollsBack(new) /\ unclean' = unclean \cup {cur}
                /\ head' \in {base, head} /\ dirty' \subseteq dirty \cup {cur}
             \/ /\ ~RollsBack(new) /\ unclean' = unclean
                /\ head' = head /\ dirty' \subseteq dirty \cup {cur}
  BY <1>r DEF RollBack
<1>1. CASE AdapterFails
  <2>1. PICK r \in AdapterFailure \cup {"RAISED", "BLOCKED"}, work \in {{}, {cur}} :
           LET new  == IF r = "RAISED" THEN "FAILED" ELSE StatusOfResult(r)
               left == dirty \cup work
           IN  /\ IF RollsBack(new) THEN RollBack(cur, left)
                                    ELSE dirty' = left /\ UNCHANGED <<head, unclean>>
               /\ Settle(cur, new, TRUE)
    BY <1>1 DEF AdapterFails
  <2> DEFINE new == IF r = "RAISED" THEN "FAILED" ELSE StatusOfResult(r)
             left == dirty \cup work
  <2>2. new \in Settled /\ new # "DONE"
    BY DEF StatusOfResult, Settled
  <2>3. left \subseteq dirty \cup {cur}
    OBVIOUS
  <2>4. cur \in Flying
    BY <1>1, Current DEF AdapterFails, SerialPoints
  <2>5. /\ Settle(cur, new, TRUE)
        /\ IF RollsBack(new) THEN RollBack(cur, left)
                             ELSE dirty' = left /\ UNCHANGED <<head, unclean>>
    BY <2>1
  <2> HIDE DEF new, left
  <2> QED
    BY <2>2, <2>3, <2>4, <2>5, <1>r
<1>2. CASE ValidatorAnswers
  <2>1. PICK v \in Verdict :
           /\ Settle(cur, StatusOfVerdict(v), StatusOfVerdict(v) = "FAILED")
           /\ IF RollsBack(StatusOfVerdict(v)) THEN RollBack(cur, dirty)
                                               ELSE UNCHANGED <<head, dirty, unclean>>
    BY <1>2 DEF ValidatorAnswers
  <2>2. StatusOfVerdict(v) \in Settled
    BY DEF StatusOfVerdict, Verdict, Settled
  <2>3. cur \in Flying /\ pc = "validating"
    BY <1>2, Current DEF ValidatorAnswers, SerialPoints
  <2>4. IF RollsBack(StatusOfVerdict(v)) THEN RollBack(cur, dirty)
        ELSE dirty' = dirty /\ UNCHANGED <<head, unclean>>
    BY <2>1
  <2> QED
    BY <2>1, <2>2, <2>3, <2>4, <1>r
<1> QED
  BY <1>1, <1>2

-----------------------------------------------------------------------------
(* Before the run has entered its loop nothing has happened to it. *)
NothingBegun ==
    pc = "begin" =>
        /\ \A t \in Task : status[t] \in {"PENDING", "BLOCKED"}
        /\ head = {} /\ dirty \subseteq {User}
        /\ proposals = {} /\ worktrees = {}

LEMMA NothingBegunHolds ==
    /\ Init => NothingBegun
    /\ IInv /\ NothingBegun /\ [Next]_vars => NothingBegun'
<1>1. ASSUME Init PROVE NothingBegun
  <2>1. \A t \in Task : status[t] \in {"PENDING", "BLOCKED"}
    BY <1>1 DEF Init
  <2> QED
    BY <1>1, <2>1 DEF Init, NothingBegun
<1>2. ASSUME IInv, NothingBegun, [Next]_vars PROVE NothingBegun'
  <2>1. CASE RequestStop \/ UNCHANGED vars
    BY <1>2, <2>1 DEF NothingBegun, RequestStop, vars, runVars, loopVars, waveVars, gitVars
  <2>2. CASE LoopStep
    <3>1. pc' # "begin"
      BY <2>2 DEF LoopStep, RejectGraph, EnterLoop, StopBetweenTasks, Poll, Complete,
                  NothingReady, DispatchHead, FallBackToSerial, FallBackRaises,
                  StartSerially, AdapterFails, AdapterImplements, ValidatorAnswers, Settle,
                  ValidatorRaises, WorktreeCreationRaises, FanOut, WorkerStarts, loopVars,
                  WorkerReturns, WorkerRaises, MergeBranch, Revalidate, RevalidationRaises,
                  Handled, Finalize
    <3> QED
      BY <3>1 DEF NothingBegun
  <2> QED
    BY <1>2, <2>1, <2>2 DEF Next, Rest
<1> QED
  BY <1>1, <1>2

-----------------------------------------------------------------------------
(* While every commit succeeds, HEAD contains the work of each DONE task,   *)
(* and so does the point a rollback returns to; on the way there, a wave    *)
(* carries it on a branch until its turn to merge.                          *)
WorkKept ==
    /\ \A t \in With(status, "DONE") : /\ t \in head
                                       /\ pc \in SerialPoints => t \in base
    /\ pc = "validating" => cur \in head
    /\ pc = "workers" => \A t \in wave \ todo : outcome[t] = "DONE" => t \in carries
    /\ pc = "merging" => \A t \in wave : outcome[t] = "DONE" =>
                            t \in carries /\ (t \notin todo => t \in head)
    /\ pc \in {"revalidating", "finalizing"} =>
          \A t \in wave : outcome[t] = "DONE" => t \in head

LEMMA WorkKeptHolds ==
    ASSUME Commits = {TRUE}, IInv, NothingBegun, WorkKept, [Next]_vars
    PROVE  WorkKept'
<1>0. /\ status \in [Task -> TaskStatus]
      /\ outcome \in [Task -> Settled \cup {"none"}]
      /\ wave \in SUBSET Task /\ todo \in SUBSET wave
  BY DEF IInv, TypeOK
<1>w. \A t \in Wave : t \in Task /\ status[t] \notin Settled
  BY Current
<1>d. \A t \in With(status, "DONE") : t \in Task /\ t \in head
  BY DEF WorkKept, With
<1>1. CASE RejectGraph \/ EnterLoop
  <2>1. /\ \A t \in Task : status[t] # "DONE"
        /\ \A t \in Task : status'[t] = status[t] \/ status'[t] \in {"READY", "BLOCKED"}
        /\ pc' \in {"top", "returned"}
    <3>1. CASE RejectGraph
      BY <3>1 DEF RejectGraph, NothingBegun
    <3>2. CASE EnterLoop
      <4>1. UpdateStates(graph, status, status') /\ TaskIds(graph) = Task
        BY <3>2, Current DEF EnterLoop
      <4>2. \A t \in Task : status'[t] = status[t] \/ status'[t] \in {"READY", "BLOCKED"}
        BY <1>0, <4>1, SweepEffect
      <4> QED
        BY <3>2, <4>2 DEF EnterLoop, NothingBegun
    <3> QED
      BY <1>1, <3>1, <3>2
  <2> QED
    BY <2>1 DEF WorkKept, With, SerialPoints
<1>2. CASE StopBetweenTasks \/ Complete \/ NothingReady
  <2>1. \A t \in Task : status'[t] = "DONE" => status[t] = "DONE"
    BY <1>2 DEF StopBetweenTasks, Complete, NothingReady, Settled
  <2>2. head' = head /\ pc' = "returned"
    BY <1>2 DEF StopBetweenTasks, Complete, NothingReady, gitVars
  <2> QED
    BY <1>d, <2>1, <2>2 DEF WorkKept, With, SerialPoints
<1>3. CASE DispatchHead \/ FallBackToSerial
  <2>1. /\ \A u \in Task : status'[u] = "DONE" => status[u] = "DONE"
        /\ head' = head /\ base' = head /\ pc' = "executing"
    BY <1>3, SerialStart DEF Idle
  <2> QED
    BY <1>d, <2>1 DEF WorkKept, With, SerialPoints
<1>4. CASE FallBackRaises \/ WorktreeCreationRaises \/ FanOut
  <2>1. /\ \A u \in Task : status'[u] = "DONE" => status[u] = "DONE"
        /\ head' = head
        /\ pc' = "raised" \/ (pc' = "workers" /\ wave' = todo')
    BY <1>4 DEF FallBackRaises, WorktreeCreationRaises, FanOut, gitVars
  <2> QED
    BY <1>d, <2>1 DEF WorkKept, With, SerialPoints
<1>5. CASE AdapterFails \/ ValidatorAnswers
  <2>1. PICK new \in Settled, asked \in BOOLEAN :
           /\ Settle(cur, new, asked) /\ cur \in Flying
           /\ new = "DONE" => pc = "validating"
           /\ head' = base \/ head' = head
           /\ new = "DONE" => head' = head
    <3>1. \A new : RollsBack(new) => new # "DONE"
      BY DEF RollsBack
    <3> QED
      BY <1>5, <3>1, SerialAnswers
  <2>2. /\ status'[cur] = new
        /\ \A u \in Task \ {cur} : status'[u] = "DONE" => status[u] = "DONE"
    BY <2>1, SettleMoves
  <2>3. pc \in SerialPoints /\ pc' = "top"
    BY <1>5, <2>1 DEF AdapterFails, ValidatorAnswers, Settle, SerialPoints
  <2>4. \A u \in Task : status'[u] = "DONE" => u \in head'
    BY <2>1, <2>2, <2>3 DEF WorkKept, With
  <2> QED
    BY <2>3, <2>4 DEF WorkKept, With, SerialPoints
<1>6. CASE AdapterImplements
  <2>1. /\ \A u \in Task : status'[u] = "DONE" => status[u] = "DONE"
        /\ base' = base /\ cur' = cur /\ pc = "executing" /\ pc' = "validating"
        /\ head' = head \cup dirty \cup {cur}
    BY <1>0, <1>6, Current DEF AdapterImplements, AdapterCommits, SerialPoints
  <2> QED
    BY <2>1 DEF WorkKept, With, SerialPoints
<1>7. CASE WorkerReturns
  <2>1. PICK t \in todo :
           /\ \A u \in Task \ {t} : outcome'[u] = outcome[u]
           /\ outcome'[t] = "DONE" => t \in carries'
           /\ carries \subseteq carries'
           /\ Handled(t, "merging")
    <3>1. PICK t \in todo \ queued :
             /\ \/ \E r \in AdapterFailure \cup {"RAISED", "BLOCKED"} :
                      outcome' = [outcome EXCEPT ![t] =
                            IF r = "RAISED" THEN "FAILED" ELSE StatusOfResult(r)]
                   /\ UNCHANGED <<carries, checked>>
                \/ \E v \in Verdict, committed \in Commits :
                      /\ outcome' = [outcome EXCEPT ![t] = StatusOfVerdict(v)]
                      /\ carries' = IF committed THEN carries \cup {t} ELSE carries
             /\ Handled(t, "merging")
      BY <1>7, Zenon DEF WorkerReturns
    <3>2. CASE /\ \E r \in AdapterFailure \cup {"RAISED", "BLOCKED"} :
                     outcome' = [outcome EXCEPT ![t] =
                        IF r = "RAISED" THEN "FAILED" ELSE StatusOfResult(r)]
               /\ UNCHANGED <<carries, checked>>
      BY <1>0, <3>1, <3>2 DEF StatusOfResult
    <3>3. CASE \E v \in Verdict, committed \in Commits :
                  /\ outcome' = [outcome EXCEPT ![t] = StatusOfVerdict(v)]
                  /\ carries' = IF committed THEN carries \cup {t} ELSE carries
      BY <1>0, <3>1, <3>3
    <3> QED
      BY <3>1, <3>2, <3>3
  <2>2. UNCHANGED <<status, head, wave>> /\ pc = "workers"
    BY <1>7 DEF WorkerReturns, gitVars
  <2> QED
    BY <1>0, <2>1, <2>2 DEF WorkKept, With, Handled, SerialPoints
<1>8. CASE MergeBranch
  <2>1. PICK t \in todo :
           /\ \/ outcome[t] = "DONE" /\ head' = head \cup (carries \cap {t})
                 /\ outcome' = outcome
              \/ outcome' = [outcome EXCEPT ![t] = "FAILED"] /\ head \subseteq head'
              \/ outcome[t] # "DONE" /\ outcome' = outcome /\ head' = head
           /\ Handled(t, "revalidating")
    BY <1>8 DEF MergeBranch, FailedMerge
  <2>2. UNCHANGED <<status, carries, wave>> /\ pc = "merging"
    BY <1>8 DEF MergeBranch
  <2> QED
    BY <1>0, <2>1, <2>2 DEF WorkKept, With, Handled, SerialPoints
<1>9. CASE Revalidate
  <2>1. PICK t \in todo :
           /\ \A u \in Task : outcome'[u] = "DONE" => outcome[u] = "DONE"
           /\ Handled(t, "finalizing")
    BY <1>0, <1>9 DEF Revalidate
  <2>2. UNCHANGED <<status, head, wave>> /\ pc = "revalidating"
    BY <1>9 DEF Revalidate, gitVars
  <2> QED
    BY <1>0, <2>1, <2>2 DEF WorkKept, With, Handled, SerialPoints
<1>10. CASE Finalize
  <2>1. PICK t \in todo : status' = [status EXCEPT ![t] = outcome[t]]
    BY <1>10 DEF Finalize
  <2>2. /\ head' = head /\ pc = "finalizing"
        /\ pc' = "top" \/ (pc' = "finalizing" /\ UNCHANGED <<wave, outcome>>)
    BY <1>10 DEF Finalize, gitVars
  <2> QED
    BY <1>0, <2>1, <2>2 DEF WorkKept, With, SerialPoints
<1>11. CASE \/ Poll \/ ValidatorRaises \/ WorkerStarts \/ WorkerRaises
            \/ RevalidationRaises \/ RequestStop \/ UNCHANGED vars
  <2>1. /\ UNCHANGED <<status, head>>
        /\ \/ pc' \in {"turn", "raised"}
           \/ UNCHANGED <<pc, base, cur, wave, todo, outcome, carries>>
    BY <1>11 DEF Poll, WorkerStarts, ValidatorRaises, WorkerRaises, RevalidationRaises,
                 RequestStop, runVars, loopVars, waveVars, gitVars, vars
  <2> QED
    BY <2>1 DEF WorkKept, With, SerialPoints
<1> QED
  BY <1>1, <1>2, <1>3, <1>4, <1>5, <1>6, <1>7, <1>8, <1>9, <1>10, <1>11
  DEF Next, LoopStep, Rest

-----------------------------------------------------------------------------
(* On the serial path with rollback, neither the workspace nor the point a  *)
(* rollback returns to contains anything of a task that waits, or that      *)
(* failed and was rolled back without git failing.                          *)
Removed(t) == status[t] \in Idle \/ (status[t] = "FAILED" /\ t \notin unclean)

NoRemains ==
    Rollback /\ ~Parallel /\ Repository # "none" =>
        /\ \A t \in Task : Removed(t) =>
              /\ t \notin head \cup dirty
              /\ pc \in SerialPoints => t \notin base
        /\ pc = "executing" => cur \notin head \cup dirty
        /\ pc \in SerialPoints => cur \notin base
        /\ pc \notin WavePoints

LEMMA NoRemainsHolds ==
    ASSUME IInv, NothingBegun, NoRemains, [Next]_vars
    PROVE  NoRemains'
<1> SUFFICES ASSUME Rollback, ~Parallel, Repository # "none"
             PROVE  NoRemains'
  BY DEF NoRemains
<1>0. status \in [Task -> TaskStatus] /\ User \notin Task /\ ~FansOut
  BY Current DEF FansOut
<1>1. CASE RejectGraph \/ EnterLoop
  <2>1. pc' \in {"top", "returned"}
    BY <1>1 DEF RejectGraph, EnterLoop
  <2>2. head' \cup dirty' \subseteq {User}
    BY <1>1 DEF RejectGraph, EnterLoop, EnsureGitBaseline, NothingBegun
  <2> QED
    BY <1>0, <2>1, <2>2 DEF NoRemains, SerialPoints, WavePoints
<1>2. CASE StopBetweenTasks \/ Complete \/ NothingReady
  <2>1. /\ \A t \in Task : status'[t] \in Idle \cup {"FAILED"} => status'[t] = status[t]
        /\ UNCHANGED <<head, dirty, unclean>> /\ pc' = "returned"
    BY <1>2 DEF StopBetweenTasks, Complete, NothingReady, Settled, Idle, gitVars
  <2> QED
    BY <2>1 DEF NoRemains, Removed, SerialPoints, WavePoints
<1>3. CASE DispatchHead \/ FallBackToSerial
  <2>1. PICK t \in Wave :
           /\ t \in Task /\ status[t] \in Idle /\ cur' = t
           /\ status'[t] = "IN_PROGRESS"
           /\ \A u \in Task \ {t} :
                 \/ status'[u] = status[u]
                 \/ status[u] \in Idle /\ status'[u] = "PENDING"
    BY <1>3, SerialStart
  <2>2. base' = head /\ pc' = "executing" /\ UNCHANGED <<head, dirty, unclean>>
    BY <1>3, SerialStart
  <2>3. \A u \in Task : Removed(u)' => Removed(u)
    BY <2>1, <2>2 DEF Removed, Idle
  <2>4. t \notin head \cup dirty
    BY <2>1 DEF NoRemains, Removed
  <2> QED
    BY <2>1, <2>2, <2>3, <2>4 DEF NoRemains, WavePoints
<1>4. CASE FallBackRaises \/ WorktreeCreationRaises \/ FanOut
  BY <1>0, <1>4 DEF FallBackRaises, WorktreeCreationRaises, FanOut
<1>5. CASE AdapterFails \/ ValidatorAnswers
  <2>1. PICK new \in Settled, asked \in BOOLEAN :
           /\ Settle(cur, new, asked) /\ cur \in Flying
           /\ \/ new = "FAILED" /\ head' = base /\ dirty' = {} /\ unclean' = unclean
              \/ /\ new = "FAILED" /\ unclean' = unclean \cup {cur}
                 /\ head' \in {base, head} /\ dirty' \subseteq dirty \cup {cur}
              \/ /\ new # "FAILED" /\ unclean' = unclean
                 /\ head' = head /\ dirty' \subseteq dirty \cup {cur}
    <3>1. \A new : RollsBack(new) <=> new = "FAILED"
      BY DEF RollsBack
    <3> QED
      BY <1>5, <3>1, SerialAnswers
  <2>2. /\ status'[cur] = new /\ cur \in Task
        /\ \A u \in Task \ {cur} : \/ status'[u] = status[u]
                                   \/ status[u] \in Idle /\ status'[u] \in {"READY", "BLOCKED"}
    BY <2>1, SettleMoves DEF Flying
  <2>3. pc \in SerialPoints /\ pc' = "top"
    BY <1>5, <2>1 DEF AdapterFails, ValidatorAnswers, Settle, SerialPoints
  <2>4. \A u \in Task \ {cur} : Removed(u)' => Removed(u)
    BY <2>1, <2>2 DEF Idle, Removed
  <2>5. \A u \in Task \ {cur} : Removed(u) => u \notin head \cup dirty \cup base
    BY <2>3 DEF NoRemains
  <2>6. cur \notin base
    BY <2>3 DEF NoRemains
  <2>7. ASSUME NEW u \in Task, u = cur, Removed(u)' PROVE head' = base /\ dirty' = {}
    <3>1. new = "FAILED" /\ u \notin unclean'
      BY <2>1, <2>2, <2>7 DEF Removed, Settled, Idle
    <3> QED
      BY <2>1, <2>7, <3>1
  <2>8. \A u \in Task : Removed(u)' => u \notin head' \cup dirty'
    <3>1. \A u \in Task \ {cur} : u \notin head \cup dirty \cup base
                                    => u \notin head' \cup dirty'
      BY <2>1
    <3>2. \A u \in Task \ {cur} : Removed(u)' => u \notin head' \cup dirty'
      BY <2>4, <2>5, <3>1
    <3>3. \A u \in Task : u = cur /\ Removed(u)' => u \notin head' \cup dirty'
      BY <2>6, <2>7
    <3> QED
      BY <3>2, <3>3
  <2> QED
    BY <2>3, <2>8 DEF NoRemains, SerialPoints, WavePoints
<1>6. CASE AdapterImplements
  <2>1. /\ cur \in Task /\ pc = "executing" /\ pc' = "validating"
        /\ UNCHANGED <<cur, base, unclean>>
        /\ status'[cur] = "VALIDATING"
        /\ \A u \in Task \ {cur} : status'[u] = status[u]
        /\ head' \cup dirty' \subseteq head \cup dirty \cup {cur}
    BY <1>0, <1>6, Current DEF AdapterImplements, AdapterCommits, SerialPoints
  <2> QED
    BY <2>1 DEF NoRemains, Removed, Idle, SerialPoints, WavePoints
<1>7. CASE \/ WorkerStarts \/ WorkerReturns \/ WorkerRaises \/ MergeBranch \/ Revalidate
           \/ RevalidationRaises \/ Finalize
  BY <1>7 DEF WorkerStarts, WorkerReturns, WorkerRaises, MergeBranch, Revalidate,
              RevalidationRaises, Finalize, NoRemains, WavePoints
<1>8. CASE Poll \/ ValidatorRaises \/ RequestStop \/ UNCHANGED vars
  <2>1. /\ UNCHANGED <<status, head, dirty, unclean>>
        /\ pc' \in {"turn", "raised"} \/ UNCHANGED <<pc, base, cur>>
    BY <1>8 DEF Poll, ValidatorRaises, RequestStop, runVars, loopVars, gitVars, vars
  <2> QED
    BY <2>1 DEF NoRemains, Removed, SerialPoints, WavePoints
<1> QED
  BY <1>1, <1>2, <1>3, <1>4, <1>5, <1>6, <1>7, <1>8 DEF Next, LoopStep, Rest

-----------------------------------------------------------------------------
(* What a DONE task of a wave was last validated against has everything the *)
(* wave merged: nothing changes the workspace once revalidation has begun.  *)
MergesSeen ==
    /\ pc = "revalidating" =>
          \A t \in wave \ todo : outcome[t] = "DONE" => Visible \subseteq checked[t].against
    /\ DoneSawEveryMerge

LEMMA MergesSeenHolds ==
    ASSUME IInv, MergesSeen, [Next]_vars
    PROVE  MergesSeen'
<1>0. /\ outcome \in [Task -> Settled \cup {"none"}]
      /\ wave \in SUBSET Task /\ todo \in SUBSET wave
      /\ checked \in [Task -> [verdict : Verdict \cup {"none"}, against : SUBSET Author]]
  BY DEF IInv, TypeOK
<1>1. CASE Revalidate
  <2>1. PICK t \in todo :
           /\ \/ /\ outcome[t] = "DONE"
                 /\ \E v \in Verdict :
                       /\ outcome' = [outcome EXCEPT ![t] = IF v = "FAIL" THEN "FAILED" ELSE @]
                       /\ checked' = [checked EXCEPT ![t] =
                                         [verdict |-> v, against |-> Visible]]
              \/ outcome[t] # "DONE" /\ UNCHANGED <<outcome, checked>>
           /\ Handled(t, "finalizing")
    BY <1>1 DEF Revalidate
  <2>2. UNCHANGED <<wave, head, dirty>> /\ pc = "revalidating"
    BY <1>1 DEF Revalidate, gitVars
  <2>3. \A u \in Task \ {t} : outcome'[u] = outcome[u] /\ checked'[u] = checked[u]
    BY <1>0, <2>1
  <2>4. outcome'[t] = "DONE" => checked'[t].against = Visible
    BY <1>0, <2>1
  <2>5. Visible' = Visible
    BY <2>2 DEF Visible
  <2> QED
    BY <1>0, <2>1, <2>2, <2>3, <2>4, <2>5 DEF MergesSeen, DoneSawEveryMerge, Handled
<1>2. CASE MergeBranch
  <2>1. PICK t \in todo : Handled(t, "revalidating")
    BY <1>2 DEF MergeBranch
  <2>2. pc = "merging" /\ wave' = wave
    BY <1>2 DEF MergeBranch
  <2> QED
    BY <2>1, <2>2 DEF MergesSeen, DoneSawEveryMerge, Handled
<1>3. CASE Finalize
  <2>1. /\ pc = "finalizing" /\ UNCHANGED <<head, dirty, checked>>
        /\ pc' = "top" \/ (pc' = "finalizing" /\ UNCHANGED <<wave, outcome>>)
    BY <1>3 DEF Finalize, gitVars
  <2> QED
    BY <2>1 DEF MergesSeen, DoneSawEveryMerge, Visible
<1>4. CASE RequestStop \/ UNCHANGED vars
  BY <1>4 DEF RequestStop, vars, runVars, loopVars, waveVars, gitVars,
              MergesSeen, DoneSawEveryMerge, Visible
<1>5. CASE \/ RejectGraph \/ EnterLoop \/ StopBetweenTasks \/ Complete \/ NothingReady
           \/ DispatchHead \/ AdapterFails \/ AdapterImplements \/ ValidatorAnswers
           \/ ValidatorRaises \/ FallBackToSerial \/ FallBackRaises
           \/ WorktreeCreationRaises \/ FanOut \/ Poll \/ WorkerStarts
           \/ WorkerReturns \/ WorkerRaises \/ RevalidationRaises
  <2>1. pc' \notin {"revalidating", "finalizing"}
    BY <1>5 DEF Poll, WorkerStarts, FallBackRaises, loopVars, RejectGraph, EnterLoop,
                StopBetweenTasks, Complete, NothingReady, DispatchHead, FallBackToSerial,
                StartSerially, AdapterFails, AdapterImplements, ValidatorAnswers, Settle,
                ValidatorRaises, WorktreeCreationRaises, FanOut, WorkerReturns,
                WorkerRaises, RevalidationRaises, Handled
  <2> QED
    BY <2>1 DEF MergesSeen, DoneSawEveryMerge
<1> QED
  BY <1>1, <1>2, <1>3, <1>4, <1>5 DEF Next, LoopStep, Rest

-----------------------------------------------------------------------------
(* Every worktree is one of the wave in progress or one git would not       *)
(* remove, unless an exception has left run().                              *)
WorktreesKnown ==
    pc # "raised" => worktrees \subseteq stuck \cup (IF pc \in WavePoints THEN wave ELSE {})

LEMMA WorktreesKnownHolds ==
    ASSUME IInv, NothingBegun, WorktreesKnown, [Next]_vars
    PROVE  WorktreesKnown'
<1>1. CASE \/ RejectGraph \/ EnterLoop \/ StopBetweenTasks \/ Poll \/ Complete
           \/ NothingReady \/ AdapterFails \/ AdapterImplements \/ ValidatorAnswers
  <2>1. UNCHANGED <<worktrees, stuck>> /\ pc \notin WavePoints \cup {"raised"}
    BY <1>1 DEF RejectGraph, EnterLoop, StopBetweenTasks, Poll, Complete, NothingReady,
                AdapterFails, AdapterImplements, ValidatorAnswers, Settle, waveVars,
                WavePoints
  <2> QED
    BY <2>1 DEF WorktreesKnown
<1>2. CASE DispatchHead \/ FallBackToSerial
  <2>1. /\ stuck \subseteq stuck' /\ worktrees' \subseteq worktrees \cup stuck'
        /\ pc = "turn"
    BY <1>2, SerialStart
  <2> QED
    BY <2>1 DEF WorktreesKnown, WavePoints
<1>3. CASE FanOut
  BY <1>3 DEF FanOut, WorktreesKnown, WavePoints
<1>4. CASE \/ FallBackRaises \/ WorktreeCreationRaises \/ ValidatorRaises
           \/ WorkerRaises \/ RevalidationRaises
  BY <1>4 DEF FallBackRaises, WorktreeCreationRaises, ValidatorRaises, WorkerRaises,
              RevalidationRaises, WorktreesKnown
<1>5. CASE WorkerStarts \/ WorkerReturns \/ MergeBranch \/ Revalidate
  <2>1. /\ UNCHANGED <<wave, worktrees, stuck>>
        /\ pc \in WavePoints /\ pc' \in WavePoints
    BY <1>5 DEF WorkerStarts, WorkerReturns, MergeBranch, Revalidate, Handled, loopVars,
                WavePoints
  <2> QED
    BY <2>1 DEF WorktreesKnown, WavePoints
<1>6. CASE Finalize
  <2>1. pc = "finalizing" /\ worktrees \subseteq stuck \cup wave
    BY <1>6 DEF Finalize, WorktreesKnown, WavePoints
  <2>2. CASE Reclaim
    <3>1. PICK stay \in SUBSET wave : /\ worktrees' = worktrees \ (wave \ stay)
                                     /\ stuck' = stuck \cup stay
      BY <2>2 DEF Reclaim, Reclaimed
    <3> QED
      BY <2>1, <3>1 DEF WorktreesKnown
  <2>3. CASE UNCHANGED <<pc, wave, worktrees, stuck>>
    BY <2>3 DEF WorktreesKnown
  <2> QED
    BY <1>6, <2>2, <2>3 DEF Finalize
<1>7. CASE RequestStop \/ UNCHANGED vars
  BY <1>7 DEF RequestStop, vars, loopVars, waveVars, WorktreesKnown
<1> QED
  BY <1>1, <1>2, <1>3, <1>4, <1>5, <1>6, <1>7 DEF Next, LoopStep, Rest

-----------------------------------------------------------------------------
(* Each FAILED record has its proposal, and a run with a proposal stored    *)
(* waits for an approval unless it was stopped.                             *)
ProposalsFollow ==
    /\ FailuresAreProposed
    /\ pc # "returned" /\ proposals # {} =>
          run.reason = "NEEDS_USER_REPLAN_APPROVAL" /\ run.proposal \in proposals

LEMMA Proposed ==
    ASSUME IInv, ProposalsFollow, pc # "returned", pc' # "returned",
           NEW t \in Task, NEW new, NEW asked \in BOOLEAN,
           new = "FAILED" => asked = TRUE,
           MaybePropose(t, asked),
           records' = Append(records, [task |-> t, status |-> new])
    PROVE  ProposalsFollow'
<1>1. run \in Run /\ proposals \in SUBSET Task
  BY DEF IInv, TypeOK
<1>2. /\ Len(records) \in Nat
      /\ Len(records') = Len(records) + 1
      /\ \A i \in 1 .. Len(records) : records'[i] = records[i]
      /\ records'[Len(records) + 1] = [task |-> t, status |-> new]
  BY DEF IInv, TypeOK
<1>3. /\ Replan /\ new = "FAILED" => t \in proposals'
      /\ proposals \subseteq proposals'
      /\ proposals' # {} => /\ run'.reason = "NEEDS_USER_REPLAN_APPROVAL"
                            /\ run'.proposal \in proposals'
  <2>1. CASE Replan /\ asked = TRUE
    BY <1>1, <2>1 DEF MaybePropose, Run
  <2>2. CASE ~(Replan /\ asked = TRUE)
    <3>1. UNCHANGED <<run, proposals>>
      BY <2>2 DEF MaybePropose
    <3> QED
      BY <2>2, <3>1 DEF ProposalsFollow
  <2> QED
    BY <2>1, <2>2
<1>4. ASSUME Replan, NEW i \in 1 .. Len(records'), records'[i].status = "FAILED"
      PROVE  records'[i].task \in proposals'
  BY <1>2, <1>3, <1>4 DEF ProposalsFollow, FailuresAreProposed
<1> QED
  BY <1>3, <1>4 DEF ProposalsFollow, FailuresAreProposed

LEMMA ProposalsFollowHolds ==
    ASSUME IInv, NothingBegun, ProposalsFollow, [Next]_vars
    PROVE  ProposalsFollow'
<1>0. /\ run \in Run /\ todo \subseteq Task
      /\ Refreshed \in Run /\ Refreshed.reason = run.reason
      /\ Refreshed.proposal = run.proposal
  BY RefreshedTyped DEF IInv, TypeOK
<1>1. ASSUME UNCHANGED <<records, proposals>>,
             pc' # "returned" => pc # "returned" /\ UNCHANGED <<run.reason, run.proposal>>,
             pc' = "returned" /\ proposals # {} /\ ~Stopped' =>
                run'.reason = "NEEDS_USER_REPLAN_APPROVAL" /\ run'.proposal \in proposals
      PROVE  ProposalsFollow'
  BY <1>1 DEF ProposalsFollow, FailuresAreProposed
<1>2. CASE RejectGraph
  BY <1>1, <1>2 DEF RejectGraph, NothingBegun
<1>3. CASE EnterLoop
  BY <1>1, <1>3 DEF EnterLoop
<1>4. CASE StopBetweenTasks
  <2>1. run'.reason \in {"CANCELLED", "TIME_BUDGET_EXCEEDED"}
    BY <1>0, <1>4 DEF StopBetweenTasks, Run
  <2> QED
    BY <1>1, <1>4, <2>1 DEF StopBetweenTasks, Stopped
<1>5. CASE Complete \/ NothingReady
  <2>1. proposals # {} => run.proposal # NoTask /\ run.reason = "NEEDS_USER_REPLAN_APPROVAL"
                          /\ run.proposal \in proposals
    BY <1>5 DEF Complete, NothingReady, ProposalsFollow, IInv, TypeOK
  <2>2. proposals # {} => run'.reason = run.reason /\ run'.proposal = run.proposal
    BY <1>0, <1>5, <2>1 DEF Complete, NothingReady, Run
  <2>3. UNCHANGED <<records, proposals>> /\ pc' = "returned"
    BY <1>5 DEF Complete, NothingReady
  <2> QED
    BY <1>1, <2>1, <2>2, <2>3
<1>6. CASE DispatchHead \/ FallBackToSerial
  BY <1>0, <1>1, <1>6, SerialStart
<1>7. CASE FallBackRaises \/ WorktreeCreationRaises \/ FanOut
  BY <1>0, <1>1, <1>7 DEF FallBackRaises, WorktreeCreationRaises, FanOut
<1>8. CASE AdapterFails \/ ValidatorAnswers
  <2>1. PICK new \in Settled, asked \in BOOLEAN :
           Settle(cur, new, asked) /\ cur \in Flying /\ (new = "FAILED" => asked = TRUE)
    BY <1>8, SerialAnswers
  <2>2. pc # "returned" /\ cur \in Task
    BY <1>8, <2>1 DEF AdapterFails, ValidatorAnswers, Flying
  <2> QED
    BY <2>1, <2>2, Proposed DEF Settle
<1>9. CASE Finalize
  <2>1. PICK t \in todo :
           /\ records' = Append(records, [task |-> t, status |-> outcome[t]])
           /\ MaybePropose(t, outcome[t] = "FAILED")
    BY <1>9 DEF Finalize
  <2>2. pc # "returned" /\ pc' # "returned" /\ t \in Task
    BY <1>0, <1>9 DEF Finalize
  <2> QED
    BY <2>1, <2>2, Proposed
<1>10. CASE \/ Poll \/ AdapterImplements \/ ValidatorRaises
            \/ WorkerStarts \/ WorkerReturns \/ WorkerRaises
            \/ MergeBranch \/ Revalidate \/ RevalidationRaises
  <2>1. /\ UNCHANGED <<run, records, proposals>>
        /\ pc # "returned" /\ pc' # "returned"
    BY <1>10 DEF Poll, WorkerStarts, loopVars, AdapterImplements, ValidatorRaises,
                 WorkerReturns, WorkerRaises, MergeBranch, Revalidate, RevalidationRaises,
                 Handled, runVars
  <2> QED
    BY <1>1, <2>1
<1>11. CASE RequestStop \/ UNCHANGED vars
  BY <1>11 DEF RequestStop, vars, runVars, loopVars, ProposalsFollow,
               FailuresAreProposed, Stopped
<1> QED
  BY <1>2, <1>3, <1>4, <1>5, <1>6, <1>7, <1>8, <1>9, <1>10, <1>11
  DEF Next, LoopStep, Rest

-----------------------------------------------------------------------------
(* The report and the file when the run returns, and the file before.       *)
LEMMA ReportHolds ==
    ASSUME IInv, ReportSound, [Next]_vars
    PROVE  ReportSound'
<1>1. CASE RejectGraph \/ StopBetweenTasks
  <2>1. run \in Run
    BY DEF IInv, TypeOK
  <2>2. run'.reason \in {"INVALID_GRAPH", "CANCELLED", "TIME_BUDGET_EXCEEDED"}
    BY <1>1, <2>1 DEF RejectGraph, StopBetweenTasks, Run
  <2> QED
    BY <2>2 DEF ReportSound, Stopped
<1>2. CASE Complete \/ NothingReady
  <2>1. run \in Run /\ status' = status
    BY <1>2 DEF IInv, TypeOK, Complete, NothingReady
  <2>2. /\ run'.completed = With(status, "DONE")
        /\ run'.failed = With(status, "FAILED")
        /\ run'.blocked = With(status, "BLOCKED")
    BY <1>2, <2>1 DEF Complete, NothingReady, Refreshed, Run
  <2> QED
    BY <2>1, <2>2 DEF ReportSound, With
<1>3. CASE \/ EnterLoop \/ DispatchHead \/ AdapterFails \/ AdapterImplements
           \/ ValidatorAnswers \/ ValidatorRaises \/ FallBackToSerial
           \/ WorktreeCreationRaises \/ FanOut \/ WorkerReturns \/ WorkerRaises
           \/ MergeBranch \/ Revalidate \/ RevalidationRaises \/ Finalize
           \/ Poll \/ FallBackRaises \/ WorkerStarts
  <2>1. pc' # "returned"
    BY <1>3 DEF Poll, FallBackRaises, WorkerStarts, loopVars, EnterLoop, DispatchHead,
                FallBackToSerial, StartSerially, AdapterFails, AdapterImplements,
                ValidatorAnswers, Settle, ValidatorRaises, WorktreeCreationRaises, FanOut,
                WorkerReturns, WorkerRaises, MergeBranch, Revalidate, RevalidationRaises,
                Handled, Finalize
  <2> QED
    BY <2>1 DEF ReportSound
<1>4. CASE RequestStop \/ UNCHANGED vars
  BY <1>4 DEF RequestStop, vars, runVars, loopVars, ReportSound, Stopped, With
<1> QED
  BY <1>1, <1>2, <1>3, <1>4 DEF Next, LoopStep, Rest

(* A run is marked cancelled only as it returns, and so is its file. *)
NotCancelledYet == pc # "returned" => run.cancelled = FALSE /\ FileCancelled = FALSE

(* A save that finds no cancellation in the file writes the run as it is.   *)
LEMMA SavedAsIs ==
    ASSUME IInv, FileCancelled = FALSE, SaveRun, run' \in Run, Persist
    PROVE  saved' = [run |-> run', records |-> records']
<1>1. run'.cancelled \in BOOLEAN
  BY DEF Run
<1>2. (run'.cancelled \/ FileCancelled) = run'.cancelled
  BY <1>1
<1>3. [run' EXCEPT !.cancelled = run'.cancelled] = run'
  BY DEF Run
<1>4. [run' EXCEPT !.cancelled = @ \/ FileCancelled] = run'
  BY <1>2, <1>3
<1> QED
  BY <1>4 DEF SaveRun

LEMMA NotCancelledYetHolds ==
    ASSUME IInv, NotCancelledYet, [Next]_vars
    PROVE  NotCancelledYet'
<1> SUFFICES ASSUME pc' # "returned" PROVE run'.cancelled = FALSE /\ FileCancelled' = FALSE
  BY DEF NotCancelledYet
<1>0. run \in Run /\ run' \in Run
  BY NextKeepsIInv DEF IInv, TypeOK
<1>1. pc # "returned" /\ ~RejectGraph /\ ~StopBetweenTasks /\ ~Complete /\ ~NothingReady
  BY DEF Next, LoopStep, Rest, Over, RequestStop, loopVars, vars, RejectGraph, EnterLoop,
         StopBetweenTasks, Poll, Complete, NothingReady, DispatchHead, AdapterFails,
         AdapterImplements, ValidatorAnswers, ValidatorRaises, FallBackToSerial,
         FallBackRaises, WorktreeCreationRaises, FanOut, WorkerStarts, WorkerReturns,
         WorkerRaises, MergeBranch, Revalidate, RevalidationRaises, Finalize
<1>2. run.cancelled = FALSE /\ FileCancelled = FALSE
  BY <1>1 DEF NotCancelledYet
<1>3. Refreshed.cancelled = run.cancelled
  BY <1>0 DEF Refreshed, Run
<1>4. ASSUME NEW t, NEW asked, MaybePropose(t, asked)
      PROVE  run'.cancelled = run.cancelled
  <2>1. CASE Replan /\ asked
    <3>1. run' = [run EXCEPT !.status = "BLOCKED", !.reason = "NEEDS_USER_REPLAN_APPROVAL",
                             !.proposal = t]
      BY <1>4, <2>1 DEF MaybePropose
    <3> QED
      BY <1>0, <3>1 DEF Run
  <2>2. CASE ~(Replan /\ asked)
    BY <1>4, <2>2 DEF MaybePropose
  <2> QED
    BY <2>1, <2>2
<1>5. ASSUME run'.cancelled = run.cancelled, SaveRun \/ saved' = saved
      PROVE  run'.cancelled = FALSE /\ FileCancelled' = FALSE
  <2>1. CASE SaveRun /\ Persist
    <3>1. saved' = [run |-> run', records |-> records']
      BY <1>0, <1>2, <2>1, SavedAsIs
    <3> QED
      BY <1>2, <1>5, <3>1 DEF FileCancelled
  <2>2. CASE saved' = saved
    BY <1>2, <1>5, <2>2 DEF FileCancelled
  <2> QED
    BY <1>5, <2>1, <2>2 DEF SaveRun
<1>6. CASE EnterLoop \/ AdapterImplements
  BY <1>5, <1>6 DEF EnterLoop, AdapterImplements
<1>7. CASE DispatchHead \/ FallBackToSerial
  BY <1>3, <1>5, <1>7, SerialStart
<1>8. CASE FallBackRaises \/ WorktreeCreationRaises \/ FanOut
  BY <1>3, <1>5, <1>8 DEF FallBackRaises, WorktreeCreationRaises, FanOut
<1>9. CASE AdapterFails \/ ValidatorAnswers
  <2>1. PICK new \in Settled, asked \in BOOLEAN : Settle(cur, new, asked)
    BY <1>9, SerialAnswers
  <2>2. MaybePropose(cur, asked) /\ SaveRun
    BY <2>1 DEF Settle
  <2>3. run'.cancelled = run.cancelled
    BY <1>4, <2>2
  <2> QED
    BY <1>5, <2>2, <2>3
<1>10. CASE Finalize
  <2>1. PICK t \in todo : MaybePropose(t, outcome[t] = "FAILED")
    BY <1>10 DEF Finalize
  <2>2. SaveRun \/ saved' = saved
    BY <1>10 DEF Finalize
  <2>3. run'.cancelled = run.cancelled
    BY <1>4, <2>1
  <2> QED
    BY <1>5, <2>2, <2>3
<1>11. CASE \/ Poll \/ ValidatorRaises \/ WorkerStarts \/ WorkerReturns \/ WorkerRaises
            \/ MergeBranch \/ Revalidate \/ RevalidationRaises \/ RequestStop
            \/ UNCHANGED vars
  BY <1>5, <1>11 DEF Poll, ValidatorRaises, WorkerStarts, WorkerReturns, WorkerRaises,
                     MergeBranch, Revalidate, RevalidationRaises, RequestStop, vars, runVars
<1> QED
  BY <1>1, <1>6, <1>7, <1>8, <1>9, <1>10, <1>11 DEF Next, LoopStep, Rest

LEMMA FileHolds ==
    ASSUME IInv, NotCancelledYet, FileFollowsRun, [Next]_vars
    PROVE  FileFollowsRun'
<1> SUFFICES ASSUME Persist PROVE FileFollowsRun'
  BY DEF FileFollowsRun
<1>0. records \in Seq(Record) /\ Len(records) \in Nat
  BY DEF IInv, TypeOK
<1>1. ASSUME SaveRun, pc # "returned" PROVE FileFollowsRun'
  <2>1. run' \in Run /\ records' \in Seq(Record)
    BY NextKeepsIInv DEF IInv, TypeOK
  <2>2. saved' = [run |-> run', records |-> records']
    BY <1>1, <2>1, SavedAsIs DEF NotCancelledYet
  <2> QED
    BY <2>1, <2>2 DEF FileFollowsRun
<1>2. ASSUME saved' = saved, pc' # "returned",
             \/ records' = records
             \/ \E r \in Record : records' = Append(records, r)
      PROVE  FileFollowsRun'
  <2>1. CASE records' = records
    BY <1>2, <2>1 DEF FileFollowsRun
  <2>2. CASE \E r \in Record : records' = Append(records, r)
    <3>1. PICK r \in Record : records' = Append(records, r)
      BY <2>2
    <3>2. /\ Len(records') = Len(records) + 1
          /\ \A i \in 1 .. Len(records) : records'[i] = records[i]
      BY <1>0, <3>1
    <3>3. saved # NoRun => Len(saved.records) \in Nat
      BY DEF IInv, TypeOK
    <3> QED
      BY <1>0, <1>2, <3>2, <3>3 DEF FileFollowsRun
  <2> QED
    BY <1>2, <2>1, <2>2
<1>3. CASE RejectGraph \/ EnterLoop \/ StopBetweenTasks \/ Complete \/ NothingReady
           \/ DispatchHead \/ FallBackToSerial \/ AdapterImplements
  BY <1>1, <1>3 DEF RejectGraph, EnterLoop, StopBetweenTasks, Complete, NothingReady,
                    DispatchHead, FallBackToSerial, StartSerially, AdapterImplements
<1>4. CASE AdapterFails \/ ValidatorAnswers
  BY <1>1, <1>4, SerialAnswers DEF Settle, AdapterFails, ValidatorAnswers
<1>5. CASE \/ WorktreeCreationRaises \/ FanOut \/ ValidatorRaises \/ WorkerReturns
           \/ WorkerRaises \/ MergeBranch \/ Revalidate \/ RevalidationRaises
           \/ Poll \/ FallBackRaises \/ WorkerStarts
  <2>1. saved' = saved /\ records' = records /\ pc' # "returned"
    BY <1>5 DEF Poll, FallBackRaises, WorkerStarts, loopVars, WorktreeCreationRaises,
                FanOut, ValidatorRaises, WorkerReturns, WorkerRaises, MergeBranch,
                Revalidate, RevalidationRaises, Handled, runVars
  <2> QED
    BY <1>2, <2>1
<1>6. CASE Finalize
  <2>1. PICK t \in todo : records' = Append(records, [task |-> t, status |-> outcome[t]])
    BY <1>6 DEF Finalize
  <2>2. t \in Task /\ outcome[t] \in Settled
    BY <1>6 DEF Finalize, IInv, TypeOK, Control, WavePoints
  <2>3. [task |-> t, status |-> outcome[t]] \in Record
    BY <2>2 DEF Record
  <2>4. pc # "returned" /\ pc' # "returned" /\ (SaveRun \/ saved' = saved)
    BY <1>6 DEF Finalize
  <2> QED
    BY <1>1, <1>2, <2>1, <2>3, <2>4
<1>7. CASE RequestStop \/ UNCHANGED vars
  BY <1>7 DEF RequestStop, vars, runVars, loopVars, FileFollowsRun
<1> QED
  BY <1>3, <1>4, <1>5, <1>6, <1>7 DEF Next, LoopStep, Rest

-----------------------------------------------------------------------------
(* After a request to stop no poll passes, and what is still begun belongs  *)
(* to the turn whose poll passed before the request.                        *)
LEMMA StopIsSeen ==
    ASSUME IInv, [Next]_vars, stop # {}
    PROVE  /\ pc' = "turn" => pc = "turn"
           /\ AtWork' \subseteq AtWork \cup (IF pc = "turn" THEN Wave ELSE queued)
<1> USE DEF AtWork, SerialPoints
<1>1. CASE DispatchHead \/ FallBackToSerial
  <2>1. \E t \in Wave : cur' = t /\ pc = "turn" /\ pc' = "executing"
    BY <1>1, SerialStart
  <2> QED
    BY <2>1
<1>2. CASE FanOut
  BY <1>2 DEF FanOut
<1>3. CASE WorkerStarts
  <2>1. /\ pc = "workers" /\ pc' = "workers" /\ wave' = wave
    BY <1>3 DEF WorkerStarts, loopVars
  <2> QED
    BY <2>1
<1>4. CASE WorkerReturns
  BY <1>4 DEF WorkerReturns, Handled
<1>5. CASE AdapterImplements
  BY <1>5 DEF AdapterImplements
<1>6. CASE \/ RejectGraph \/ EnterLoop \/ StopBetweenTasks \/ Complete \/ NothingReady
           \/ AdapterFails \/ ValidatorAnswers \/ ValidatorRaises \/ FallBackRaises
           \/ WorktreeCreationRaises \/ WorkerRaises \/ MergeBranch \/ Revalidate
           \/ RevalidationRaises \/ Finalize
  <2>1. pc' \notin {"turn", "executing", "validating", "workers"}
    BY <1>6 DEF RejectGraph, EnterLoop, StopBetweenTasks, Complete, NothingReady,
                AdapterFails, ValidatorAnswers, Settle, ValidatorRaises, FallBackRaises,
                WorktreeCreationRaises, WorkerRaises, MergeBranch, Revalidate,
                RevalidationRaises, Handled, Finalize
  <2> QED
    BY <2>1
<1>7. CASE RequestStop \/ UNCHANGED vars
  BY <1>7 DEF RequestStop, vars, loopVars, waveVars
<1>8. CASE Poll
  BY <1>8 DEF Poll
<1> QED
  BY <1>1, <1>2, <1>3, <1>4, <1>5, <1>6, <1>7, <1>8 DEF Next, LoopStep, Rest

-----------------------------------------------------------------------------
(* On the serial path a sweep follows whatever settles, and in a list in    *)
(* order it leaves no task waiting on a FAILED or BLOCKED one.              *)
NoneWaitsOnBroken ==
    \A t \in Task : status[t] \in Idle =>
        \A d \in graph.deps[t] \cap Task : status[d] \notin Broken

ByItself == ~(pc = "returned" /\ (Stopped \/ run.reason = "INVALID_GRAPH"))

Propagated ==
    ~Parallel /\ ListedInOrder =>
        /\ pc \notin WavePoints
        /\ pc # "begin" /\ ByItself => NoneWaitsOnBroken

LEMMA SweepPropagates ==
    ASSUME TypeOK, ListedInOrder, UNCHANGED graph,
           NEW before \in [Task -> TaskStatus], UpdateStates(graph, before, status')
    PROVE  NoneWaitsOnBroken'
<1>1. TaskIds(graph) = Task
  BY GraphFacts
<1>2. PICK B \in SUBSET Task : /\ SweepBlocks(graph, before, B)
                               /\ status' = Swept(graph, before, B)
  BY <1>1 DEF UpdateStates
<1>3. \A t \in Task : status'[t] = IF t \in B THEN "BLOCKED"
                                   ELSE IF before[t] \in Idle /\ IsReady(graph, before, t)
                                        THEN "READY" ELSE before[t]
  BY <1>2 DEF Swept
<1> SUFFICES ASSUME NEW t \in Task, status'[t] \in Idle,
                    NEW d \in graph.deps[t] \cap Task, status'[d] \in Broken
             PROVE  FALSE
  BY DEF NoneWaitsOnBroken
<1>4. t \notin B /\ before[t] \in Idle
  BY <1>3 DEF Idle
<1>5. d \in B \/ before[d] \in Broken
  BY <1>3 DEF Broken
<1>6. before[d] # "DONE"
  BY <1>2, <1>5 DEF SweepBlocks, Idle, Broken
<1>7. ~IsReady(graph, before, t)
  BY <1>6 DEF IsReady
<1>8. Position(graph.tasks, d) < Position(graph.tasks, t)
  BY DEF ListedInOrder
<1>9. t \in B
  BY <1>1, <1>2, <1>4, <1>5, <1>7, <1>8 DEF SweepBlocks, IsBlockedByDependency
<1> QED
  BY <1>4, <1>9

LEMMA PropagatedHolds ==
    ASSUME IInv, Propagated, [Next]_vars
    PROVE  Propagated'
<1>0. /\ status \in [Task -> TaskStatus] /\ run \in Run /\ TypeOK
      /\ UNCHANGED graph
  BY DEF IInv, TypeOK, Next, LoopStep, Rest, RejectGraph, EnterLoop, StopBetweenTasks,
         Poll, FallBackRaises, WorkerStarts, Complete, NothingReady, DispatchHead,
         FallBackToSerial, StartSerially, AdapterFails, AdapterImplements,
         ValidatorAnswers, Settle, ValidatorRaises, WorktreeCreationRaises, FanOut,
         WorkerReturns, WorkerRaises, MergeBranch, Revalidate, RevalidationRaises,
         Finalize, RequestStop, vars
<1> SUFFICES ASSUME ~Parallel, ListedInOrder
             PROVE  /\ pc' \notin WavePoints
                    /\ pc' # "begin" /\ ByItself' => NoneWaitsOnBroken'
  BY <1>0 DEF Propagated, ListedInOrder
<1>1. pc \notin WavePoints /\ (pc # "begin" /\ ByItself => NoneWaitsOnBroken) /\ ~FansOut
  BY DEF Propagated, FansOut
<1>2. ASSUME pc \notin {"begin", "returned"}, pc' \notin WavePoints,
             \A t \in Task : \/ status'[t] = status[t]
                             \/ status'[t] \in InFlight
                             \/ status[t] \in Idle /\ status'[t] \in Idle
      PROVE  pc' \notin WavePoints /\ NoneWaitsOnBroken'
  <2>1. NoneWaitsOnBroken
    BY <1>1, <1>2 DEF ByItself
  <2> QED
    BY <1>0, <1>2, <2>1 DEF NoneWaitsOnBroken, Idle, InFlight, Broken
<1>3. CASE RejectGraph \/ StopBetweenTasks
  <2>1. /\ pc' = "returned"
        /\ run'.reason \in {"INVALID_GRAPH", "CANCELLED", "TIME_BUDGET_EXCEEDED"}
    BY <1>0, <1>3 DEF RejectGraph, StopBetweenTasks, Run
  <2> QED
    BY <2>1 DEF ByItself, Stopped, WavePoints
<1>4. CASE EnterLoop
  BY <1>0, <1>4, SweepPropagates DEF EnterLoop, WavePoints
<1>5. CASE Complete \/ NothingReady
  BY <1>2, <1>5 DEF Complete, NothingReady, WavePoints
<1>6. CASE DispatchHead \/ FallBackToSerial
  <2>1. \A t \in Task : \/ status'[t] = status[t]
                        \/ status'[t] \in InFlight
                        \/ status[t] \in Idle /\ status'[t] \in Idle
    BY <1>6, SerialStart DEF Idle, InFlight
  <2>2. pc = "turn" /\ pc' = "executing"
    BY <1>6, SerialStart
  <2> QED
    BY <1>2, <2>1, <2>2 DEF WavePoints
<1>7. CASE AdapterFails \/ ValidatorAnswers
  <2>1. PICK new \in Settled, asked \in BOOLEAN : Settle(cur, new, asked) /\ cur \in Flying
    BY <1>7, SerialAnswers
  <2>2. [status EXCEPT ![cur] = new] \in [Task -> TaskStatus]
    BY <1>0 DEF Settled, TaskStatus
  <2>3. pc' = "top" /\ UpdateStates(graph, [status EXCEPT ![cur] = new], status')
    BY <2>1 DEF Settle
  <2> QED
    BY <1>0, <2>2, <2>3, SweepPropagates DEF WavePoints
<1>8. CASE AdapterImplements
  <2>1. \A t \in Task : status'[t] = status[t] \/ status'[t] \in InFlight
    BY <1>0, <1>8 DEF AdapterImplements, InFlight
  <2> QED
    BY <1>2, <1>8, <2>1 DEF AdapterImplements, WavePoints
<1>9. CASE Poll \/ ValidatorRaises
  BY <1>2, <1>9 DEF Poll, ValidatorRaises, WavePoints
<1>10. CASE \/ FallBackRaises \/ WorktreeCreationRaises \/ FanOut
            \/ WorkerStarts \/ WorkerReturns \/ WorkerRaises
            \/ MergeBranch \/ Revalidate \/ RevalidationRaises \/ Finalize
  BY <1>1, <1>10 DEF FallBackRaises, WorkerStarts, WorktreeCreationRaises, FanOut,
                     WorkerReturns, WorkerRaises, MergeBranch, Revalidate,
                     RevalidationRaises, Finalize, WavePoints
<1>11. CASE RequestStop \/ UNCHANGED vars
  BY <1>1, <1>11 DEF RequestStop, vars, runVars, loopVars, ByItself, Stopped,
                     NoneWaitsOnBroken
<1> QED
  BY <1>3, <1>4, <1>5, <1>6, <1>7, <1>8, <1>9, <1>10, <1>11 DEF Next, LoopStep, Rest

-----------------------------------------------------------------------------
(* The theorems.  Each of them has its own strengthening, inductive         *)
(* relative to IInv.                                                        *)

(* While adapters manage to commit, what a DONE task produced stays in the  *)
(* workspace through every rollback, commit and merge of the run.           *)
THEOREM AcceptedWorkSurvives ==
    Commits = {TRUE} => (Spec => []DoneWorkSurvives)
<1> SUFFICES ASSUME Commits = {TRUE} PROVE Spec => []DoneWorkSurvives
  OBVIOUS
<1>1. Init => WorkKept
  <2> SUFFICES ASSUME Init PROVE WorkKept
    OBVIOUS
  <2>1. \A t \in Task : status[t] \in {"PENDING", "BLOCKED"}
    BY DEF Init
  <2>2. pc = "begin"
    BY DEF Init
  <2> QED
    BY <2>1, <2>2 DEF WorkKept, With, SerialPoints
<1>2. IInv /\ NothingBegun /\ WorkKept /\ [Next]_vars => WorkKept'
  BY WorkKeptHolds
<1>3. WorkKept => DoneWorkSurvives
  BY DEF WorkKept, DoneWorkSurvives, Visible
<1> QED
  BY <1>1, <1>2, <1>3, Invariance, NothingBegunHolds, PTL DEF Spec

(* With rollback on, the serial path leaves nothing of a FAILED task in the *)
(* workspace, committed or not, unless git failed to roll that task back.   *)
THEOREM FailuresLeaveNothing == Spec => []FailureLeavesNothing
<1>1. Init => NoRemains
  <2> SUFFICES ASSUME Init PROVE NoRemains
    OBVIOUS
  <2>1. head \cup dirty \subseteq {User} /\ pc = "begin"
    BY DEF Init
  <2> QED
    BY <2>1 DEF NoRemains, SerialPoints, WavePoints
<1>2. IInv /\ NothingBegun /\ NoRemains /\ [Next]_vars => NoRemains'
  BY NoRemainsHolds
<1>3. NoRemains => FailureLeavesNothing
  BY DEF NoRemains, Removed, FailureLeavesNothing, With, Visible
<1> QED
  BY <1>1, <1>2, <1>3, Invariance, NothingBegunHolds, PTL DEF Spec

(* Every DONE task of a wave was last validated with all merges in place.   *)
THEOREM DoneIsRevalidated == Spec => []DoneSawEveryMerge
<1>1. Init => MergesSeen
  BY DEF Init, MergesSeen, DoneSawEveryMerge
<1>2. IInv /\ MergesSeen /\ [Next]_vars => MergesSeen'
  BY MergesSeenHolds
<1>3. MergesSeen => DoneSawEveryMerge
  BY DEF MergesSeen
<1> QED
  BY <1>1, <1>2, <1>3, Invariance, PTL DEF Spec

(* Between waves, and when the run returns, it owns no worktree but those   *)
(* git would not remove.                                                    *)
THEOREM WorktreesGivenBack == Spec => []OnlyStuckWorktreesStay
<1>1. Init => WorktreesKnown
  BY DEF Init, WorktreesKnown
<1>2. IInv /\ NothingBegun /\ WorktreesKnown /\ [Next]_vars => WorktreesKnown'
  BY WorktreesKnownHolds
<1>3. WorktreesKnown => OnlyStuckWorktreesStay
  BY DEF WorktreesKnown, OnlyStuckWorktreesStay
<1> QED
  BY <1>1, <1>2, <1>3, Invariance, NothingBegunHolds, PTL DEF Spec

(* Every failure recorded is proposed, and waits for the user.              *)
THEOREM EveryFailureProposed == Spec => []FailuresAreProposed
<1>1. Init => ProposalsFollow
  <2> SUFFICES ASSUME Init PROVE ProposalsFollow
    OBVIOUS
  <2>1. Len(records) = 0 /\ proposals = {} /\ pc = "begin"
    <3>1. records = << >>
      BY DEF Init
    <3> QED
      BY <3>1 DEF Init
  <2> QED
    BY <2>1 DEF ProposalsFollow, FailuresAreProposed
<1>2. IInv /\ NothingBegun /\ ProposalsFollow /\ [Next]_vars => ProposalsFollow'
  BY ProposalsFollowHolds
<1>3. ProposalsFollow => FailuresAreProposed
  BY DEF ProposalsFollow
<1> QED
  BY <1>1, <1>2, <1>3, Invariance, NothingBegunHolds, PTL DEF Spec

(* The lists a run reports when it ends by itself are those of its tasks.   *)
THEOREM ReportTrustworthy == Spec => []ReportSound
<1>1. Init => ReportSound
  BY DEF Init, ReportSound
<1>2. IInv /\ ReportSound /\ [Next]_vars => ReportSound'
  BY ReportHolds
<1> QED
  BY <1>1, <1>2, Invariance, PTL DEF Spec

(* execution.json never runs ahead of the run, and ends equal to it.        *)
THEOREM FileTrustworthy == Spec => []FileFollowsRun
<1>1. Init => FileFollowsRun /\ NotCancelledYet
  <2> SUFFICES ASSUME Init PROVE FileFollowsRun /\ NotCancelledYet
    OBVIOUS
  <2>1. saved = NoRun /\ pc = "begin" /\ run.cancelled = FALSE
    BY DEF Init
  <2>2. FileCancelled = FALSE
    BY <2>1 DEF FileCancelled
  <2> QED
    BY <2>1, <2>2 DEF FileFollowsRun, NotCancelledYet
<1>2. IInv /\ NotCancelledYet /\ FileFollowsRun /\ [Next]_vars
         => FileFollowsRun' /\ NotCancelledYet'
  BY FileHolds, NotCancelledYetHolds
<1> QED
  BY <1>1, <1>2, Invariance, PTL DEF Spec

(* After a request to stop, only the turn whose poll had passed begins what *)
(* it hands out: its one task, or the tasks of its one wave.                *)
THEOREM StopStops == Spec => StopEndsDispatch
<1>1. IInv /\ [Next]_vars =>
         [stop # {} =>
             /\ pc' = "turn" => pc = "turn"
             /\ AtWork' \subseteq AtWork \cup (IF pc = "turn" THEN Wave ELSE queued)]_vars
  BY StopIsSeen
<1> QED
  BY <1>1, Invariance, PTL DEF Spec, StopEndsDispatch

(* On the serial path a failure reaches everything that depends on it.      *)
THEOREM FailuresPropagate == ~Parallel => (Spec => []FailurePropagates)
<1> SUFFICES ASSUME ~Parallel PROVE Spec => []FailurePropagates
  OBVIOUS
<1>1. Init => Propagated
  <2> SUFFICES ASSUME Init PROVE pc = "begin"
    BY DEF Propagated, WavePoints
  <2> QED
    BY DEF Init
<1>2. IInv /\ Propagated /\ [Next]_vars => Propagated'
  BY PropagatedHolds
<1>3. Propagated => FailurePropagates
  BY DEF Propagated, ByItself, FailurePropagates, NoneWaitsOnBroken, With, Idle, Broken
<1> QED
  BY <1>1, <1>2, <1>3, Invariance, PTL DEF Spec
=============================================================================
