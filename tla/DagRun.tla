-------------------------------- MODULE DagRun --------------------------------
(***************************************************************************)
(* What an execution run promises, without worktrees, git, persistence or  *)
(* the scheduler's bookkeeping: tasks start only once everything they      *)
(* depend on is done, a task leaves "running" once, a settled task never   *)
(* changes again, and the verdict of the run tells the truth about them.   *)
(***************************************************************************)
EXTENDS Naturals

CONSTANT Task

VARIABLES deps,     \* the dependencies of every task (fixed for the run)
          st,       \* what became of every task
          verdict   \* "new", then "open" until the run returns

dagVars == <<deps, st, verdict>>

Outcome == {"done", "failed", "blocked"}

Done(t) == t \in Task /\ st[t] = "done"
Startable(t) == st[t] = "waiting" /\ \A d \in deps[t] : Done(d)

Init ==
    /\ DOMAIN deps = Task
    /\ st \in [Task -> {"waiting", "done", "failed", "blocked"}]
    /\ verdict = "new"

(* A task that waits on a failed or blocked one may be given up with it. *)
GivenUp(new, moved) ==
    \A t \in Task \ moved :
        \/ new[t] = st[t]
        \/ /\ st[t] = "waiting"
           /\ new[t] = "blocked"
           /\ \E d \in deps[t] \cap Task : new[d] \in {"failed", "blocked"}

(* The run accepts its task graph, giving up what can never start ...     *)
Open ==
    /\ verdict = "new"
    /\ verdict' = "open"
    /\ st' \in [Task -> {"waiting", "running"} \cup Outcome]
    /\ GivenUp(st', {})
    /\ UNCHANGED deps

(* ... or refuses it, and then it starts nothing.                           *)
Refuse ==
    /\ verdict = "new"
    /\ verdict' = "refused"
    /\ UNCHANGED <<deps, st>>

(* One task, or a set of startable ones, is handed to workers. *)
Start ==
    /\ verdict = "open"
    /\ \E S \in SUBSET {t \in Task : Startable(t)} :
          st' = [t \in Task |-> IF t \in S THEN "running" ELSE st[t]]
    /\ UNCHANGED <<deps, verdict>>

(* A running task settles; what depends on it may be given up. *)
Settle ==
    /\ verdict = "open"
    /\ \E t \in Task :
          /\ st[t] = "running"
          /\ st' \in [Task -> {"waiting", "running"} \cup Outcome]
          /\ st'[t] \in Outcome
          /\ GivenUp(st', {t})
    /\ UNCHANGED <<deps, verdict>>

(* The run ends by itself: completed exactly when everything is done. *)
Finish ==
    /\ verdict = "open"
    /\ \A t \in Task : st[t] # "running" /\ ~Startable(t)
    /\ verdict' = IF \A t \in Task : st[t] = "done" THEN "completed" ELSE "blocked"
    /\ UNCHANGED <<deps, st>>

(* The run is stopped between tasks: whatever still waits is blocked. *)
Stop ==
    /\ verdict = "open"
    /\ \A t \in Task : st[t] # "running"
    /\ st' = [t \in Task |-> IF st[t] = "waiting" THEN "blocked" ELSE st[t]]
    /\ verdict' = "stopped"
    /\ UNCHANGED deps

Next == Open \/ Refuse \/ Start \/ Settle \/ Finish \/ Stop

Spec == Init /\ [][Next]_dagVars
===============================================================================
