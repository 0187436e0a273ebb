------------------------------ MODULE Scheduler ------------------------------
(***************************************************************************)
(* The pure part of app/agents/scheduler.py: which tasks of a task graph   *)
(* may run, in which order a frontier is dispatched, and how one sweep of  *)
(* update_states rewrites the task statuses.                               *)
(*                                                                         *)
(* A task graph is a record                                                *)
(*   tasks : the ids in the order of TaskGraph.tasks,                      *)
(*   deps  : for every id, the ids in Task.dependencies (an id there may   *)
(*           name no task of the graph),                                   *)
(*   topo  : graph_validation.topological_order, <<>> when there is none,  *)
(*   check : "absent" (graph_validation is None), "valid" or "invalid".    *)
(* A status function maps every task id to its TaskStatus.                 *)
(***************************************************************************)
EXTENDS Naturals, Sequences

TaskStatus == {"PENDING", "READY", "IN_PROGRESS", "VALIDATING",
               "DONE", "FAILED", "BLOCKED"}

Idle     == {"PENDING", "READY"}
InFlight == {"IN_PROGRESS", "VALIDATING"}
Settled  == {"DONE", "FAILED", "BLOCKED"}
Broken   == {"FAILED", "BLOCKED"}

TaskIds(g) == {g.tasks[i] : i \in 1 .. Len(g.tasks)}

(* Definitions named M_... are plausible mistakes in the definition that     *)
(* follows them; no specification uses them.                                *)

(* a dependency that settled counts as one that is done *)
M_ReadyWhenDepsSettled(g, st, t) ==
    /\ st[t] \notin Settled
    /\ \A d \in g.deps[t] : d \in TaskIds(g) /\ st[d] \in Settled

(* only DONE is final: FAILED and BLOCKED tasks are taken up again *)
M_ReadyUnlessDone(g, st, t) ==
    /\ st[t] # "DONE"
    /\ \A d \in g.deps[t] : d \in TaskIds(g) /\ st[d] = "DONE"

(* _is_ready: IN_PROGRESS and VALIDATING tasks are not excluded. *)
IsReady(g, st, t) ==
    /\ st[t] \notin Settled
    /\ \A d \in g.deps[t] : d \in TaskIds(g) /\ st[d] = "DONE"

(* only a FAILED dependency blocks *)
M_BlockedByFailedOnly(g, st, t) ==
    \E d \in g.deps[t] \cap TaskIds(g) : st[d] = "FAILED"

IsBlockedByDependency(g, st, t) ==
    \E d \in g.deps[t] \cap TaskIds(g) : st[d] \in Broken

ReadyTasks(g, st) == {t \in TaskIds(g) : IsReady(g, st, t)}

-----------------------------------------------------------------------------
(* Position of an id in a sequence; an id that is not there comes last.     *)
Position(seq, t) ==
    IF \E i \in 1 .. Len(seq) : seq[i] = t
    THEN CHOOSE i \in 1 .. Len(seq) : seq[i] = t
    ELSE Len(seq) + 1

DispatchOrder(g) == IF g.topo # << >> THEN g.topo ELSE g.tasks

(* tasks the order does not mention are not ordered *)
M_BeforeIncomplete(g, t, u) ==
    Position(DispatchOrder(g), t) < Position(DispatchOrder(g), u)

(* ties are broken the other way round: not a stable sort *)
M_BeforeUnstable(g, t, u) ==
    LET order == DispatchOrder(g)
    IN  \/ Position(order, t) < Position(order, u)
        \/ /\ Position(order, t) = Position(order, u)
           /\ Position(g.tasks, t) > Position(g.tasks, u)

(* sorted() is stable: tasks the order does not mention keep the list order. *)
Before(g, t, u) ==
    LET order == DispatchOrder(g)
    IN  \/ Position(order, t) < Position(order, u)
        \/ /\ Position(order, t) = Position(order, u)
           /\ Position(g.tasks, t) < Position(g.tasks, u)

(* t is the first of the tasks in S in dispatch order (wave[0] of S). *)
IsFirst(g, S, t) == t \in S /\ \A u \in S \ {t} : Before(g, t, u)

-----------------------------------------------------------------------------
(* the sweep looks at the statuses it started from only *)
M_SweepBlocksOneLevel(g, st, B) ==
    B = {t \in TaskIds(g) :
            st[t] \in Idle /\ ~IsReady(g, st, t) /\ IsBlockedByDependency(g, st, t)}

(* readiness is decided before blocking *)
M_SweepBlocksAny(g, st, B) ==
    B = {t \in TaskIds(g) :
            /\ st[t] \in Idle
            /\ ~IsReady(g, st, t)
            /\ \/ IsBlockedByDependency(g, st, t)
               \/ \E d \in g.deps[t] \cap B :
                     Position(g.tasks, d) > Position(g.tasks, t)}

(* update_states walks the list once and rewrites statuses as it goes, so a *)
(* task sees the BLOCKED of a dependency only when that dependency is       *)
(* listed before it.  B is the set of tasks this one sweep blocks.          *)
SweepBlocks(g, st, B) ==
    B = {t \in TaskIds(g) :
            /\ st[t] \in Idle
            /\ ~IsReady(g, st, t)
            /\ \/ IsBlockedByDependency(g, st, t)
               \/ \E d \in g.deps[t] \cap B :
                     Position(g.tasks, d) < Position(g.tasks, t)}

Swept(g, st, B) ==
    [t \in DOMAIN st |->
        IF t \in B THEN "BLOCKED"
        ELSE IF st[t] \in Idle /\ IsReady(g, st, t) THEN "READY"
        ELSE st[t]]

(* new is the statuses update_states(g) leaves when it starts from st. *)
UpdateStates(g, st, new) ==
    \E B \in SUBSET TaskIds(g) : SweepBlocks(g, st, B) /\ new = Swept(g, st, B)
=============================================================================
