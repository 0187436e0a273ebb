------------------------------- MODULE Planning -------------------------------
(***************************************************************************)
(* From a job description to a task graph: LlmPlanner.plan with its retry   *)
(* and its fallback to RuleBasedPlanner, and then what applying proposals  *)
(* (replan_applier.py) makes of the graph.                                 *)
(***************************************************************************)
EXTENDS TaskGraphs, ReplanRules

CONSTANTS
    Name,       \* what a model may write where an id belongs
    Answers,    \* drafts a model may answer with
    MaxAmends   \* bound

ASSUME PlanningAssumption ==
    /\ \A answer \in Answers :
          answer.tasks \in Seq(Name) /\ answer.deps \in [Ids(answer) -> Seq(Name)]
    /\ MaxAmends \in Nat

VARIABLES
    configured, \* PROJECTFORGE_LLM_*
    pc,         \* "asking", "planned" or "raised"
    exchanges,  \* requests the model was sent in vain
    planner,    \* whose plan it is
    draft,      \* what the graph was made from
    graph,      \* the graph, as amended
    status,
    amends      \* proposals applied to it

vars == <<configured, pc, exchanges, planner, draft, graph, status, amends>>

NoDraft == [tasks |-> << >>, deps |-> << >>]

Init ==
    /\ configured \in BOOLEAN
    /\ pc = "asking" /\ exchanges = 0 /\ amends = 0
    /\ planner = "none" /\ draft = NoDraft
    /\ graph = Checked(NoDraft) /\ status = << >>

-----------------------------------------------------------------------------
Adopt(name, d) ==
    /\ pc' = "planned" /\ planner' = name
    /\ draft' = d
    /\ graph' = Checked(d)
    /\ status' = [t \in Ids(d) |-> "PENDING"]

(* Two exchanges, no more. *)
MayAsk == pc = "asking" /\ configured /\ exchanges < 2

(* No answer, or one that is no JSON, lacks a key or fails validation.      *)
ExchangeFails ==
    /\ MayAsk
    /\ exchanges' = exchanges + 1
    /\ UNCHANGED <<configured, pc, planner, draft, graph, status, amends>>

(* An answer in the form that was asked for.  Nobody looks at whether the   *)
(* graph made of it is valid.                                               *)
ModelAnswers ==
    /\ MayAsk
    /\ \E answer \in Answers :
          IF Acceptable(answer)
          THEN Adopt("llm", LlmDraft(answer)) /\ UNCHANGED <<configured, exchanges, amends>>
          ELSE /\ exchanges' = exchanges + 1
               /\ UNCHANGED <<configured, pc, planner, draft, graph, status, amends>>

(* JSON of another shape, a list of strings for tasks say: the TypeError or *)
(* AttributeError is none of the exceptions that lead to the fallback.      *)
AnswerIsMisshapen ==
    /\ MayAsk
    /\ pc' = "raised"
    /\ UNCHANGED <<configured, exchanges, planner, draft, graph, status, amends>>

FallBack ==
    /\ pc = "asking" /\ ~MayAsk
    /\ \E stack \in SUBSET {"REST API", "Redis", "MQ"} : Adopt("rule", RuleDraft(stack))
    /\ UNCHANGED <<configured, exchanges, amends>>

(* The two ids a task is split into. *)
Part(t, letter) == [of |-> t, part |-> letter]

(* An approved proposal is applied, whatever action the schema knows.  A    *)
(* refusal leaves the stored graph as it is.                                *)
Amend ==
    /\ pc = "planned" /\ amends < MaxAmends
    /\ \E t \in TaskIds(graph), action \in {"RETRY", "SPLIT", "BLOCK"} :
          LET parts == IF action = "SPLIT" THEN <<Part(t, "a"), Part(t, "b")>> ELSE << >>
              result == Applied([task |-> t, action |-> action, status |-> "APPROVED",
                                 parts |-> parts], graph, status)
          IN  /\ result.ok
              /\ graph' = result.graph /\ status' = result.status
    /\ amends' = amends + 1
    /\ UNCHANGED <<configured, pc, exchanges, planner, draft>>

Next == ExchangeFails \/ ModelAnswers \/ AnswerIsMisshapen \/ FallBack \/ Amend

Spec == Init /\ [][Next]_vars
-----------------------------------------------------------------------------
(* Sets of tasks each of which needs another of the set. *)
Knots(g) == {S \in (SUBSET TaskIds(g)) \ {{}} : \A t \in S : g.deps[t] \cap S # {}}

(* A graph is declared valid exactly when no tasks wait for each other in a *)
(* circle, wherever in the list the circle is (task_engine.py:403).         *)
CheckFindsCycles ==
    pc = "planned" /\ amends = 0 => (graph.check = "invalid" <=> Knots(graph) # {})

NamedTwice(d, t) ==
    \E i, j \in 1 .. Len(d.deps[t]) :
        i # j /\ d.deps[t][i] = d.deps[t][j] /\ d.deps[t][i] \in Ids(d)

(* Tasks that are on a cycle, need a task that is, or name one dependency    *)
(* twice: the largest set each member of which is held up in one of these    *)
(* ways.                                                                    *)
HeldUp(g, d) ==
    UNION {S \in SUBSET TaskIds(g) :
             \A t \in S : \/ g.deps[t] \cap S # {}
                          \/ NamedTwice(d, t)}

(* The order names every task once and after all it needs, and leaves out    *)
(* just the tasks that are held up: in a valid graph, those behind a         *)
(* dependency that was named twice (task_engine.py:440).                    *)
OrderIsSound ==
    pc = "planned" =>
        /\ IsInjective(graph.topo)
        /\ \A i \in 1 .. Len(graph.topo) :
              Checked(draft).deps[graph.topo[i]] \subseteq {graph.topo[j] : j \in 1 .. i - 1}
        /\ Elements(graph.topo) = Ids(draft) \ HeldUp(Checked(draft), draft)

(* Whoever planned, and whatever was amended since: ids are unique, every    *)
(* dependency is another task of the graph and every task has a status; no   *)
(* amended graph has a cycle; and the rules list every task after what it    *)
(* needs (llm_planner.py:141, task_engine.py:363, replan_applier.py:100).   *)
PlannedGraphSound ==
    pc = "planned" =>
        /\ graph.tasks # << >> /\ IsInjective(graph.tasks)
        /\ \A t \in TaskIds(graph) : graph.deps[t] \subseteq TaskIds(graph) \ {t}
        /\ DOMAIN status = TaskIds(graph)
        /\ amends > 0 => Knots(graph) = {}
        /\ planner = "rule" =>
              \A t \in TaskIds(graph), u \in TaskIds(graph) :
                  u \in graph.deps[t] => Position(graph.tasks, u) < Position(graph.tasks, t)

-----------------------------------------------------------------------------
(* The scheduler against its literal reading, on every graph a model's       *)
(* answer leads to: update_states as the loop over TaskGraph.tasks it is,    *)
(* and the head of the wave as the head of a stable sort.                    *)

Scheduled == pc = "planned" /\ planner = "llm" /\ amends = 0

Statuses == [TaskIds(graph) -> TaskStatus \ {"READY", "VALIDATING"}]

(* One round of the loop of update_states. *)
LoopBody(st, t) ==
    IF st[t] \notin Idle THEN st
    ELSE IF IsReady(graph, st, t) THEN [st EXCEPT ![t] = "READY"]
    ELSE IF IsBlockedByDependency(graph, st, t) THEN [st EXCEPT ![t] = "BLOCKED"]
    ELSE st

Loop(st) ==
    LET after[i \in 0 .. Len(graph.tasks)] ==
            IF i = 0 THEN st ELSE LoopBody(after[i - 1], graph.tasks[i])
    IN  after[Len(graph.tasks)]

(* The set of tasks a sweep blocks is determined, and the sweep it gives is  *)
(* the loop of update_states (scheduler.py:31), whatever the list order.     *)
SweepIsTheLoop ==
    Scheduled => \A st \in Statuses :
        /\ UpdateStates(graph, st, Loop(st))
        /\ \A B \in SUBSET TaskIds(graph) :
              SweepBlocks(graph, st, B) => Swept(graph, st, B) = Loop(st)

(* The least in a list by position in the dispatch order, the first of them  *)
(* if there are several: the head of a stable sort.                         *)
Least(list) ==
    LET key(t) == Position(DispatchOrder(graph), t)
        best[i \in 0 .. Len(list)] ==
            IF i = 0 THEN list[1]
            ELSE IF key(list[i]) < key(best[i - 1]) THEN list[i] ELSE best[i - 1]
    IN  best[Len(list)]

(* wave[0] of sorted(ready, key=position): the first of those the order      *)
(* names, or, when it names none, the first in the list.                     *)
FirstIsSortedHead ==
    Scheduled => \A st \in Statuses :
        LET ready == Filtered(graph.tasks, ReadyTasks(graph, st))
        IN  ready # << >> =>
               \A t \in TaskIds(graph) :
                  IsFirst(graph, ReadyTasks(graph, st), t) <=> t = Least(ready)

(* When the list names every task after its dependencies, as the rules do    *)
(* and a model may not, one sweep settles all there is to settle: no task it *)
(* leaves idle needs a broken one, and sweeping again changes nothing.       *)
OneSweepSuffices ==
    Scheduled /\ (\A t \in TaskIds(graph) : \A u \in graph.deps[t] :
                    Position(graph.tasks, u) < Position(graph.tasks, t)) =>
        \A st \in Statuses, B \in SUBSET TaskIds(graph) : SweepBlocks(graph, st, B) =>
            LET new == Swept(graph, st, B)
            IN  /\ \A t \in TaskIds(graph) : \A u \in graph.deps[t] :
                      new[t] \in Idle => new[u] \notin Broken
                /\ Loop(new) = new
================================================================================
