------------------------------ MODULE TaskGraphs ------------------------------
(***************************************************************************)
(* How a task graph is made and checked: app/agents/task_engine.py, and    *)
(* what app/agents/llm_planner.py makes of a model's answer.               *)
(*                                                                         *)
(* A draft is a sequence of ids and, for each, the sequence of the ids it  *)
(* names as dependencies: a repeated one counts.                           *)
(***************************************************************************)
EXTENDS Naturals, Sequences, FiniteSets, Functions, Lists

Ids(d) == Elements(d.tasks)

(* Dependencies that name a task of the graph. *)
Known(d, t) == Elements(d.deps[t]) \cap Ids(d)

-----------------------------------------------------------------------------
(* _detect_cycles, depth first.  A search is what has been visited, the path *)
(* it is on (the frames of the recursion) and whether a cycle was met.       *)

NewSearch == [visited |-> {}, path |-> << >>, cycle |-> FALSE]

(* a task met before closes a cycle *)
M_OnPath(search, t) == t \in search.visited

OnPath(search, t) == t \in Elements(search.path)

(* What the innermost loop goes through: the dependencies of the last task    *)
(* on the path, or, when there is none, all tasks.                          *)
Scanned(d, search) ==
    IF search.path = << >> THEN d.tasks ELSE d.deps[search.path[Len(search.path)]]

(* The places where the loop has something to do.  It never comes back to an *)
(* earlier one: what it went over there has been left for good.             *)
Open(d, search) ==
    LET list == Scanned(d, search)
    IN  {i \in 1 .. Len(list) : /\ list[i] \in Ids(d)
                                /\ list[i] \in search.visited => OnPath(search, list[i])}

First(places) == CHOOSE i \in places : \A j \in places : i <= j

(* The search goes on to the next such place, or back along the path.       *)
SearchStep(d, search) ==
    IF search.cycle THEN search
    ELSE IF Open(d, search) # {}
    THEN LET t == Scanned(d, search)[First(Open(d, search))]
         IN  IF OnPath(search, t) THEN [search EXCEPT !.cycle = TRUE]
             ELSE [search EXCEPT !.visited = @ \cup {t}, !.path = Append(@, t)]
    ELSE IF search.path = << >> THEN search
    ELSE [search EXCEPT !.path = SubSeq(@, 1, Len(@) - 1)]

(* Every task is gone to and come back from at most once.                   *)
SearchRounds(d) ==
    LET round[n \in 0 .. 2 * Len(d.tasks)] ==
            IF n = 0 THEN NewSearch ELSE SearchStep(d, round[n - 1])
    IN  round

CycleDetected(d) == SearchRounds(d)[2 * Len(d.tasks)].cycle

-----------------------------------------------------------------------------
(* _topological_sort: a repeated dependency is counted as often as it is     *)
(* named and taken off once.                                                *)
InDegree(d, t) == Cardinality({i \in 1 .. Len(d.deps[t]) : d.deps[t][i] \in Ids(d)})

(* one dependency out of the way is enough *)
M_Freed(d, degree, node, t) == node \in Known(d, t)

Freed(d, degree, node, t) == node \in Known(d, t) /\ degree[t] = 0

NewSort(d) ==
    [order  |-> << >>,
     degree |-> [t \in Ids(d) |-> InDegree(d, t)],
     queue  |-> Filtered(d.tasks, {t \in Ids(d) : InDegree(d, t) = 0})]

SortStep(d, sort) ==
    IF sort.queue = << >> THEN sort
    ELSE LET node   == Head(sort.queue)
             degree == [t \in Ids(d) |-> IF node \in Known(d, t) THEN sort.degree[t] - 1
                                         ELSE sort.degree[t]]
             freed  == {t \in Ids(d) : Freed(d, degree, node, t)}
         IN  [order  |-> Append(sort.order, node),
              degree |-> degree,
              queue  |-> Tail(sort.queue) \o Filtered(d.tasks, freed)]

SortRounds(d) ==
    LET round[n \in 0 .. Len(d.tasks)] ==
            IF n = 0 THEN NewSort(d) ELSE SortStep(d, round[n - 1])
    IN  round

TopologicalOrder(d) == SortRounds(d)[Len(d.tasks)].order

(* validate_tasks: the graph the scheduler is handed.                       *)
Checked(d) ==
    [tasks |-> d.tasks, deps |-> [t \in Ids(d) |-> Known(d, t)],
     topo  |-> TopologicalOrder(d),
     check |-> IF CycleDetected(d) THEN "invalid" ELSE "valid"]

-----------------------------------------------------------------------------
(* TaskEngine.build: one list, phase after phase; a task is numbered within  *)
(* its phase and needs what its prerequisites name.                         *)

(* The places of a phase's tasks in the list. *)
InPhase(list, phase) == {i \in 1 .. Len(list) : list[i].id.phase = phase}

NextTaskId(list, phase) ==
    [phase |-> phase, number |-> Cardinality(InPhase(list, phase)) + 1]

Add(list, phase, needs) == Append(list, [id |-> NextTaskId(list, phase), needs |-> needs])

(* The last task at one of these places, if there is one.                   *)
LastOf(list, places) ==
    IF places = {} THEN << >>
    ELSE <<list[CHOOSE i \in places : \A j \in places : j <= i].id>>

Chained(list, phase) == Add(list, phase, LastOf(list, 1 .. Len(list)))

FoundationTasks == Chained(Add(<< >>, "Foundation", << >>), "Foundation")

CoreBusinessTasks(list, stack) ==
    LET service == Add(list, "Core Business", LastOf(list, InPhase(list, "Foundation")))
    IN  IF "REST API" \in stack THEN Chained(service, "Core Business") ELSE service

EngineeringTasks(list, stack) ==
    LET cache == IF "Redis" \in stack
                 THEN Add(list, "Engineering", LastOf(list, InPhase(list, "Core Business")))
                 ELSE list
    IN  IF "MQ" \in stack
        THEN Chained(Chained(cache, "Engineering"), "Engineering") ELSE cache

(* With nothing to engineer, the advanced tasks wait for nobody.            *)
AdvancedTasks(list) ==
    Chained(Add(list, "Advanced", LastOf(list, InPhase(list, "Engineering"))), "Advanced")

RuleTasks(stack) ==
    AdvancedTasks(EngineeringTasks(CoreBusinessTasks(FoundationTasks, stack), stack))

(* _link_dependencies: prerequisites, once each, that are other tasks.      *)
RuleDraft(stack) ==
    LET list == RuleTasks(stack)
        ids  == {list[i].id : i \in 1 .. Len(list)}
        Needs(id) == list[CHOOSE i \in 1 .. Len(list) : list[i].id = id].needs
    IN  [tasks |-> [i \in 1 .. Len(list) |-> list[i].id],
         deps  |-> [id \in ids |-> Filtered(Needs(id), ids \ {id})]]

-----------------------------------------------------------------------------
(* _build_result: ids must differ and there must be some, or the answer is   *)
(* refused.                                                                 *)
Acceptable(answer) == IsInjective(answer.tasks) /\ answer.tasks # << >>

(* every known id is kept *)
M_Kept(answer, t) == Filtered(answer.deps[t], Ids(answer))

(* What a task says it needs, unless it is unknown or the task itself;       *)
(* repetitions stay.                                                        *)
Kept(answer, t) == Filtered(answer.deps[t], Ids(answer) \ {t})

LlmDraft(answer) ==
    [tasks |-> answer.tasks, deps |-> [t \in Ids(answer) |-> Kept(answer, t)]]
===============================================================================
