---------------------------- MODULE MCOrchestrator ----------------------------
(* Small instances of Orchestrator: three tasks and all their task graphs.   *)
EXTENDS Orchestrator

CONSTANTS t1, t2, t3, ghost

Tasks == {t1, t2, t3}
List  == <<t1, t2, t3>>

Orders == {o \in [1 .. 3 -> Tasks] : \A i, j \in 1 .. 3 : o[i] = o[j] => i = j}

(* o lists every task after its dependencies. *)
Extends(o, d) == \A i, j \in 1 .. 3 : o[j] \in d[o[i]] => j < i

Dependencies == {d \in [Tasks -> SUBSET Tasks] : \E o \in Orders : Extends(o, d)}

(* What the task engine hands over: a DAG and one of its topological orders. *)
ValidGraphs ==
    {[tasks |-> List, deps |-> d, topo |-> o, check |-> "valid"] :
        <<d, o>> \in {p \in Dependencies \X Orders : Extends(p[2], p[1])}}

(* A graph no validation was attached to: any dependency is possible, also   *)
(* a cycle and an id that names no task; and one that was found invalid.     *)
Chain(d) == [t \in Tasks |-> IF t = t2 THEN {t1} ELSE IF t = t3 THEN d ELSE {}]
Loop     == [t \in Tasks |-> IF t = t2 THEN {t3} ELSE IF t = t3 THEN {t2} ELSE {}]
Unchecked ==
    {[tasks |-> List, deps |-> d, topo |-> << >>, check |-> "absent"] :
        d \in Dependencies \cup {Loop, Chain({ghost}), Chain({t2, ghost})}}
Rejected == [tasks |-> List, deps |-> Loop, topo |-> <<t1>>, check |-> "invalid"]

(* t1 was split: t2 and t3 were added after the order was computed.         *)
Grown == [tasks |-> List, deps |-> [t \in Tasks |-> {}], topo |-> <<t1>>, check |-> "valid"]

(* t2 names t1 twice, which leaves t2 and t3 out of the order.              *)
Repeating == [tasks |-> List, deps |-> Chain({t2}), topo |-> <<t1>>, check |-> "valid"]

AnyGraph == ValidGraphs \cup Unchecked \cup {Rejected, Grown, Repeating}

Deps(d1, d2, d3) == [t \in Tasks |-> IF t = t1 THEN d1 ELSE IF t = t2 THEN d2 ELSE d3]

(* The DAGs of three tasks up to their names, in the list order (the one     *)
(* without edges under an order that leaves two of them out); some of them   *)
(* against it; and what is no DAG or names no task.                         *)
Shapes == {Deps({}, {}, {t1}), Deps({}, {t1}, {t1}), Deps({}, {}, {t1, t2}),
           Deps({}, {t1}, {t2}), Deps({}, {t1}, {t1, t2})}
Against == {Deps({t2}, {t3}, {}), Deps({t2, t3}, {}, {}), Deps({t3}, {t3}, {})}

EveryShape ==
    {g \in Unchecked :
        g.deps \in Shapes \cup Against \cup {Loop, Chain({ghost}), Chain({t2, ghost})}}
    \cup {Rejected, Grown, Repeating}

(* Fewer graphs for the larger instances: independent tasks, a chain, a fork *)
(* and a join, in the list order and in the opposite one.                    *)
SomeGraphs ==
    {[tasks |-> List, deps |-> d, topo |-> << >>, check |-> "valid"] :
        d \in {Deps({}, {}, {}), Deps({}, {t1}, {t2}), Deps({t2}, {t3}, {}),
               Deps({}, {t1}, {t1}), Deps({}, {}, {t1, t2}), Deps({t2, t3}, {}, {})}}
===============================================================================
