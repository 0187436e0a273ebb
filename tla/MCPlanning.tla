------------------------------ MODULE MCPlanning ------------------------------
(* Drafts of three tasks a model may answer with.  A task names up to two     *)
(* dependencies, itself, a task that does not exist and repetitions          *)
(* included; and there are drafts without tasks or with an id twice.         *)
EXTENDS Planning

CONSTANTS t1, t2, t3, ghost

Names == {t1, t2, t3, ghost}

UpToTwo(S) == {<< >>} \cup {<<a>> : a \in S} \cup {<<a, b>> : a \in S, b \in S}

Three(d1, d2, d3) ==
    [tasks |-> <<t1, t2, t3>>,
     deps  |-> [t \in {t1, t2, t3} |-> IF t = t1 THEN d1 ELSE IF t = t2 THEN d2 ELSE d3]]

Drafts ==
    {Three(d1, d2, d3) : d1 \in {<< >>} \cup {<<a>> : a \in Names},
                         d2 \in UpToTwo(Names), d3 \in UpToTwo({t1, t2, ghost})}
      \cup {[tasks |-> s, deps |-> [t \in Elements(s) |-> << >>]] :
               s \in {<< >>, <<t1, t1>>, <<t1, t2, t1>>}}
===============================================================================
