--------------------------- MODULE MCProjectRuns ---------------------------
(***************************************************************************)
(* Small instances of ProjectRuns.                                         *)
(*                                                                         *)
(* SharedServer: one process, its two threads serve any of the project's   *)
(* calls.  OneDriver: one process, a thread that drives the project call   *)
(* by call through planning, execution and replanning, and a thread that   *)
(* cancels.  TwoTerminals: two processes, a driver in each; Elsewhere: a   *)
(* driver, and a second process that cancels.                              *)
(***************************************************************************)
EXTENDS ProjectRuns, TLC

CONSTANTS h1, h2, p1, p2

Threads == {h1, h2}
OneProcess == {p1}
TwoProcesses == {p1, p2}

Together == h1 :> p1 @@ h2 :> p1
Apart == h1 :> p1 @@ h2 :> p2

ProjectCalls == {"plan", "approve", "transition", "execute", "cancel"}
Driving == CallKinds \ {"cancel", "transition"}

SharedServer == [h \in Threads |-> ProjectCalls]
OneDriver == h1 :> Driving @@ h2 :> {"cancel"}
TwoTerminals == [h \in Threads |-> {"plan", "approve", "execute"}]

ThreeEach == [h \in Threads |-> 3]
EightAndOne == h1 :> 8 @@ h2 :> 1

(* The Orchestrator returns COMPLETED or BLOCKED, or raises; RunControl would *)
(* take FAILED from another executor.                                       *)
Outcome == {"COMPLETED", "BLOCKED", "RAISED"}

Interchangeable == Permutations(Threads) \cup Permutations(Runs)
=============================================================================
