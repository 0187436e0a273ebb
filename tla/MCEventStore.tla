----------------------------- MODULE MCEventStore -----------------------------
(* A server with two threads that rotates its log, and a CLI that does not.  *)
EXTENDS EventStore, TLC

CONSTANTS reader, server, cli, request, worker, command, e1, e2, e3

Stores  == {server, cli}
Threads == {request, worker, command}
Events  == {e1, e2, e3}

ThreadStore == [w \in Threads |-> IF w = command THEN cli ELSE server]
EventHome   == [e \in Events |-> IF e = e3 THEN cli ELSE server]

(* The threads of the server are alike, and so are its events. *)
Alike == Permutations({request, worker}) \cup Permutations({e1, e2})
===============================================================================
