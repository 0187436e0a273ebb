------------------------------- MODULE EventLog -------------------------------
(***************************************************************************)
(* What the event store promises: an append-only log of distinct events.   *)
(* Nothing in it is changed, moved or written twice, whoever appends,      *)
(* unless the store has failed to make sure of it.  Only a write that was  *)
(* torn may cost something later: the log its last event, once, and the    *)
(* next append its line, once.                                             *)
(***************************************************************************)
EXTENDS Naturals, Sequences

CONSTANTS
    Event,
    Gap     \* lines that are no event

VARIABLES
    log,        \* what the lines are, in the order of the files
    unsure,     \* events that may be in the log without their store knowing
    torn,       \* writes that ended before their line was complete
    taken,      \* events that torn writes have taken from the log
    swallowed   \* events that came to nothing behind a torn write

logVars == <<log, unsure, torn, taken, swallowed>>

Logged == {log[i] : i \in 1 .. Len(log)}

Init == log = << >> /\ unsure \subseteq Event /\ torn = 0 /\ taken = 0 /\ swallowed = 0

Put ==
    /\ \E e \in (Event \ Logged) \cup unsure : log' = Append(log, e)
    /\ UNCHANGED <<unsure, torn, taken, swallowed>>

Doubt ==
    /\ \E e \in Event : unsure' = unsure \cup {e}
    /\ UNCHANGED <<log, torn, taken, swallowed>>

Tear == torn' = torn + 1 /\ UNCHANGED <<log, unsure, taken, swallowed>>

TakeBack ==
    /\ taken < torn /\ log # << >>
    /\ log' = SubSeq(log, 1, Len(log) - 1)
    /\ taken' = taken + 1
    /\ UNCHANGED <<unsure, torn, swallowed>>

Swallow ==
    /\ swallowed < torn
    /\ \E gap \in Gap : log' = Append(log, gap)
    /\ swallowed' = swallowed + 1
    /\ UNCHANGED <<unsure, torn, taken>>

Next == Put \/ Doubt \/ Tear \/ TakeBack \/ Swallow

Spec == Init /\ [][Next]_logVars
===============================================================================
