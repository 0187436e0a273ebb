------------------------------ MODULE EventStore ------------------------------
(***************************************************************************)
(* The event log of one project: app/product/event_store.py.  A store is   *)
(* an EventStore object in a process of its own (the API server, a CLI     *)
(* call), with threads that append; readers take no lock.                  *)
(*                                                                         *)
(* A line is what a reader gets of it: an event, Junk that is skipped, or  *)
(* Garbled bytes that are no text, so that the whole file cannot be read.  *)
(* The lines of all files are one sequence; a rotation notes where the     *)
(* file it renames ends, and the next append starts another, the active    *)
(* one.  The tail is what follows the last newline.                        *)
(***************************************************************************)
EXTENDS Naturals, Sequences, FiniteSets

CONSTANTS
    Event, NoEvent,
    Garbled,    \* a line cut inside a character
    Separated,  \* events whose text holds what splitlines takes for a line's end
    Store,
    Thread,
    StoreOf,    \* the store a thread appends to
    Home,       \* the store an event is appended through, retries included
    Rotating,   \* stores with a max_file_bytes
    MaxLines,   \* ... which so many lines reach
    Reader,
    MaxTorn,    \* bound: writes that are torn
    MaxLog      \* bound: lines after which nothing is handed over any more

ASSUME EventStoreAssumption ==
    /\ NoEvent \notin Event /\ Garbled \notin Event /\ Garbled # NoEvent
    /\ Separated \subseteq Event
    /\ StoreOf \in [Thread -> Store] /\ Home \in [Event -> Store]
    /\ Rotating \subseteq Store
    /\ MaxLines \in Nat \ {0} /\ MaxTorn \in Nat /\ MaxLog \in Nat

VARIABLES
    lines,      \* what the complete lines hold, file after file
    ends,       \* how many lines there are up to the end of each renamed file
    tail,       \* what follows the last newline
    seeded,     \* stores that have loaded the ids of the project
    seen,       \* _seen of each store
    calls,      \* append, per thread
    reads,      \* get_events, per reader
    acked,      \* history: events some append returned
    unsure,     \* history: events that may be in a file unknown to their store
    torn,       \* history: writes that ended half way
    taken,      \* history: whole events that were spoilt by what followed
    swallowed   \* history: events that became part of an unfinished line

files == <<lines, ends, tail>>
costs == <<torn, taken, swallowed>>
vars  == <<files, seeded, seen, calls, reads, acked, unsure, costs>>

-----------------------------------------------------------------------------
Junk == NoEvent

(* An unfinished line is the whole line of an event but for the newline, a   *)
(* part of one, or a part cut inside a character; spoilt by what was written *)
(* behind it, it is nobody's line, and bad if there was such a cut in it.   *)
NoTail == [event |-> NoEvent, text |-> "none"]

Spoilt(text) == [event |-> NoEvent, text |-> text]

IdleCall == [at |-> "idle", event |-> NoEvent]
IdleRead == [at |-> "idle"]

(* What a reader makes of an unfinished last line. *)
TailEvents == IF tail.text = "whole" THEN <<tail.event>> ELSE << >>

Visible == lines \o TailEvents

(* The last line of the n-th renamed file. *)
End(n) == IF n = 0 THEN 0 ELSE ends[n]
LastEnd == End(Len(ends))

ActiveLines == SubSeq(lines, LastEnd + 1, Len(lines))

ActiveExists == tail # NoTail \/ Len(lines) > LastEnd

Elements(seq) == {seq[i] : i \in 1 .. Len(seq)}

Init ==
    /\ lines = << >> /\ ends = << >> /\ tail = NoTail
    /\ seeded = {} /\ seen = [s \in Store |-> {}]
    /\ calls = [w \in Thread |-> IdleCall]
    /\ reads = [r \in Reader |-> IdleRead]
    /\ acked = {} /\ unsure = Separated /\ torn = 0 /\ taken = 0 /\ swallowed = 0

-----------------------------------------------------------------------------
(* append *)

(* A producer hands over an event that is new, or one whose append it has   *)
(* heard nothing of.                                                        *)
Call(w) ==
    /\ calls[w] = IdleCall
    /\ Len(lines) < MaxLog
    /\ \E e \in Event \ acked :
          /\ Home[e] = StoreOf[w]
          /\ \A v \in Thread : calls[v].event # e
          /\ calls' = [calls EXCEPT ![w] = [at |-> "called", event |-> e]]
    /\ UNCHANGED <<files, seeded, seen, reads, acked, unsure, costs>>

Holding(v) == calls[v].at \in {"holding", "writing", "written"}

(* the threads of a process exclude each other, processes do not *)
M_Free(w) == \A v \in Thread : StoreOf[v] = StoreOf[w] => ~Holding(v)

(* The store's lock and the lock on the file: nobody appends meanwhile.     *)
Free(w) == \A v \in Thread : ~Holding(v)

Decodable(text) == text \notin {"cut", "bad"}

(* What is in the files is text.  Both readers decode strictly. *)
Readable == Garbled \notin Elements(lines) /\ Decodable(tail.text)

(* the active file is forgotten *)
M_StoredIds == Elements(SubSeq(lines, 1, LastEnd)) \cap (Event \ Separated)

StoredIds == Elements(Visible) \cap (Event \ Separated)

(* With the locks taken, the ids are loaded once per store; an event that   *)
(* is known already is returned as it is.                                   *)
Acquire(w) ==
    LET s == StoreOf[w]
        ids == IF s \in seeded THEN seen[s] ELSE StoredIds
        known == calls[w].event \in ids
    IN  /\ calls[w].at = "called"
        /\ Free(w)
        /\ s \in seeded \/ Readable
        /\ seeded' = seeded \cup {s} /\ seen' = [seen EXCEPT ![s] = ids]
        /\ calls' = [calls EXCEPT ![w] = IF known THEN IdleCall
                                         ELSE [@ EXCEPT !.at = "holding"]]
        /\ acked' = IF known THEN acked \cup {calls[w].event} ELSE acked
        /\ UNCHANGED <<files, reads, unsure, costs>>

(* The ids cannot be loaded: append raises. *)
AcquireFails(w) ==
    /\ calls[w].at = "called" /\ Free(w)
    /\ StoreOf[w] \notin seeded /\ ~Readable
    /\ calls' = [calls EXCEPT ![w] = IdleCall]
    /\ UNCHANGED <<files, seeded, seen, reads, acked, unsure, costs>>

(* The line reaches the file in parts.  Behind an unfinished line it is part *)
(* of that line; else all of it but the newline may be there already.       *)
WriteSome(w) ==
    /\ calls[w].at = "holding"
    /\ IF tail = NoTail
       THEN \E text \in {"whole", "part", "cut"} :
               tail' = [event |-> calls[w].event, text |-> text]
       ELSE \E text \in IF Decodable(tail.text) THEN {"part", "cut"} ELSE {"bad"} :
               tail' = Spoilt(text)
    /\ taken' = taken + Len(TailEvents)
    /\ calls' = [calls EXCEPT ![w].at = "writing"]
    /\ UNCHANGED <<lines, ends, seeded, seen, reads, acked, unsure, torn, swallowed>>

(* ... up to its newline. *)
WriteAll(w) ==
    /\ calls[w].at = "writing"
    /\ LET e == calls[w].event
           own == tail.event = e
       IN  /\ lines' = Append(lines, IF own THEN e
                                     ELSE IF tail.text = "bad" THEN Garbled ELSE Junk)
           /\ swallowed' = IF own THEN swallowed ELSE swallowed + 1
    /\ tail' = NoTail
    /\ calls' = [calls EXCEPT ![w].at = "written"]
    /\ UNCHANGED <<ends, seeded, seen, reads, acked, unsure, torn, taken>>

ActiveLength == Len(lines) - LastEnd

RotationDue(s) == s \in Rotating /\ ActiveLength >= MaxLines

(* The id is noted, the file renamed when it is long enough (a rename that  *)
(* fails is given up), the locks are released and append returns.           *)
Finish(w) ==
    /\ calls[w].at = "written"
    /\ seen' = [seen EXCEPT ![StoreOf[w]] = @ \cup {calls[w].event}]
    /\ \/ ends' = ends
       \/ RotationDue(StoreOf[w]) /\ ends' = Append(ends, Len(lines))
    /\ acked' = acked \cup {calls[w].event}
    /\ calls' = [calls EXCEPT ![w] = IdleCall]
    /\ UNCHANGED <<lines, tail, seeded, reads, unsure, costs>>

(* The disk is full, at once or half way: append raises. *)
WriteFails(w) ==
    /\ calls[w].at = "holding" \/ (calls[w].at = "writing" /\ torn < MaxTorn)
    /\ torn' = IF calls[w].at = "writing" THEN torn + 1 ELSE torn
    /\ calls' = [calls EXCEPT ![w] = IdleCall]
    /\ UNCHANGED <<files, seeded, seen, reads, acked, unsure, taken, swallowed>>

(* The line is in the file, but fsync fails, or close: append raises before  *)
(* the id is noted, and the event may be handed over again.                 *)
SyncFails(w) ==
    /\ calls[w].at = "written"
    /\ unsure' = unsure \cup {calls[w].event}
    /\ calls' = [calls EXCEPT ![w] = IdleCall]
    /\ UNCHANGED <<files, seeded, seen, reads, acked, costs>>

(* A process dies and is started again: its locks are free, its ids gone.   *)
Crash(s) ==
    LET mine == {w \in Thread : StoreOf[w] = s}
        cut  == Cardinality({w \in mine : calls[w].at = "writing"})
    IN  /\ s \in seeded
        /\ torn + cut <= MaxTorn
        /\ torn' = torn + cut
        /\ seeded' = seeded \ {s} /\ seen' = [seen EXCEPT ![s] = {}]
        /\ calls' = [w \in Thread |-> IF w \in mine THEN IdleCall ELSE calls[w]]
        /\ UNCHANGED <<files, reads, acked, unsure, taken, swallowed>>

-----------------------------------------------------------------------------
(* get_events *)

(* The renamed files are listed, *)
ListShards(r) ==
    /\ reads[r] = IdleRead
    /\ reads' = [reads EXCEPT ![r] = [at |-> "listed", files |-> Len(ends),
                                      before |-> acked]]
    /\ UNCHANGED <<files, seeded, seen, calls, acked, unsure, costs>>

(* and the active one is looked for. *)
LookForActive(r) ==
    /\ reads[r].at = "listed"
    /\ reads' = [reads EXCEPT ![r] = [at |-> "looked", files |-> @.files,
                                      before |-> @.before, active |-> ActiveExists]]
    /\ UNCHANGED <<files, seeded, seen, calls, acked, unsure, costs>>

(* only the active file is read *)
M_ShardEvents(n) == << >>

ShardEvents(n) == SubSeq(lines, 1, End(n))

(* The listed files are read, which nobody writes any more, and then what is *)
(* the active file by now.  If there is none, or what is read is no text,   *)
(* get_events raises.                                                       *)
ReadFiles(r) ==
    /\ reads[r].at = "looked"
    /\ LET rd == reads[r]
           found == ShardEvents(rd.files)
                       \o IF rd.active THEN ActiveLines \o TailEvents ELSE << >>
           raises == \/ Garbled \in Elements(found)
                     \/ rd.active /\ ~(ActiveExists /\ Decodable(tail.text))
       IN  reads' = [reads EXCEPT ![r] =
              IF raises THEN IdleRead
              ELSE [at |-> "done", events |-> found,
                    passed |-> Elements(SubSeq(lines, End(rd.files) + 1, LastEnd)),
                    due |-> rd.before \cap Elements(Visible)]]
    /\ UNCHANGED <<files, seeded, seen, calls, acked, unsure, costs>>

Return(r) ==
    /\ reads[r].at = "done"
    /\ reads' = [reads EXCEPT ![r] = IdleRead]
    /\ UNCHANGED <<files, seeded, seen, calls, acked, unsure, costs>>

Next ==
    \/ \E w \in Thread : \/ Call(w) \/ Acquire(w) \/ AcquireFails(w)
                         \/ WriteSome(w) \/ WriteAll(w) \/ Finish(w)
                         \/ WriteFails(w) \/ SyncFails(w)
    \/ \E s \in Store : Crash(s)
    \/ \E r \in Reader : ListShards(r) \/ LookForActive(r) \/ ReadFiles(r) \/ Return(r)

Spec == Init /\ [][Next]_vars

-----------------------------------------------------------------------------
(* Appends of several processes, rotations, torn writes and restarts make a *)
(* log that only grows, by whole events and without duplicates, but for the  *)
(* events whose append failed only after their line was in the file or whose *)
(* id is not loaded; a line that cannot be read stays where it is           *)
(* (event_store.py:25, event_store.py:125, event_store.py:132,              *)
(* event_store.py:172).                                                     *)
Log == INSTANCE EventLog WITH log <- Visible, Gap <- {Junk, Garbled}

ImplementsEventLog == Log!Spec

Idle == \A w \in Thread : calls[w].at # "writing"

(* What goes wrong with the files goes wrong on account of a torn write: the *)
(* next append is swallowed by the line that has no end, and a whole line   *)
(* without its newline goes with it, so that at most twice as many events   *)
(* whose append returned are missing as writes were torn; and unless one was *)
(* torn, what is in the files can be read, by get_events and by a store that *)
(* loads its ids (event_store.py:99, event_store.py:129, event_store.py:162). *)
LossIsBounded ==
    /\ Cardinality(acked \ Elements(Visible)) <= 2 * torn
    /\ torn = 0 /\ Idle => Readable

(* A read that does not raise returns every event whose append had returned  *)
(* when it began and that is in the files, except what a rotation passes by  *)
(* it: the lines of files that were renamed after it had listed them.  It   *)
(* returns each once, unless the event may have been written twice          *)
(* (event_store.py:159, event_store.py:161).                                *)
ReadsAreComplete ==
    \A r \in Reader : reads[r].at = "done" =>
        LET found == reads[r].events
        IN  /\ reads[r].due \subseteq Elements(found) \cup reads[r].passed
            /\ \A i, j \in 1 .. Len(found) :
                  found[i] = found[j] /\ found[i] \in Event \ unsure => i = j
===============================================================================
