---------------------------- MODULE EventStoreProofs ----------------------------
(***************************************************************************)
(* For any stores, threads, readers and events: the files implement        *)
(* EventLog, what is lost is bounded by the writes that were torn, and a   *)
(* read misses nothing but what rotations pass by it.                      *)
(***************************************************************************)
EXTENDS EventStore, FiniteSetTheorems, SequenceTheorems, TLAPS

Gaps == {Junk, Garbled}

Line == Event \cup Gaps

(* Events that nobody has reason to write twice. *)
Sure == Event \ unsure

Busy(w)    == calls[w] # IdleCall
Writing(w) == calls[w].at = "writing"
Written(w) == calls[w].at = "written"

SpoiltTail == [event : {NoEvent}, text : {"part", "cut", "bad"}]

TailType == [event : Event, text : {"whole", "part", "cut"}] \cup {NoTail} \cup SpoiltTail

CallType ==
    [at : {"called", "holding", "writing", "written"}, event : Event] \cup {IdleCall}

ReadType ==
    {IdleRead}
    \cup [at : {"listed"}, files : Nat, before : SUBSET Event]
    \cup [at : {"looked"}, files : Nat, before : SUBSET Event, active : BOOLEAN]
    \cup [at : {"done"}, events : Seq(Line), passed : SUBSET Line, due : SUBSET Event]

TypeOK ==
    /\ lines \in Seq(Line)
    /\ ends \in Seq(Nat) /\ \A i \in 1 .. Len(ends) : ends[i] <= Len(lines)
    /\ \A i, j \in 1 .. Len(ends) : i <= j => ends[i] <= ends[j]
    /\ tail \in TailType
    /\ seeded \subseteq Store /\ seen \in [Store -> SUBSET Event]
    /\ calls \in [Thread -> CallType] /\ reads \in [Reader -> ReadType]
    /\ acked \subseteq Event /\ unsure \subseteq Event /\ Separated \subseteq unsure
    /\ torn \in Nat /\ taken \in Nat /\ swallowed \in Nat

(* An event has one producer at a time, which has not heard of it; one      *)
(* thread holds the locks, and its store knows what is in the log.          *)
CallsAreApart ==
    /\ \A w \in Thread : Busy(w) => calls[w].event \in Event \ acked
                                    /\ Home[calls[w].event] = StoreOf[w]
    /\ \A v, w \in Thread : calls[v].event = calls[w].event /\ Busy(v) => v = w
    /\ \A v, w \in Thread : Holding(v) /\ Holding(w) => v = w
    /\ \A w \in Thread : Holding(w) => StoreOf[w] \in seeded

(* The unfinished line is the one being written, or has lost its writer.    *)
TailIsWriters ==
    \A w \in Thread :
        /\ Writing(w) => tail \in SpoiltTail \/ tail.event = calls[w].event
        /\ Written(w) => tail = NoTail

(* Of the events that nobody has reason to write twice, no line repeats     *)
(* one, and a store that has loaded the ids knows those that are its own.   *)
LinesAreDistinct ==
    /\ \A i, j \in 1 .. Len(lines) : lines[i] = lines[j] /\ lines[i] \in Sure => i = j
    /\ tail.event \in Sure => tail.event \notin Elements(lines)
    /\ \A w \in Thread : calls[w].at \in {"holding", "writing"} /\ calls[w].event \in Sure
                            => calls[w].event \notin Elements(lines)
    /\ \A e \in Elements(lines) : e \in Sure /\ Home[e] \in seeded
          => e \in seen[Home[e]] \/ \E w \in Thread : Written(w) /\ calls[w].event = e

(* A whole line without a newline and without a writer may still be taken,  *)
(* and an unfinished line that is not its writer's may still swallow one:   *)
(* for each, a torn write has not been charged yet.                         *)
TakeIsDue == Idle /\ TailEvents # << >>

SwallowIsDue == tail \in SpoiltTail \/ (Idle /\ tail # NoTail)

TornPays ==
    /\ taken + (IF TakeIsDue THEN 1 ELSE 0) <= torn
    /\ swallowed + (IF SwallowIsDue THEN 1 ELSE 0) <= torn

(* Bytes that are no text are of an event that was swallowed. *)
GarbledIsPaid == Garbled \in Elements(lines) => swallowed >= 1

(* An event somebody takes for stored. *)
Believed ==
    {e \in Event : \/ e \in acked
                   \/ \E s \in Store : e \in seen[s]
                   \/ \E w \in Thread : Written(w) /\ calls[w].event = e}

InLog == Elements(Visible)

Lost == Believed \ InLog

LossIsPaid == IsFiniteSet(Lost) /\ Cardinality(Lost) <= taken + swallowed

InActive == Elements(ActiveLines \o TailEvents)

(* Of a read under way: what had returned before has returned; and if there *)
(* was no active file, what has come to it since is new.                    *)
ReadsAreFair ==
    \A r \in Reader :
        /\ reads[r].at \in {"listed", "looked"} =>
              reads[r].before \subseteq acked /\ reads[r].files <= Len(ends)
        /\ reads[r].at = "looked" /\ ~reads[r].active => reads[r].before \cap InActive = {}

IInv ==
    /\ TypeOK
    /\ CallsAreApart
    /\ TailIsWriters
    /\ LinesAreDistinct
    /\ TornPays
    /\ GarbledIsPaid
    /\ LossIsPaid
    /\ ReadsAreFair
    /\ ReadsAreComplete

-----------------------------------------------------------------------------
(* The elements of sequences *)

(* What a concatenation holds: the lines of the files and the last one.     *)
LEMMA ElementsOfConcat ==
    ASSUME NEW S, NEW s \in Seq(S), NEW t \in Seq(S)
    PROVE  Elements(s \o t) = Elements(s) \cup Elements(t)
<1>1. /\ s \o t \in Seq(S) /\ Len(s \o t) = Len(s) + Len(t)
      /\ \A i \in 1 .. Len(s) + Len(t) :
            (s \o t)[i] = IF i <= Len(s) THEN s[i] ELSE t[i - Len(s)]
  BY ConcatProperties
<1>2. Len(s) \in Nat /\ Len(t) \in Nat
  BY LenProperties
<1>3. ASSUME NEW x \in Elements(s \o t)
      PROVE  x \in Elements(s) \cup Elements(t)
  <2>1. PICK i \in 1 .. Len(s) + Len(t) : x = (s \o t)[i]
    BY <1>1, <1>3 DEF Elements
  <2>2. CASE i <= Len(s)
    BY <2>1, <2>2, <1>1, <1>2 DEF Elements
  <2>3. CASE i > Len(s)
    <3>1. i - Len(s) \in 1 .. Len(t) /\ x = t[i - Len(s)]
      BY <2>1, <2>3, <1>1, <1>2
    <3>2. QED  BY <3>1 DEF Elements
  <2>4. QED  BY <2>1, <2>2, <2>3, <1>2
<1>4. ASSUME NEW x \in Elements(s)
      PROVE  x \in Elements(s \o t)
  BY <1>1, <1>2 DEF Elements
<1>5. ASSUME NEW x \in Elements(t)
      PROVE  x \in Elements(s \o t)
  <2>1. PICK i \in 1 .. Len(t) : x = t[i]
    BY DEF Elements
  <2>2. i + Len(s) \in 1 .. Len(s) + Len(t) /\ (s \o t)[i + Len(s)] = x
    BY <2>1, <1>1, <1>2
  <2>3. QED  BY <2>2, <1>1 DEF Elements
<1>6. QED  BY <1>3, <1>4, <1>5

(* A line that is appended joins the others. *)
LEMMA ElementsOfAppend ==
    ASSUME NEW S, NEW s \in Seq(S), NEW x \in S
    PROVE  Elements(Append(s, x)) = Elements(s) \cup {x}
<1>1. /\ Append(s, x) \in Seq(S) /\ Len(Append(s, x)) = Len(s) + 1
      /\ \A i \in 1 .. Len(s) : Append(s, x)[i] = s[i]
      /\ Append(s, x)[Len(s) + 1] = x
  BY AppendProperties
<1>2. Len(s) \in Nat
  BY LenProperties
<1>3. 1 .. Len(s) + 1 = 1 .. Len(s) \cup {Len(s) + 1}
  BY <1>2
<1>4. QED  BY <1>1, <1>3 DEF Elements

(* What the active file holds, and what the renamed ones do.                *)
LEMMA Parts ==
    ASSUME TypeOK
    PROVE  /\ LastEnd \in 0 .. Len(lines) /\ Len(lines) \in Nat /\ Len(ends) \in Nat
           /\ ActiveLines \in Seq(Line) /\ Len(ActiveLines) = Len(lines) - LastEnd
           /\ \A i \in 1 .. Len(ActiveLines) : ActiveLines[i] = lines[i + LastEnd]
           /\ ShardEvents(Len(ends)) \in Seq(Line) /\ Len(ShardEvents(Len(ends))) = LastEnd
           /\ \A i \in 1 .. LastEnd : ShardEvents(Len(ends))[i] = lines[i]
           /\ lines = ShardEvents(Len(ends)) \o ActiveLines
           /\ TailEvents \in Seq(Line)
<1>1. /\ lines \in Seq(Line) /\ ends \in Seq(Nat) /\ tail \in TailType
      /\ \A i \in 1 .. Len(ends) : ends[i] <= Len(lines)
  BY DEF TypeOK
<1>2. Len(lines) \in Nat /\ Len(ends) \in Nat
  BY <1>1, LenProperties
<1>3. LastEnd \in 0 .. Len(lines)
  BY <1>1, <1>2 DEF LastEnd, End
<1>4. /\ ActiveLines \in Seq(Line) /\ Len(ActiveLines) = Len(lines) - LastEnd
      /\ \A i \in 1 .. Len(ActiveLines) : ActiveLines[i] = lines[i + LastEnd]
  BY <1>1, <1>2, <1>3 DEF ActiveLines
<1>5. /\ ShardEvents(Len(ends)) \in Seq(Line) /\ Len(ShardEvents(Len(ends))) = LastEnd
      /\ \A i \in 1 .. LastEnd : ShardEvents(Len(ends))[i] = lines[i]
  BY <1>1, <1>2, <1>3 DEF ShardEvents, LastEnd
<1>6. lines = ShardEvents(Len(ends)) \o ActiveLines
  <2>1. /\ ShardEvents(Len(ends)) \o ActiveLines \in Seq(Line)
        /\ Len(ShardEvents(Len(ends)) \o ActiveLines) = LastEnd + Len(ActiveLines)
        /\ \A i \in 1 .. LastEnd + Len(ActiveLines) :
              (ShardEvents(Len(ends)) \o ActiveLines)[i] =
                 IF i <= LastEnd THEN ShardEvents(Len(ends))[i] ELSE ActiveLines[i - LastEnd]
    <3> DEFINE s == ShardEvents(Len(ends))
               t == ActiveLines
    <3>1. s \in Seq(Line) /\ t \in Seq(Line) /\ Len(s) = LastEnd
      BY <1>4, <1>5
    <3> HIDE DEF s, t
    <3>2. /\ s \o t \in Seq(Line) /\ Len(s \o t) = LastEnd + Len(t)
          /\ \A i \in 1 .. LastEnd + Len(t) :
                (s \o t)[i] = IF i <= LastEnd THEN s[i] ELSE t[i - LastEnd]
      BY <3>1, ConcatProperties
    <3>3. QED  BY <3>2 DEF s, t
  <2>2. LastEnd + Len(ActiveLines) = Len(lines)
    BY <1>2, <1>3, <1>4
  <2>3. \A i \in 1 .. Len(lines) : (ShardEvents(Len(ends)) \o ActiveLines)[i] = lines[i]
    <3>1. TAKE i \in 1 .. Len(lines)
    <3>2. CASE i <= LastEnd
      BY <3>2, <2>1, <2>2, <1>2, <1>3, <1>5
    <3>3. CASE i > LastEnd
      <4>1. i - LastEnd \in 1 .. Len(ActiveLines) /\ (i - LastEnd) + LastEnd = i
        BY <3>3, <1>2, <1>3, <1>4
      <4>2. ActiveLines[i - LastEnd] = lines[i]
        BY <4>1, <1>4
      <4>3. (ShardEvents(Len(ends)) \o ActiveLines)[i] = ActiveLines[i - LastEnd]
        BY <3>3, <2>1, <2>2, <1>2, <1>3
      <4>4. QED  BY <4>2, <4>3
    <3>4. i <= LastEnd \/ i > LastEnd
      BY <1>2, <1>3
    <3>5. QED  BY <3>2, <3>3, <3>4, Zenon
  <2>4. QED  BY <1>1, <2>1, <2>2, <2>3, SeqEqual
<1>7. TailEvents \in Seq(Line)
  <2>1. CASE tail.text # "whole"
    BY <2>1 DEF TailEvents
  <2>2. CASE tail.text = "whole"
    <3>1. tail.event \in Line
      BY <2>2, <1>1 DEF TailType, Line, NoTail, SpoiltTail
    <3>2. QED  BY <2>2, <3>1 DEF TailEvents
  <2>3. QED  BY <2>1, <2>2
<1>8. QED  BY <1>2, <1>3, <1>4, <1>5, <1>6, <1>7

(* The log is what the lines hold and the last, unfinished one.             *)
LEMMA VisibleElements ==
    ASSUME TypeOK
    PROVE  /\ Elements(Visible) = Elements(lines) \cup Elements(TailEvents)
           /\ \/ TailEvents = << >> /\ Len(TailEvents) = 0 /\ Elements(TailEvents) = {}
              \/ /\ tail.event \in Event /\ TailEvents = <<tail.event>>
                 /\ Len(TailEvents) = 1 /\ Elements(TailEvents) = {tail.event}
           /\ Visible \in Seq(Line)
           /\ StoredIds \subseteq Event
<1>1. lines \in Seq(Line) /\ TailEvents \in Seq(Line)
  BY Parts DEF TypeOK
<1>2. Elements(Visible) = Elements(lines) \cup Elements(TailEvents)
  BY <1>1, ElementsOfConcat DEF Visible
<1>3. \/ TailEvents = << >> /\ Len(TailEvents) = 0 /\ Elements(TailEvents) = {}
      \/ /\ tail.event \in Event /\ TailEvents = <<tail.event>>
         /\ Len(TailEvents) = 1 /\ Elements(TailEvents) = {tail.event}
  BY DEF Elements, TailEvents, TypeOK, TailType, NoTail, SpoiltTail
<1>4. Visible \in Seq(Line)
  BY <1>1, ConcatProperties DEF Visible
<1>5. StoredIds \subseteq Event
  BY DEF StoredIds
<1>6. QED  BY <1>2, <1>3, <1>4, <1>5

-----------------------------------------------------------------------------
(* The steps of a call *)

(* A call that goes on keeps its event, and no other call notices.          *)
LEMMA CallGoesOn ==
    ASSUME calls \in [Thread -> CallType], NEW w \in Thread,
           NEW a \in {"holding", "writing", "written"}, Busy(w),
           calls' = [calls EXCEPT ![w].at = a]
    PROVE  /\ calls' \in [Thread -> CallType]
           /\ calls'[w].at = a /\ calls'[w] # IdleCall
           /\ \A v \in Thread : calls'[v].event = calls[v].event
           /\ \A v \in Thread \ {w} : calls'[v] = calls[v]
<1>1. calls[w] \in [at : {"called", "holding", "writing", "written"}, event : Event]
  BY DEF CallType, Busy
<1>2. calls' = [calls EXCEPT ![w] = [calls[w] EXCEPT !.at = a]]
  OBVIOUS
<1>3. [calls[w] EXCEPT !.at = a] = [at |-> a, event |-> calls[w].event]
  BY <1>1
<1>4. [at |-> a, event |-> calls[w].event] \in CallType
  BY <1>1 DEF CallType
<1>5. calls'[w] = [at |-> a, event |-> calls[w].event] /\ \A v \in Thread \ {w} : calls'[v] = calls[v]
  BY <1>2, <1>3
<1>6. calls' \in [Thread -> CallType]
  BY <1>2, <1>3, <1>4
<1>7. QED  BY <1>5, <1>6 DEF IdleCall

(* A call that is over leaves the others alone.                             *)
LEMMA CallEnds ==
    ASSUME calls \in [Thread -> CallType], NEW w \in Thread,
           calls' = [calls EXCEPT ![w] = IdleCall]
    PROVE  /\ calls' \in [Thread -> CallType]
           /\ calls'[w] = IdleCall /\ calls'[w].at = "idle"
           /\ \A v \in Thread \ {w} : calls'[v] = calls[v]
BY DEF CallType, IdleCall

(* What a thread is doing tells whether it is busy, and with an event.      *)
LEMMA CallShape ==
    ASSUME calls \in [Thread -> CallType], NEW w \in Thread
    PROVE  /\ Busy(w) <=> calls[w].at # "idle"
           /\ Busy(w) => calls[w].event \in Event
                         /\ calls[w] = [at |-> calls[w].at, event |-> calls[w].event]
           /\ Holding(w) => Busy(w)
           /\ Writing(w) => Holding(w) /\ ~Written(w)
           /\ Written(w) => Holding(w)
<1>1. calls[w] \in CallType
  OBVIOUS
<1>2. CASE calls[w] = IdleCall
  BY <1>2 DEF Busy, Holding, Writing, Written, IdleCall
<1>3. CASE calls[w] \in [at : {"called", "holding", "writing", "written"}, event : Event]
  BY <1>3 DEF Busy, Holding, Writing, Written, IdleCall
<1>4. QED  BY <1>1, <1>2, <1>3 DEF CallType

(* At most one process holds the lock on the file: a crash tears at most    *)
(* the one line that is being written.                                      *)
LEMMA OneIsCut ==
    ASSUME CallsAreApart, calls \in [Thread -> CallType], NEW s \in Store
    PROVE  LET cut == {w \in {v \in Thread : StoreOf[v] = s} : calls[w].at = "writing"}
           IN  \/ cut = {} /\ Cardinality(cut) = 0
               \/ \E w \in Thread : cut = {w} /\ Writing(w) /\ StoreOf[w] = s
                                    /\ Cardinality(cut) = 1
<1> DEFINE cut == {w \in {v \in Thread : StoreOf[v] = s} : calls[w].at = "writing"}
<1>1. CASE cut = {}
  BY <1>1, FS_EmptySet
<1>2. CASE cut # {}
  <2>1. PICK w \in Thread : w \in cut
    BY <1>2
  <2>2. cut = {w}
    BY <2>1 DEF CallsAreApart, Holding
  <2>3. Cardinality(cut) = 1
    BY <2>2, FS_Singleton
  <2>4. QED  BY <2>1, <2>2, <2>3 DEF Writing
<1>3. QED  BY <1>1, <1>2

-----------------------------------------------------------------------------
(* Typing *)

(* The files and the counters keep their types. *)
LEMMA FilesTyped ==
    ASSUME TypeOK, CallsAreApart, [Next]_vars
    PROVE  /\ lines' \in Seq(Line) /\ ends' \in Seq(Nat) /\ tail' \in TailType
           /\ \A i \in 1 .. Len(ends') : ends'[i] <= Len(lines')
           /\ \A i, j \in 1 .. Len(ends') : i <= j => ends'[i] <= ends'[j]
           /\ torn' \in Nat /\ taken' \in Nat /\ swallowed' \in Nat
<1> DEFINE T == /\ lines' \in Seq(Line) /\ ends' \in Seq(Nat) /\ tail' \in TailType
                /\ \A i \in 1 .. Len(ends') : ends'[i] <= Len(lines')
                /\ \A i, j \in 1 .. Len(ends') : i <= j => ends'[i] <= ends'[j]
                /\ torn' \in Nat /\ taken' \in Nat /\ swallowed' \in Nat
<1> USE DEF TypeOK
<1>1. Len(lines) \in Nat /\ Len(ends) \in Nat /\ Len(TailEvents) \in Nat
  BY Parts, LenProperties
<1>2. CASE UNCHANGED <<files, costs>>
  BY <1>2 DEF files, costs
<1>3. ASSUME NEW w \in Thread, WriteSome(w)
      PROVE  T
  <2>1. calls[w].event \in Event
    BY <1>3, CallShape DEF WriteSome, IdleCall
  <2>2. tail' \in TailType /\ UNCHANGED <<lines, ends, torn, swallowed>> /\ taken' \in Nat
    BY <2>1, <1>1, <1>3 DEF WriteSome, TailType, Spoilt, SpoiltTail, Decodable
  <2>3. QED  BY <2>2
<1>4. ASSUME NEW w \in Thread, WriteAll(w)
      PROVE  T
  <2>1. calls[w].event \in Event
    BY <1>4, CallShape DEF WriteAll, IdleCall
  <2>2. (IF tail.event = calls[w].event THEN calls[w].event
         ELSE IF tail.text = "bad" THEN Garbled ELSE Junk) \in Line
    BY <2>1 DEF Line, Gaps
  <2>3. /\ lines' \in Seq(Line) /\ Len(lines') = Len(lines) + 1 /\ tail' = NoTail
        /\ UNCHANGED <<ends, torn, taken>> /\ swallowed' \in Nat
    BY <2>2, <1>4, AppendProperties DEF WriteAll
  <2>4. \A i \in 1 .. Len(ends') : ends'[i] <= Len(lines')
    <3>1. ASSUME NEW i \in 1 .. Len(ends)
          PROVE  ends[i] <= Len(lines) + 1
      <4>1. ends[i] <= Len(lines) /\ ends[i] \in Nat
        BY <1>1
      <4>2. QED  BY <4>1, <1>1
    <3>2. QED  BY <3>1, <2>3
  <2>5. \A i, j \in 1 .. Len(ends') : i <= j => ends'[i] <= ends'[j]
    BY <2>3
  <2>6. QED  BY <2>3, <2>4, <2>5 DEF TailType
<1>5. ASSUME NEW w \in Thread, Finish(w)
      PROVE  T
  <2>1. UNCHANGED <<lines, tail, torn, taken, swallowed>>
    BY <1>5 DEF Finish, costs
  <2>2. CASE ends' = ends
    BY <2>1, <2>2
  <2>3. CASE ends' = Append(ends, Len(lines))
    <3>1. /\ ends' \in Seq(Nat) /\ Len(ends') = Len(ends) + 1
          /\ \A i \in 1 .. Len(ends) : ends'[i] = ends[i]
          /\ ends'[Len(ends) + 1] = Len(lines)
      BY <2>3, <1>1, AppendProperties
    <3>2. ASSUME NEW i \in 1 .. Len(ends')
          PROVE  ends'[i] <= Len(lines)
      <4>1. CASE i = Len(ends) + 1
        BY <4>1, <3>1, <1>1
      <4>2. CASE i # Len(ends) + 1
        <5>1. i \in 1 .. Len(ends)
          BY <4>2, <3>1, <1>1
        <5>2. ends[i] <= Len(lines)
          BY <5>1
        <5>3. QED  BY <5>1, <5>2, <3>1
      <4>3. QED  BY <4>1, <4>2
    <3>3. ASSUME NEW i \in 1 .. Len(ends'), NEW j \in 1 .. Len(ends'), i <= j
          PROVE  ends'[i] <= ends'[j]
      <4>1. CASE j = Len(ends) + 1
        BY <4>1, <3>1, <3>2
      <4>2. CASE j # Len(ends) + 1
        <5>1. i \in 1 .. Len(ends) /\ j \in 1 .. Len(ends)
          BY <4>2, <3>1, <3>3, <1>1
        <5>2. ends[i] <= ends[j]
          BY <5>1, <3>3
        <5>3. QED  BY <5>1, <5>2, <3>1
      <4>3. QED  BY <4>1, <4>2
    <3>4. QED  BY <3>1, <3>2, <3>3, <2>1
  <2>4. QED  BY <2>2, <2>3, <1>5 DEF Finish
<1>6. ASSUME NEW w \in Thread, WriteFails(w)
      PROVE  T
  BY <1>6 DEF WriteFails, files
<1>7. ASSUME NEW s \in Store, Crash(s)
      PROVE  T
  <2> DEFINE cut == {w \in {v \in Thread : StoreOf[v] = s} : calls[w].at = "writing"}
  <2>1. torn' = torn + Cardinality(cut) /\ UNCHANGED <<files, taken, swallowed>>
    BY <1>7 DEF Crash
  <2>2. Cardinality(cut) = 0 \/ Cardinality(cut) = 1
    BY OneIsCut
  <2> HIDE DEF cut
  <2>3. torn' \in Nat
    BY <2>1, <2>2
  <2>4. QED  BY <2>1, <2>3 DEF files
<1>8. ASSUME NEW w \in Thread, Call(w) \/ Acquire(w) \/ AcquireFails(w) \/ SyncFails(w)
      PROVE  UNCHANGED <<files, costs>>
  BY <1>8 DEF Call, Acquire, AcquireFails, SyncFails
<1>9. ASSUME NEW r \in Reader, ListShards(r) \/ LookForActive(r) \/ ReadFiles(r) \/ Return(r)
      PROVE  UNCHANGED <<files, costs>>
  BY <1>9 DEF ListShards, LookForActive, ReadFiles, Return
<1>10. QED
  BY <1>2, <1>3, <1>4, <1>5, <1>6, <1>7, <1>8, <1>9 DEF Next, vars

(* So do the stores and the calls. *)
LEMMA CallsTyped ==
    ASSUME TypeOK, [Next]_vars
    PROVE  /\ seeded' \subseteq Store /\ seen' \in [Store -> SUBSET Event]
           /\ calls' \in [Thread -> CallType] /\ acked' \subseteq Event
           /\ unsure' \subseteq Event /\ unsure \subseteq unsure'
<1> USE EventStoreAssumption
<1> DEFINE T == /\ seeded' \subseteq Store /\ seen' \in [Store -> SUBSET Event]
                /\ calls' \in [Thread -> CallType] /\ acked' \subseteq Event
                /\ unsure' \subseteq Event /\ unsure \subseteq unsure'
<1>1. /\ seeded \subseteq Store /\ seen \in [Store -> SUBSET Event]
      /\ calls \in [Thread -> CallType] /\ acked \subseteq Event
      /\ unsure \subseteq Event
  BY DEF TypeOK
<1>2. CASE UNCHANGED <<seeded, seen, calls, acked, unsure>>
  BY <1>1, <1>2
<1>3. ASSUME NEW w \in Thread, Call(w)
      PROVE  T
  BY <1>1, <1>3 DEF Call, CallType
<1>4. ASSUME NEW w \in Thread, Acquire(w)
      PROVE  T
  <2>1. StoreOf[w] \in Store /\ StoredIds \subseteq Event /\ calls[w].event \in Event /\ Busy(w)
    BY <1>1, <1>4, VisibleElements, CallShape DEF Acquire, IdleCall
  <2>2. /\ seeded' \subseteq Store /\ seen' \in [Store -> SUBSET Event] /\ acked' \subseteq Event
        /\ unsure' = unsure
    BY <2>1, <1>1, <1>4 DEF Acquire
  <2>3. \/ calls' = [calls EXCEPT ![w] = IdleCall]
        \/ calls' = [calls EXCEPT ![w].at = "holding"]
    BY <1>4 DEF Acquire
  <2>4. QED  BY <2>1, <2>2, <2>3, <1>1, CallGoesOn, CallEnds
<1>5. ASSUME NEW w \in Thread, WriteSome(w)
      PROVE  T
  <2>1. Busy(w)
    BY <1>1, <1>5, CallShape DEF WriteSome
  <2>2. QED  BY <2>1, <1>1, <1>5, CallGoesOn DEF WriteSome
<1>6. ASSUME NEW w \in Thread, WriteAll(w)
      PROVE  T
  <2>1. Busy(w)
    BY <1>1, <1>6, CallShape DEF WriteAll
  <2>2. QED  BY <2>1, <1>1, <1>6, CallGoesOn DEF WriteAll
<1>7. ASSUME NEW w \in Thread, Finish(w)
      PROVE  T
  <2>1. calls[w].event \in Event
    BY <1>1, <1>7, CallShape DEF Finish
  <2>2. UNCHANGED <<seeded, unsure>> /\ calls' \in [Thread -> CallType]
    BY <1>1, <1>7, CallEnds DEF Finish
  <2>3. seen' \in [Store -> SUBSET Event] /\ acked' \subseteq Event
    BY <2>1, <1>1, <1>7 DEF Finish
  <2>4. QED  BY <2>2, <2>3, <1>1
<1>8. ASSUME NEW w \in Thread, AcquireFails(w) \/ WriteFails(w) \/ SyncFails(w)
      PROVE  T
  <2>1. calls[w].event \in Event
    BY <1>1, <1>8, CallShape DEF AcquireFails, WriteFails, SyncFails
  <2>2. QED  BY <2>1, <1>1, <1>8, CallEnds DEF AcquireFails, WriteFails, SyncFails
<1>9. ASSUME NEW s \in Store, Crash(s)
      PROVE  T
  BY <1>1, <1>9 DEF Crash, CallType
<1>10. ASSUME NEW r \in Reader, ListShards(r) \/ LookForActive(r) \/ ReadFiles(r) \/ Return(r)
       PROVE  UNCHANGED <<seeded, seen, calls, acked, unsure>>
  BY <1>10 DEF ListShards, LookForActive, ReadFiles, Return
<1>11. QED
  BY <1>1, <1>2, <1>3, <1>4, <1>5, <1>6, <1>7, <1>8, <1>9, <1>10 DEF Next, vars

(* A reader finds lines. *)
LEMMA ReadsTyped ==
    ASSUME TypeOK, ReadsAreFair, [Next]_vars
    PROVE  reads' \in [Reader -> ReadType]
<1>1. reads \in [Reader -> ReadType] /\ acked \subseteq Event /\ Len(ends) \in Nat
  BY LenProperties DEF TypeOK
<1>2. CASE UNCHANGED reads
  BY <1>1, <1>2
<1>3. ASSUME NEW r \in Reader, ListShards(r)
      PROVE  reads' \in [Reader -> ReadType]
  BY <1>1, <1>3 DEF ListShards, ReadType
<1>4. ASSUME NEW r \in Reader, LookForActive(r)
      PROVE  reads' \in [Reader -> ReadType]
  <2>1. reads[r] \in [at : {"listed"}, files : Nat, before : SUBSET Event]
    BY <1>1, <1>4 DEF LookForActive, ReadType, IdleRead
  <2>2. ActiveExists \in BOOLEAN
    BY DEF ActiveExists
  <2>3. QED  BY <1>1, <1>4, <2>1, <2>2 DEF LookForActive, ReadType
<1>5. ASSUME NEW r \in Reader, ReadFiles(r)
      PROVE  reads' \in [Reader -> ReadType]
  <2> DEFINE rd == reads[r]
             found == ShardEvents(rd.files)
                         \o IF rd.active THEN ActiveLines \o TailEvents ELSE << >>
             passed == Elements(SubSeq(lines, End(rd.files) + 1, LastEnd))
             new == [at |-> "done", events |-> found, passed |-> passed,
                     due |-> rd.before \cap Elements(Visible)]
  <2>1. rd \in [at : {"looked"}, files : Nat, before : SUBSET Event, active : BOOLEAN]
    BY <1>1, <1>5 DEF ReadFiles, ReadType, IdleRead
  <2>2. rd.files <= Len(ends)
    BY <1>5 DEF ReadFiles, ReadsAreFair
  <2>3. End(rd.files) \in 0 .. Len(lines)
    BY <2>1, <2>2, <1>1 DEF End, TypeOK
  <2>4. ShardEvents(rd.files) \in Seq(Line)
    BY <2>3, LenProperties DEF ShardEvents, TypeOK
  <2>5. ActiveLines \o TailEvents \in Seq(Line)
    BY Parts, ConcatProperties
  <2>6. found \in Seq(Line)
    BY <2>4, <2>5, ConcatProperties
  <2>7. passed \subseteq Line
    <3>1. SubSeq(lines, End(rd.files) + 1, LastEnd) \in Seq(Line)
      BY <2>3, Parts DEF TypeOK
    <3>2. QED  BY <3>1 DEF Elements
  <2>8. reads' = [reads EXCEPT ![r] = IdleRead] \/ reads' = [reads EXCEPT ![r] = new]
    BY <1>5 DEF ReadFiles
  <2> HIDE DEF found, passed
  <2>9. new \in [at : {"done"}, events : Seq(Line), passed : SUBSET Line, due : SUBSET Event]
    BY <2>1, <2>6, <2>7
  <2> HIDE DEF new
  <2>10. QED  BY <2>8, <2>9, <1>1 DEF ReadType
<1>6. ASSUME NEW r \in Reader, Return(r)
      PROVE  reads' \in [Reader -> ReadType]
  BY <1>1, <1>6 DEF Return, ReadType
<1>7. ASSUME NEW w \in Thread, \/ Call(w) \/ Acquire(w) \/ WriteSome(w) \/ WriteAll(w)
                               \/ Finish(w) \/ AcquireFails(w) \/ WriteFails(w)
                               \/ SyncFails(w)
      PROVE  UNCHANGED reads
  BY <1>7 DEF Call, Acquire, WriteSome, WriteAll, Finish, AcquireFails, WriteFails, SyncFails
<1>8. ASSUME NEW s \in Store, Crash(s)
      PROVE  UNCHANGED reads
  BY <1>8 DEF Crash
<1>9. QED
  BY <1>2, <1>3, <1>4, <1>5, <1>6, <1>7, <1>8 DEF Next, vars

-----------------------------------------------------------------------------
(* The locks *)

(* Every step keeps the calls apart.  *)
LEMMA CallsStayApart ==
    ASSUME TypeOK, CallsAreApart, [Next]_vars
    PROVE  CallsAreApart'
<1> USE EventStoreAssumption
<1> DEFINE Fine(w) == Busy(w) => calls[w].event \in Event \ acked
                                 /\ Home[calls[w].event] = StoreOf[w]
<1>0. /\ calls \in [Thread -> CallType] /\ calls' \in [Thread -> CallType]
      /\ acked \subseteq Event
      /\ \A w \in Thread : (Busy(w) <=> calls[w].at # "idle") /\ (Holding(w) => Busy(w))
      /\ \A w \in Thread : (~Busy(w) => calls[w].event = NoEvent)
                           /\ (Busy(w) => calls[w].event # NoEvent)
  BY CallsTyped, CallShape DEF TypeOK, Busy, IdleCall
<1>1. CASE UNCHANGED <<seeded, calls, acked>>
  BY <1>1 DEF CallsAreApart, Busy, Holding
<1>2. ASSUME NEW w \in Thread, Call(w)
      PROVE  CallsAreApart'
  <2>1. PICK e \in Event \ acked :
            /\ Home[e] = StoreOf[w] /\ \A v \in Thread : calls[v].event # e
            /\ calls' = [calls EXCEPT ![w] = [at |-> "called", event |-> e]]
    BY <1>2 DEF Call
  <2>2. /\ calls'[w] = [at |-> "called", event |-> e]
        /\ \A v \in Thread \ {w} : calls'[v] = calls[v]
        /\ UNCHANGED <<seeded, acked>>
    BY <2>1, <1>0, <1>2 DEF Call
  <2>3. QED  BY <2>1, <2>2, <1>0 DEF CallsAreApart, Busy, Holding, IdleCall
<1>3. ASSUME NEW w \in Thread, Busy(w),
             calls' = [calls EXCEPT ![w] = IdleCall],
             acked' \subseteq acked \cup {calls[w].event}, seeded \subseteq seeded'
      PROVE  CallsAreApart'
  <2>1. calls'[w] = IdleCall /\ \A v \in Thread \ {w} : calls'[v] = calls[v]
    BY <1>0, <1>3, CallEnds
  <2>2. QED  BY <2>1, <1>0, <1>3 DEF CallsAreApart, Busy, Holding, IdleCall
<1>4. ASSUME NEW w \in Thread, Busy(w), NEW a \in {"holding", "writing", "written"},
             calls' = [calls EXCEPT ![w].at = a], acked' = acked,
             seeded \subseteq seeded', StoreOf[w] \in seeded',
             \A v \in Thread : Holding(v) => v = w
      PROVE  CallsAreApart'
  <2>1. /\ calls'[w] # IdleCall /\ calls'[w].at = a
        /\ \A v \in Thread : calls'[v].event = calls[v].event
        /\ \A v \in Thread \ {w} : calls'[v] = calls[v]
    BY <1>0, <1>4, CallGoesOn
  <2>2. QED  BY <2>1, <1>0, <1>4 DEF CallsAreApart, Busy, Holding
<1>5. ASSUME NEW w \in Thread, Acquire(w)
      PROVE  CallsAreApart'
  <2>1. /\ Busy(w) /\ StoreOf[w] \in seeded' /\ seeded \subseteq seeded'
        /\ \A v \in Thread : ~Holding(v)
    BY <1>0, <1>5 DEF Acquire, Free
  <2>2. \/ calls' = [calls EXCEPT ![w] = IdleCall] /\ acked' = acked \cup {calls[w].event}
        \/ calls' = [calls EXCEPT ![w].at = "holding"] /\ acked' = acked
    BY <1>5 DEF Acquire
  <2>3. QED  BY <2>1, <2>2, <1>3, <1>4
<1>6. ASSUME NEW w \in Thread, WriteSome(w) \/ WriteAll(w)
      PROVE  CallsAreApart'
  <2>1. /\ Busy(w) /\ Holding(w) /\ UNCHANGED <<seeded, acked>>
    BY <1>0, <1>6 DEF WriteSome, WriteAll, Holding
  <2>2. StoreOf[w] \in seeded /\ \A v \in Thread : Holding(v) => v = w
    BY <2>1 DEF CallsAreApart
  <2>3. \/ calls' = [calls EXCEPT ![w].at = "writing"]
        \/ calls' = [calls EXCEPT ![w].at = "written"]
    BY <1>6 DEF WriteSome, WriteAll
  <2>4. QED  BY <2>1, <2>2, <2>3, <1>4
<1>7. ASSUME NEW w \in Thread,
             Finish(w) \/ AcquireFails(w) \/ WriteFails(w) \/ SyncFails(w)
      PROVE  CallsAreApart'
  <2>1. /\ Busy(w) /\ UNCHANGED seeded /\ acked' \subseteq acked \cup {calls[w].event}
        /\ calls' = [calls EXCEPT ![w] = IdleCall]
    BY <1>0, <1>7 DEF Finish, AcquireFails, WriteFails, SyncFails
  <2>2. QED  BY <2>1, <1>3
<1>8. ASSUME NEW s \in Store, Crash(s)
      PROVE  CallsAreApart'
  <2>1. /\ \A v \in Thread : calls'[v] = IF StoreOf[v] = s THEN IdleCall ELSE calls[v]
        /\ seeded' = seeded \ {s} /\ acked' = acked
    BY <1>0, <1>8 DEF Crash
  <2>2. QED  BY <2>1, <1>0 DEF CallsAreApart, Busy, Holding, IdleCall
<1>9. ASSUME NEW r \in Reader, ListShards(r) \/ LookForActive(r) \/ ReadFiles(r) \/ Return(r)
      PROVE  UNCHANGED <<seeded, calls, acked>>
  BY <1>9 DEF ListShards, LookForActive, ReadFiles, Return
<1>10. QED
  BY <1>1, <1>2, <1>5, <1>6, <1>7, <1>8, <1>9 DEF Next, vars

(* The unfinished line stays its writer's. *)
LEMMA TailStaysWriters ==
    ASSUME TypeOK, CallsAreApart, TailIsWriters, [Next]_vars
    PROVE  TailIsWriters'
<1>0. /\ calls \in [Thread -> CallType] /\ calls' \in [Thread -> CallType]
      /\ \A w \in Thread : (Writing(w) => Holding(w) /\ ~Written(w)) /\ (Written(w) => Holding(w))
      /\ \A w \in Thread : Holding(w) => Busy(w)
  BY CallsTyped, CallShape DEF TypeOK
<1>1. CASE UNCHANGED <<tail, calls>>
  BY <1>1 DEF TailIsWriters, Writing, Written
<1>2. ASSUME NEW w \in Thread, tail' = tail, calls'[w].at \notin {"writing", "written"},
             \A v \in Thread \ {w} : calls'[v] = calls[v]
      PROVE  TailIsWriters'
  BY <1>2 DEF TailIsWriters, Writing, Written
<1>3. ASSUME NEW w \in Thread, Call(w)
      PROVE  TailIsWriters'
  BY <1>0, <1>3, <1>2 DEF Call, files
<1>4. ASSUME NEW w \in Thread, Acquire(w)
      PROVE  TailIsWriters'
  <2>1. Busy(w) /\ tail' = tail
    BY <1>0, <1>4, CallShape DEF Acquire, files
  <2>2. \/ calls' = [calls EXCEPT ![w] = IdleCall]
        \/ calls' = [calls EXCEPT ![w].at = "holding"]
    BY <1>4 DEF Acquire
  <2>3. calls'[w].at \in {"idle", "holding"} /\ \A v \in Thread \ {w} : calls'[v] = calls[v]
    BY <2>1, <2>2, <1>0, CallEnds, CallGoesOn
  <2>4. QED  BY <2>1, <2>3, <1>2
<1>5. ASSUME NEW w \in Thread, WriteSome(w) \/ WriteAll(w)
      PROVE  TailIsWriters'
  <2>1. Holding(w) /\ Busy(w)
    BY <1>0, <1>5 DEF WriteSome, WriteAll, Holding
  <2>2. \A v \in Thread \ {w} : ~Holding(v)
    BY <2>1 DEF CallsAreApart
  <2>3. /\ calls'[w].at = IF WriteSome(w) THEN "writing" ELSE "written"
        /\ calls'[w].event = calls[w].event
        /\ \A v \in Thread \ {w} : calls'[v] = calls[v]
    BY <2>1, <1>0, <1>5, CallGoesOn DEF WriteSome, WriteAll
  <2>4. IF WriteSome(w) THEN tail' \in SpoiltTail \/ tail'.event = calls[w].event
                        ELSE tail' = NoTail
    BY <1>5 DEF WriteSome, WriteAll, Spoilt, SpoiltTail, Decodable
  <2>5. QED  BY <1>0, <2>2, <2>3, <2>4 DEF TailIsWriters, Writing, Written
<1>6. ASSUME NEW w \in Thread,
             Finish(w) \/ AcquireFails(w) \/ WriteFails(w) \/ SyncFails(w)
      PROVE  TailIsWriters'
  <2>1. /\ tail' = tail /\ calls'[w].at = "idle"
        /\ \A v \in Thread \ {w} : calls'[v] = calls[v]
    BY <1>0, <1>6, CallEnds DEF Finish, AcquireFails, WriteFails, SyncFails, files
  <2>2. QED  BY <2>1, <1>2
<1>7. ASSUME NEW s \in Store, Crash(s)
      PROVE  TailIsWriters'
  BY <1>0, <1>7 DEF Crash, files, TailIsWriters, Writing, Written, IdleCall
<1>8. ASSUME NEW r \in Reader, ListShards(r) \/ LookForActive(r) \/ ReadFiles(r) \/ Return(r)
      PROVE  UNCHANGED <<tail, calls>>
  BY <1>8 DEF ListShards, LookForActive, ReadFiles, Return, files
<1>9. QED
  BY <1>1, <1>3, <1>4, <1>5, <1>6, <1>7, <1>8 DEF Next, vars, files

-----------------------------------------------------------------------------
(* The lines *)

(* Every step keeps the lines distinct: an event is written only by a store *)
(* that does not know it, and such a store has loaded what there was.       *)
LEMMA LinesStayDistinct ==
    ASSUME TypeOK, CallsAreApart, TailIsWriters, LinesAreDistinct, [Next]_vars
    PROVE  LinesAreDistinct'
<1> USE EventStoreAssumption
<1>0. /\ calls \in [Thread -> CallType] /\ calls' \in [Thread -> CallType]
      /\ \A w \in Thread : /\ Writing(w) => Holding(w) /\ ~Written(w)
                           /\ Written(w) => Holding(w)
                           /\ Holding(w) => Busy(w)
                           /\ Busy(w) => calls[w].event \in Event
      /\ seen \in [Store -> SUBSET Event] /\ seeded \subseteq Store
      /\ lines \in Seq(Line) /\ Elements(lines) \subseteq Line /\ Len(lines) \in Nat
      /\ Sure \subseteq Event \ Separated /\ Sure' \subseteq Sure
  BY CallsTyped, CallShape, LenProperties DEF TypeOK, Elements, Sure
<1>1. CASE UNCHANGED <<files, seeded, seen, calls, unsure>>
  BY <1>1 DEF LinesAreDistinct, files, Written, Elements, Sure
<1>2. ASSUME NEW w \in Thread, Call(w)
      PROVE  LinesAreDistinct'
  <2>1. /\ calls'[w].at = "called" /\ ~Written(w)
        /\ \A v \in Thread \ {w} : calls'[v] = calls[v]
        /\ UNCHANGED <<lines, tail, seeded, seen, unsure>>
    BY <1>0, <1>2 DEF Call, files, Written, IdleCall
  <2>2. QED  BY <2>1 DEF LinesAreDistinct, Written, Elements, Sure
<1>3. ASSUME NEW w \in Thread, Acquire(w)
      PROVE  LinesAreDistinct'
  <2> DEFINE s == StoreOf[w]
             ids == IF s \in seeded THEN seen[s] ELSE StoredIds
  <2>1. /\ Busy(w) /\ ~Written(w) /\ s \in Store
        /\ calls[w].event \in Event /\ Home[calls[w].event] = s
        /\ \A v \in Thread : ~Holding(v)
        /\ UNCHANGED <<lines, tail, unsure>>
    BY <1>0, <1>3, CallShape DEF Acquire, Free, CallsAreApart, files, Written
  <2>2. Elements(lines) \cap Sure \subseteq StoredIds
    BY <1>0, VisibleElements DEF StoredIds, Junk
  <2>3. calls[w].event \notin ids /\ calls[w].event \in Sure
           => calls[w].event \notin Elements(lines)
    BY <2>1, <2>2, <1>0 DEF LinesAreDistinct
  <2>4. \A e \in Elements(lines) : e \in Sure /\ Home[e] \in seeded' => e \in seen'[Home[e]]
    <3>1. /\ seeded' = seeded \cup {s} /\ seen'[s] = ids
          /\ \A t \in Store \ {s} : seen'[t] = seen[t]
      BY <1>0, <1>3, <2>1 DEF Acquire
    <3>2. TAKE e \in Elements(lines)
    <3>3. HAVE e \in Sure /\ Home[e] \in seeded'
    <3>4. e \in Event /\ Home[e] \in Store
      BY <3>3, <1>0
    <3>5. Home[e] \in seeded => e \in seen[Home[e]]
      BY <3>3, <2>1, <1>0 DEF LinesAreDistinct
    <3>6. Home[e] \notin seeded => Home[e] = s /\ e \in StoredIds
      BY <3>1, <3>3, <2>2
    <3>7. QED  BY <3>1, <3>4, <3>5, <3>6
  <2>5. /\ calls[w].event \in ids => calls'[w].at = "idle"
        /\ calls[w].event \notin ids => calls'[w].at = "holding"
        /\ calls'[w].at = "holding" => calls'[w].event = calls[w].event
        /\ \A v \in Thread \ {w} : calls'[v] = calls[v]
    <3>1. calls' = [calls EXCEPT ![w] = IF calls[w].event \in ids THEN IdleCall
                                        ELSE [@ EXCEPT !.at = "holding"]]
      BY <1>3 DEF Acquire
    <3> HIDE DEF ids
    <3>2. CASE calls[w].event \in ids
      <4>1. calls' = [calls EXCEPT ![w] = IdleCall]
        BY <3>1, <3>2
      <4>2. QED  BY <4>1, <3>2, <1>0, CallEnds
    <3>3. CASE calls[w].event \notin ids
      <4>1. calls' = [calls EXCEPT ![w].at = "holding"]
        BY <3>1, <3>3
      <4>2. QED  BY <4>1, <3>3, <1>0, <2>1, CallGoesOn
    <3>4. QED  BY <3>2, <3>3
  <2>6. QED  BY <2>1, <2>3, <2>4, <2>5 DEF LinesAreDistinct, Elements, Holding, Sure
<1>4. ASSUME NEW w \in Thread, WriteSome(w)
      PROVE  LinesAreDistinct'
  <2>1. Busy(w) /\ Holding(w) /\ calls[w].at = "holding"
    BY <1>0, <1>4 DEF WriteSome, Holding
  <2>2. /\ calls'[w].at = "writing" /\ ~Written(w)
        /\ \A v \in Thread : calls'[v].event = calls[v].event
        /\ \A v \in Thread \ {w} : calls'[v] = calls[v]
        /\ UNCHANGED <<lines, seeded, seen, unsure>>
    BY <2>1, <1>0, <1>4, CallGoesOn DEF WriteSome, Written
  <2>3. tail'.event \in {calls[w].event, NoEvent}
    BY <1>4 DEF WriteSome, Spoilt
  <2>4. NoEvent \notin Sure
    BY <1>0
  <2>5. QED  BY <2>1, <2>2, <2>3, <2>4 DEF LinesAreDistinct, Written, Elements, Sure
<1>5. ASSUME NEW w \in Thread, WriteAll(w)
      PROVE  LinesAreDistinct'
  <2> DEFINE new == IF tail.event = calls[w].event THEN calls[w].event
                    ELSE IF tail.text = "bad" THEN Garbled ELSE Junk
  <2>1. /\ Busy(w) /\ Holding(w) /\ Writing(w) /\ calls[w].event \in Event
        /\ \A v \in Thread \ {w} : ~Holding(v)
    BY <1>0, <1>5 DEF WriteAll, Holding, Writing, CallsAreApart
  <2>2. /\ calls'[w].at = "written" /\ calls'[w].event = calls[w].event
        /\ \A v \in Thread \ {w} : calls'[v] = calls[v]
        /\ UNCHANGED <<seeded, seen, unsure>> /\ tail' = NoTail /\ lines' = Append(lines, new)
    BY <2>1, <1>0, <1>5, CallGoesOn DEF WriteAll
  <2>3. new \in Line /\ (new \in Sure => new = calls[w].event)
    BY <2>1, <1>0 DEF Line, Gaps, Junk
  <2>4. /\ Len(lines') = Len(lines) + 1 /\ lines'[Len(lines) + 1] = new
        /\ \A i \in 1 .. Len(lines) : lines'[i] = lines[i]
        /\ Elements(lines') = Elements(lines) \cup {new}
    BY <2>2, <2>3, <1>0, AppendProperties, ElementsOfAppend
  <2>5. calls[w].event \in Sure => calls[w].event \notin Elements(lines)
    BY <2>1 DEF LinesAreDistinct, Writing
  <2> HIDE DEF new
  <2>6. \A i, j \in 1 .. Len(lines') : lines'[i] = lines'[j] /\ lines'[i] \in Sure => i = j
    <3>1. TAKE i, j \in 1 .. Len(lines')
    <3>2. HAVE lines'[i] = lines'[j] /\ lines'[i] \in Sure
    <3>3. \A k \in 1 .. Len(lines') : k \in 1 .. Len(lines) \/ k = Len(lines) + 1
      BY <2>4, <1>0
    <3>4. CASE i \in 1 .. Len(lines) /\ j \in 1 .. Len(lines)
      BY <3>2, <3>4, <2>4 DEF LinesAreDistinct
    <3>5. \A k \in 1 .. Len(lines) : lines'[k] # new \/ new \notin Sure
      BY <2>3, <2>4, <2>5 DEF Elements
    <3>6. QED  BY <3>2, <3>3, <3>4, <3>5, <2>4
  <2>7. \A e \in Elements(lines') : e \in Sure /\ Home[e] \in seeded'
          => e \in seen'[Home[e]] \/ \E v \in Thread : Written(v)' /\ calls'[v].event = e
    <3>1. TAKE e \in Elements(lines')
    <3>2. HAVE e \in Sure /\ Home[e] \in seeded'
    <3>3. CASE e \in Elements(lines)
      <4>1. e \in seen[Home[e]] \/ \E v \in Thread : Written(v) /\ calls[v].event = e
        BY <3>2, <3>3, <2>2 DEF LinesAreDistinct
      <4>2. \A v \in Thread : ~Written(v)
        BY <2>1, <1>0
      <4>3. QED  BY <4>1, <4>2, <2>2
    <3>4. CASE e = new
      BY <3>2, <3>4, <2>2, <2>3 DEF Written
    <3>5. QED  BY <3>3, <3>4, <2>4
  <2>8. \A v \in Thread : calls'[v].at \in {"holding", "writing"}
                              => calls'[v].event \notin Elements(lines')
    BY <2>1, <2>2 DEF Holding
  <2>9. tail'.event \notin Sure
    BY <2>2, <1>0 DEF NoTail
  <2>10. QED  BY <2>2, <2>6, <2>7, <2>8, <2>9 DEF LinesAreDistinct, Elements, Written, Sure
<1>6. ASSUME NEW w \in Thread, Finish(w)
      PROVE  LinesAreDistinct'
  <2>1. /\ Busy(w) /\ calls'[w].at = "idle"
        /\ \A v \in Thread \ {w} : calls'[v] = calls[v]
        /\ UNCHANGED <<lines, tail, seeded, unsure>>
        /\ seen' = [seen EXCEPT ![StoreOf[w]] = @ \cup {calls[w].event}]
        /\ Home[calls[w].event] = StoreOf[w] /\ StoreOf[w] \in Store
    BY <1>0, <1>6, CallEnds, CallShape DEF Finish, CallsAreApart
  <2>2. \A s \in Store : seen[s] \subseteq seen'[s]
    BY <2>1, <1>0
  <2>3. calls[w].event \in seen'[StoreOf[w]]
    BY <2>1, <1>0
  <2>4. \A e \in Elements(lines) : e \in Sure /\ Home[e] \in seeded
          => e \in seen'[Home[e]] \/ \E v \in Thread : Written(v)' /\ calls'[v].event = e
    <3>1. TAKE e \in Elements(lines)
    <3>2. HAVE e \in Sure /\ Home[e] \in seeded
    <3>3. e \in seen[Home[e]] \/ \E v \in Thread : Written(v) /\ calls[v].event = e
      BY <3>2 DEF LinesAreDistinct
    <3>4. CASE e \in seen[Home[e]]
      BY <3>2, <3>4, <2>2, <1>0
    <3>5. ASSUME NEW v \in Thread, Written(v), calls[v].event = e
          PROVE  e \in seen'[Home[e]] \/ (Written(v)' /\ calls'[v].event = e)
      <4>1. CASE v = w
        <5>1. e = calls[w].event /\ Home[e] = StoreOf[w]
          BY <4>1, <3>5, <2>1
        <5>2. QED  BY <5>1, <2>3
      <4>2. CASE v # w
        BY <4>2, <3>5, <2>1 DEF Written
      <4>3. QED  BY <4>1, <4>2
    <3>6. QED  BY <3>3, <3>4, <3>5
  <2>5. QED  BY <2>1, <2>4 DEF LinesAreDistinct, Elements, Sure
<1>7. ASSUME NEW w \in Thread, AcquireFails(w) \/ WriteFails(w) \/ SyncFails(w)
      PROVE  LinesAreDistinct'
  <2>1. /\ calls'[w].at = "idle" /\ (Written(w) => calls[w].event \notin Sure')
        /\ \A v \in Thread \ {w} : calls'[v] = calls[v]
        /\ UNCHANGED <<lines, tail, seeded, seen>>
    BY <1>0, <1>7, CallEnds DEF AcquireFails, WriteFails, SyncFails, files, Written, Sure
  <2>2. \A e \in Elements(lines) : e \in Sure' /\ Home[e] \in seeded
          => e \in seen[Home[e]] \/ \E v \in Thread : Written(v)' /\ calls'[v].event = e
    <3>1. TAKE e \in Elements(lines)
    <3>2. HAVE e \in Sure' /\ Home[e] \in seeded
    <3>3. CASE e \in seen[Home[e]]
      BY <3>3
    <3>4. ASSUME NEW v \in Thread, Written(v), calls[v].event = e
          PROVE  Written(v)' /\ calls'[v].event = e
      BY <2>1, <3>2, <3>4 DEF Written
    <3>5. e \in seen[Home[e]] \/ \E v \in Thread : Written(v) /\ calls[v].event = e
      BY <3>2, <1>0 DEF LinesAreDistinct
    <3>6. QED  BY <3>3, <3>4, <3>5
  <2>3. QED  BY <2>1, <2>2, <1>0 DEF LinesAreDistinct, Elements
<1>8. ASSUME NEW s \in Store, Crash(s)
      PROVE  LinesAreDistinct'
  <2>1. /\ \A v \in Thread : calls'[v] = IF StoreOf[v] = s THEN IdleCall ELSE calls[v]
        /\ UNCHANGED <<lines, tail, unsure>> /\ seeded' = seeded \ {s}
        /\ \A t \in Store \ {s} : seen'[t] = seen[t]
    BY <1>0, <1>8 DEF Crash, files
  <2>2. \A v \in Thread : Written(v) => Home[calls[v].event] = StoreOf[v]
    BY <1>0 DEF CallsAreApart
  <2>3. \A e \in Elements(lines) : e \in Sure /\ Home[e] \in seeded'
          => e \in seen'[Home[e]] \/ \E v \in Thread : Written(v)' /\ calls'[v].event = e
    BY <2>1, <2>2, <1>0 DEF LinesAreDistinct, Written
  <2>4. QED  BY <2>1, <2>3 DEF LinesAreDistinct, Elements, IdleCall, Sure
<1>9. ASSUME NEW r \in Reader, ListShards(r) \/ LookForActive(r) \/ ReadFiles(r) \/ Return(r)
      PROVE  UNCHANGED <<files, seeded, seen, calls, unsure>>
  BY <1>9 DEF ListShards, LookForActive, ReadFiles, Return
<1>10. QED
  BY <1>1, <1>2, <1>3, <1>4, <1>5, <1>6, <1>7, <1>8, <1>9 DEF Next, vars

-----------------------------------------------------------------------------
(* What torn writes cost *)

(* Steps that write nothing and leave nothing half written. *)
Calm(w) == Call(w) \/ Acquire(w) \/ AcquireFails(w) \/ Finish(w) \/ SyncFails(w)

(* Whether anybody writes, before and after a step of a call. *)
LEMMA Writers ==
    ASSUME TypeOK, CallsAreApart
    PROVE  /\ \A w \in Thread : WriteSome(w) => Idle /\ ~Idle'
           /\ \A w \in Thread : WriteAll(w) => ~Idle /\ Idle'
           /\ \A w \in Thread : WriteFails(w) =>
                 (torn' = torn + 1 /\ ~Idle) \/ (torn' = torn /\ Idle' = Idle)
           /\ \A w \in Thread : Calm(w) => Idle' = Idle
<1>0. /\ calls \in [Thread -> CallType]
      /\ \A v, w \in Thread : Holding(v) /\ Holding(w) => v = w
      /\ \A w \in Thread : (Writing(w) => Holding(w)) /\ (Holding(w) => Busy(w))
  BY CallShape DEF TypeOK, CallsAreApart
<1>1. ASSUME NEW w \in Thread, WriteSome(w)
      PROVE  Idle /\ ~Idle'
  <2>1. Holding(w) /\ ~Writing(w) /\ calls'[w].at = "writing"
    BY <1>0, <1>1, CallGoesOn DEF WriteSome, Holding, Writing
  <2>2. QED  BY <2>1, <1>0 DEF Idle, Writing
<1>2. ASSUME NEW w \in Thread, WriteAll(w)
      PROVE  ~Idle /\ Idle'
  <2>1. /\ Holding(w) /\ Writing(w) /\ calls'[w].at = "written"
        /\ \A v \in Thread \ {w} : calls'[v] = calls[v]
    BY <1>0, <1>2, CallGoesOn DEF WriteAll, Holding, Writing
  <2>2. \A v \in Thread \ {w} : ~Writing(v)
    BY <2>1, <1>0
  <2>3. QED  BY <2>1, <2>2 DEF Idle, Writing
<1>3. ASSUME NEW w \in Thread, WriteFails(w)
      PROVE  (torn' = torn + 1 /\ ~Idle) \/ (torn' = torn /\ Idle' = Idle)
  <2>1. CASE Writing(w)
    BY <1>3, <2>1 DEF WriteFails, Idle, Writing
  <2>2. CASE ~Writing(w)
    <3>1. torn' = torn /\ calls'[w].at = "idle" /\ \A v \in Thread \ {w} : calls'[v] = calls[v]
      BY <1>0, <1>3, <2>2, CallEnds DEF WriteFails, Writing
    <3>2. QED  BY <3>1, <2>2 DEF Idle, Writing
  <2>3. QED  BY <2>1, <2>2
<1>4. ASSUME NEW w \in Thread, Calm(w)
      PROVE  Idle' = Idle
  <2>1. ~Writing(w) /\ calls'[w].at # "writing"
    <3>1. CASE Call(w)
      BY <3>1, <1>0 DEF Call, Writing, IdleCall
    <3>2. CASE Acquire(w)
      <4>1. \/ calls' = [calls EXCEPT ![w] = IdleCall]
            \/ calls' = [calls EXCEPT ![w].at = "holding"] /\ Busy(w)
        BY <3>2, <1>0, CallShape DEF Acquire
      <4>2. QED  BY <4>1, <3>2, <1>0, CallEnds, CallGoesOn DEF Acquire, Writing
    <3>3. CASE Finish(w) \/ AcquireFails(w) \/ SyncFails(w)
      BY <3>3, <1>0, CallEnds DEF Finish, AcquireFails, SyncFails, Writing
    <3>4. QED  BY <1>4, <3>1, <3>2, <3>3 DEF Calm
  <2>2. \A v \in Thread \ {w} : calls'[v] = calls[v]
    <3>1. PICK c : calls' = [calls EXCEPT ![w] = c]
      BY <1>4 DEF Calm, Call, Acquire, Finish, AcquireFails, SyncFails
    <3>2. QED  BY <3>1, <1>0
  <2>3. QED  BY <2>1, <2>2 DEF Idle, Writing
<1>5. QED  BY <1>1, <1>2, <1>3, <1>4

(* ... and of a crash, which tears the line of a writer and no other. *)
LEMMA CrashTears ==
    ASSUME TypeOK, CallsAreApart, NEW s \in Store, Crash(s)
    PROVE  \/ torn' = torn /\ (Idle' <=> Idle)
           \/ torn' = torn + 1 /\ ~Idle
<1>1. \A v \in Thread : calls'[v] = IF StoreOf[v] = s THEN IdleCall ELSE calls[v]
  BY DEF Crash, TypeOK
<1>2. CASE {w \in {v \in Thread : StoreOf[v] = s} : calls[w].at = "writing"} = {}
  <2>1. torn' = torn
    <3>1. Cardinality({}) = 0
      BY FS_EmptySet
    <3> DEFINE cut == {w \in {v \in Thread : StoreOf[v] = s} : calls[w].at = "writing"}
    <3>2. torn' = torn + Cardinality(cut)
      BY DEF Crash
    <3>3. Cardinality(cut) = 0
      BY <3>1, <1>2
    <3> HIDE DEF cut
    <3>4. QED  BY <3>2, <3>3 DEF TypeOK
  <2>2. \A v \in Thread : Writing(v)' <=> Writing(v)
    BY <1>1, <1>2 DEF Writing, IdleCall
  <2>3. QED  BY <2>1, <2>2 DEF Idle, Writing
<1>3. CASE {w \in {v \in Thread : StoreOf[v] = s} : calls[w].at = "writing"} # {}
  <2>1. torn' = torn + 1
    BY <1>3, OneIsCut DEF Crash, TypeOK
  <2>2. QED  BY <2>1, <1>3 DEF Idle, Writing
<1>4. QED  BY <1>2, <1>3

(* Every step leaves a torn write for each loss that is still to come. *)
LEMMA TornKeepsPaying ==
    ASSUME TypeOK, CallsAreApart, TailIsWriters, TornPays, [Next]_vars
    PROVE  TornPays'
<1> USE DEF TornPays
<1>0. torn \in Nat /\ taken \in Nat /\ swallowed \in Nat /\ tail \in TailType
  BY DEF TypeOK
<1>1. CASE UNCHANGED <<tail, costs>> /\ (Idle' <=> Idle)
  BY <1>1 DEF costs, TakeIsDue, SwallowIsDue, TailEvents
<1>2. ASSUME UNCHANGED <<tail, taken, swallowed>>, torn' = torn + 1, ~Idle
      PROVE  TornPays'
  BY <1>0, <1>2 DEF TakeIsDue, SwallowIsDue
<1>3. ASSUME NEW w \in Thread, Calm(w)
      PROVE  TornPays'
  <2>1. UNCHANGED <<tail, costs>>
    BY <1>3 DEF Calm, Call, Acquire, AcquireFails, Finish, SyncFails, files
  <2>2. QED  BY <2>1, <1>1, <1>3, Writers
<1>4. ASSUME NEW w \in Thread, WriteSome(w)
      PROVE  TornPays'
  <2>1. /\ Idle /\ ~Idle' /\ taken' = taken + Len(TailEvents)
        /\ UNCHANGED <<torn, swallowed>>
    BY <1>4, Writers DEF WriteSome
  <2>2. ~TakeIsDue' /\ (TailEvents # << >> => TakeIsDue) /\ Len(TailEvents) \in 0 .. 1
    BY <2>1, VisibleElements DEF TakeIsDue
  <2>3. taken' + (IF TakeIsDue' THEN 1 ELSE 0) <= torn'
    <3>1. CASE TailEvents = << >>
      BY <3>1, <2>1, <2>2, <1>0, VisibleElements
    <3>2. CASE TailEvents # << >>
      <4>1. taken + 1 <= torn
        BY <3>2, <2>2
      <4>2. taken' <= torn'
        <5>1. PICK n \in 0 .. 1 : taken' = taken + n
          BY <2>1, <2>2
        <5>2. QED  BY <5>1, <4>1, <2>1, <1>0
      <4>3. (IF TakeIsDue' THEN 1 ELSE 0) = 0
        BY <2>2
      <4>4. QED  BY <4>2, <4>3, <2>1, <2>2, <1>0
    <3>3. QED  BY <3>1, <3>2
  <2>4. CASE tail = NoTail
    <3>1. tail' \notin SpoiltTail
      <4>1. calls[w].event \in Event
        BY <1>4, CallShape DEF WriteSome, TypeOK
      <4>2. tail'.event = calls[w].event
        BY <2>4, <1>4 DEF WriteSome
      <4>3. QED  BY <4>1, <4>2, EventStoreAssumption DEF SpoiltTail
    <3>2. ~SwallowIsDue'
      BY <3>1, <2>1 DEF SwallowIsDue
    <3>3. QED  BY <3>2, <2>1, <2>3, <1>0
  <2>5. CASE tail # NoTail
    <3>1. SwallowIsDue
      BY <2>1, <2>5 DEF SwallowIsDue
    <3>2. QED  BY <3>1, <2>1, <2>3, <1>0
  <2>6. QED  BY <2>4, <2>5
<1>5. ASSUME NEW w \in Thread, WriteAll(w)
      PROVE  TornPays'
  <2>1. /\ tail' = NoTail /\ UNCHANGED <<torn, taken>>
        /\ swallowed' = IF tail.event = calls[w].event THEN swallowed ELSE swallowed + 1
    BY <1>5 DEF WriteAll
  <2>2. ~TakeIsDue' /\ ~SwallowIsDue'
    BY <2>1 DEF TakeIsDue, SwallowIsDue, TailEvents, NoTail, SpoiltTail
  <2>3. tail.event # calls[w].event => SwallowIsDue
    BY <1>5 DEF WriteAll, TailIsWriters, Writing, SwallowIsDue
  <2>4. QED  BY <2>1, <2>2, <2>3, <1>0
<1>6. ASSUME NEW w \in Thread, WriteFails(w)
      PROVE  TornPays'
  <2>1. UNCHANGED <<tail, taken, swallowed>>
    BY <1>6 DEF WriteFails, files
  <2>2. QED  BY <2>1, <1>1, <1>2, <1>6, Writers DEF costs
<1>7. ASSUME NEW s \in Store, Crash(s)
      PROVE  TornPays'
  <2>1. UNCHANGED <<tail, taken, swallowed>>
    BY <1>7 DEF Crash, files
  <2>2. QED  BY <2>1, <1>1, <1>2, <1>7, CrashTears DEF costs
<1>8. ASSUME NEW r \in Reader, ListShards(r) \/ LookForActive(r) \/ ReadFiles(r) \/ Return(r)
      PROVE  UNCHANGED <<files, calls, costs>>
  BY <1>8 DEF ListShards, LookForActive, ReadFiles, Return
<1>9. UNCHANGED calls => (Idle' <=> Idle)
  BY DEF Idle, Writing
<1>10. QED
  BY <1>1, <1>3, <1>4, <1>5, <1>6, <1>7, <1>8, <1>9 DEF Next, Calm, vars, files

(* A line becomes unreadable only when it swallows an event. *)
LEMMA GarbledStaysPaid ==
    ASSUME TypeOK, GarbledIsPaid, [Next]_vars
    PROVE  GarbledIsPaid'
<1>0. swallowed \in Nat /\ lines \in Seq(Line)
  BY DEF TypeOK
<1>1. CASE UNCHANGED <<lines, swallowed>>
  BY <1>1 DEF GarbledIsPaid, Elements
<1>2. ASSUME NEW w \in Thread, WriteAll(w)
      PROVE  GarbledIsPaid'
  <2> DEFINE e == calls[w].event
             new == IF tail.event = e THEN e ELSE IF tail.text = "bad" THEN Garbled ELSE Junk
  <2>1. /\ e \in Event /\ lines' = Append(lines, new)
        /\ swallowed' = IF tail.event = e THEN swallowed ELSE swallowed + 1
    BY <1>2, CallShape DEF WriteAll, TypeOK
  <2>2. new \in Line
    BY <2>1 DEF Line, Gaps
  <2>3. Elements(lines') = Elements(lines) \cup {new}
    <3> HIDE DEF new
    <3>1. QED  BY <2>1, <2>2, <1>0, ElementsOfAppend
  <2>4. CASE tail.event = e
    <3>1. new # Garbled
      BY <2>1, <2>4, EventStoreAssumption
    <3> HIDE DEF new
    <3>2. QED  BY <3>1, <2>1, <2>3, <2>4 DEF GarbledIsPaid
  <2>5. CASE tail.event # e
    BY <2>1, <2>5, <1>0 DEF GarbledIsPaid
  <2>6. QED  BY <2>4, <2>5
<1>3. ASSUME NEW w \in Thread, Calm(w) \/ WriteSome(w) \/ WriteFails(w)
      PROVE  UNCHANGED <<lines, swallowed>>
  BY <1>3 DEF Calm, Call, Acquire, AcquireFails, Finish, SyncFails, WriteSome, WriteFails,
              files, costs
<1>4. ASSUME NEW s \in Store, Crash(s)
      PROVE  UNCHANGED <<lines, swallowed>>
  BY <1>4 DEF Crash, files
<1>5. ASSUME NEW r \in Reader, ListShards(r) \/ LookForActive(r) \/ ReadFiles(r) \/ Return(r)
      PROVE  UNCHANGED <<lines, swallowed>>
  BY <1>5 DEF ListShards, LookForActive, ReadFiles, Return, files, costs
<1>6. QED
  BY <1>1, <1>2, <1>3, <1>4, <1>5 DEF Next, Calm, vars, files, costs

(* A step that loses no more events than it counts. *)
LEMMA LossIsCounted ==
    ASSUME LossIsPaid, taken + swallowed \in Nat, taken' + swallowed' \in Nat,
           NEW X, IsFiniteSet(X), Lost' \subseteq Lost \cup X,
           taken + swallowed + Cardinality(X) <= taken' + swallowed'
    PROVE  LossIsPaid'
<1>1. IsFiniteSet(Lost) /\ Cardinality(Lost) <= taken + swallowed
  BY DEF LossIsPaid
<1>2. /\ Cardinality(Lost) \in Nat /\ Cardinality(X) \in Nat
      /\ Cardinality(Lost \cap X) \in Nat
  BY <1>1, FS_CardinalityType, FS_Intersection
<1>3. /\ IsFiniteSet(Lost \cup X)
      /\ Cardinality(Lost \cup X) = Cardinality(Lost) + Cardinality(X) - Cardinality(Lost \cap X)
  BY <1>1, FS_Union
<1>4. IsFiniteSet(Lost') /\ Cardinality(Lost') <= Cardinality(Lost \cup X)
  BY <1>3, FS_Subset
<1>5. Cardinality(Lost') \in Nat /\ Cardinality(Lost \cup X) \in Nat
  BY <1>3, <1>4, FS_CardinalityType
<1>6. Cardinality(Lost') <= taken' + swallowed'
  <2>1. \A l, x, i, u, m, c, d \in Nat :
           u = l + x - i /\ m <= u /\ l <= c /\ c + x <= d => m <= d
    OBVIOUS
  <2>2. QED  BY <2>1, <1>1, <1>2, <1>3, <1>4, <1>5
<1>7. QED  BY <1>4, <1>6 DEF LossIsPaid

(* One that loses nothing, and one that loses an event. *)
LEMMA NothingIsLost ==
    ASSUME LossIsPaid, taken + swallowed \in Nat, taken' + swallowed' \in Nat,
           Lost' \subseteq Lost, taken + swallowed <= taken' + swallowed'
    PROVE  LossIsPaid'
<1>1. IsFiniteSet({}) /\ Cardinality({}) = 0
  BY FS_EmptySet
<1>2. taken + swallowed + Cardinality({}) <= taken' + swallowed'
  BY <1>1
<1>3. QED  BY <1>1, <1>2, LossIsCounted

LEMMA OneIsLost ==
    ASSUME LossIsPaid, taken + swallowed \in Nat, taken' + swallowed' \in Nat,
           NEW x, Lost' \subseteq Lost \cup {x},
           taken + swallowed + 1 <= taken' + swallowed'
    PROVE  LossIsPaid'
<1>1. IsFiniteSet({x}) /\ Cardinality({x}) = 1
  BY FS_Singleton
<1>2. taken + swallowed + Cardinality({x}) <= taken' + swallowed'
  BY <1>1
<1>3. QED  BY <1>1, <1>2, LossIsCounted

(* Every step that makes somebody miss an event is paid for. *)
LEMMA LossStaysPaid ==
    ASSUME TypeOK, CallsAreApart, TailIsWriters, LossIsPaid, [Next]_vars
    PROVE  LossIsPaid'
<1> USE EventStoreAssumption
<1>0. /\ calls \in [Thread -> CallType] /\ seen \in [Store -> SUBSET Event]
      /\ acked \subseteq Event
      /\ taken \in Nat /\ swallowed \in Nat
      /\ taken + swallowed \in Nat /\ taken' + swallowed' \in Nat
      /\ lines \in Seq(Line) /\ lines' \in Seq(Line) /\ tail' \in TailType
      /\ \A w \in Thread : calls[w].at # "idle" => Busy(w)
  <2>1. taken' \in Nat /\ swallowed' \in Nat /\ lines' \in Seq(Line) /\ tail' \in TailType
    BY FilesTyped
  <2>2. taken' + swallowed' \in Nat
    <3>1. \A m, n \in Nat : m + n \in Nat
      OBVIOUS
    <3>2. QED  BY <2>1, <3>1
  <2>3. QED  BY <2>1, <2>2, CallShape DEF TypeOK
<1>1. ASSUME UNCHANGED <<lines, tail, taken, swallowed>>,
             Believed' \subseteq Believed \cup InLog
      PROVE  LossIsPaid'
  <2>1. InLog' = InLog
    BY <1>1 DEF InLog, Elements, Visible, TailEvents
  <2>2. Lost' \subseteq Lost
    BY <1>1, <2>1 DEF Lost
  <2>3. QED  BY <2>2, <1>0, <1>1, NothingIsLost
<1>2. CASE UNCHANGED <<files, seen, calls, acked, costs>>
  <2>1. Believed' = Believed
    BY <1>2 DEF Believed, Written
  <2>2. QED  BY <2>1, <1>1, <1>2 DEF files, costs
<1>3. ASSUME NEW w \in Thread,
             Call(w) \/ AcquireFails(w) \/ WriteFails(w) \/ SyncFails(w)
      PROVE  LossIsPaid'
  <2>1. /\ UNCHANGED <<lines, tail, taken, swallowed, seen, acked>>
        /\ calls'[w].at \in {"idle", "called"}
        /\ \A v \in Thread \ {w} : calls'[v] = calls[v]
    BY <1>0, <1>3, CallEnds DEF Call, AcquireFails, WriteFails, SyncFails, files, costs
  <2>2. Believed' \subseteq Believed
    BY <2>1 DEF Believed, Written
  <2>3. QED  BY <2>1, <2>2, <1>1
<1>4. ASSUME NEW w \in Thread, Acquire(w)
      PROVE  LossIsPaid'
  <2> DEFINE ids == IF StoreOf[w] \in seeded THEN seen[StoreOf[w]] ELSE StoredIds
  <2>1. /\ UNCHANGED <<lines, tail, taken, swallowed>> /\ StoreOf[w] \in Store
        /\ ids \subseteq Event
        /\ seen' = [seen EXCEPT ![StoreOf[w]] = ids]
        /\ acked' \subseteq acked \cup ids
    BY <1>0, <1>4, VisibleElements DEF Acquire, files, costs
  <2>2. \A v \in Thread : Written(v)' => Written(v) /\ calls'[v].event = calls[v].event
    <3>1. \/ calls' = [calls EXCEPT ![w] = IdleCall]
          \/ calls' = [calls EXCEPT ![w].at = "holding"] /\ Busy(w)
      BY <1>0, <1>4 DEF Acquire
    <3>2. calls'[w].at # "written" /\ \A v \in Thread \ {w} : calls'[v] = calls[v]
      BY <3>1, <1>0, CallEnds, CallGoesOn
    <3>3. QED  BY <3>2 DEF Written
  <2>3. ids \subseteq Believed \cup InLog
    BY <2>1 DEF Believed, StoredIds, InLog
  <2>4. \A s \in Store : seen'[s] \subseteq Believed \cup InLog
    BY <2>1, <2>3, <1>0 DEF Believed
  <2>5. acked' \subseteq Believed \cup InLog
    BY <2>1, <2>3, <1>0 DEF Believed
  <2>6. Believed' \subseteq Believed \cup InLog
    <3>1. SUFFICES ASSUME NEW e \in Believed'
                   PROVE  e \in Believed \cup InLog
      OBVIOUS
    <3>2. CASE e \in acked' \/ \E s \in Store : e \in seen'[s]
      BY <3>2, <2>4, <2>5
    <3>3. ASSUME NEW v \in Thread, Written(v)', e = calls'[v].event
          PROVE  e \in Believed
      BY <3>3, <2>2 DEF Believed
    <3>4. QED  BY <3>2, <3>3 DEF Believed
  <2>7. QED  BY <2>1, <2>6, <1>1
<1>5. ASSUME NEW w \in Thread, Finish(w)
      PROVE  LossIsPaid'
  <2>1. /\ UNCHANGED <<lines, tail, taken, swallowed>> /\ Written(w)
        /\ calls[w].event \in Event
        /\ seen' = [seen EXCEPT ![StoreOf[w]] = @ \cup {calls[w].event}]
        /\ acked' = acked \cup {calls[w].event}
        /\ calls'[w].at = "idle" /\ \A v \in Thread \ {w} : calls'[v] = calls[v]
    BY <1>0, <1>5, CallEnds, CallShape DEF Finish, costs, Written
  <2>2. calls[w].event \in Believed
    BY <2>1 DEF Believed
  <2>3. \A s \in Store : seen'[s] \subseteq seen[s] \cup {calls[w].event}
    BY <2>1, <1>0
  <2>4. \A v \in Thread : Written(v)' => Written(v) /\ calls'[v].event = calls[v].event
    BY <2>1 DEF Written
  <2>5. Believed' \subseteq Believed
    <3>1. SUFFICES ASSUME NEW e \in Believed'
                   PROVE  e \in Believed
      OBVIOUS
    <3>2. CASE e \in acked' \/ \E s \in Store : e \in seen'[s]
      BY <3>2, <2>1, <2>2, <2>3 DEF Believed
    <3>3. ASSUME NEW v \in Thread, Written(v)', e = calls'[v].event
          PROVE  e \in Believed
      BY <3>3, <2>4 DEF Believed
    <3>4. QED  BY <3>2, <3>3 DEF Believed
  <2>6. QED  BY <2>1, <2>5, <1>1
<1>6. ASSUME NEW s \in Store, Crash(s)
      PROVE  LossIsPaid'
  <2>1. /\ \A v \in Thread : calls'[v] = IF StoreOf[v] = s THEN IdleCall ELSE calls[v]
        /\ UNCHANGED <<lines, tail, taken, swallowed, acked>>
        /\ seen' = [seen EXCEPT ![s] = {}]
    BY <1>0, <1>6 DEF Crash, files
  <2>2. \A t \in Store : seen'[t] \subseteq seen[t]
    BY <2>1, <1>0
  <2>3. \A v \in Thread : Written(v)' => Written(v) /\ calls'[v].event = calls[v].event
    BY <2>1 DEF Written, IdleCall
  <2>4. Believed' \subseteq Believed
    <3>1. SUFFICES ASSUME NEW e \in Believed'
                   PROVE  e \in Believed
      OBVIOUS
    <3>2. CASE e \in acked' \/ \E t \in Store : e \in seen'[t]
      BY <3>2, <2>1, <2>2 DEF Believed
    <3>3. ASSUME NEW v \in Thread, Written(v)', e = calls'[v].event
          PROVE  e \in Believed
      BY <3>3, <2>3 DEF Believed
    <3>4. QED  BY <3>2, <3>3 DEF Believed
  <2>5. QED  BY <2>1, <2>4, <1>1
<1>7. ASSUME NEW w \in Thread, WriteSome(w)
      PROVE  LossIsPaid'
  <2>1. /\ UNCHANGED <<lines, seen, acked, swallowed>> /\ taken' = taken + Len(TailEvents)
        /\ calls'[w].at = "writing" /\ \A v \in Thread \ {w} : calls'[v] = calls[v]
    BY <1>0, <1>7, CallGoesOn DEF WriteSome
  <2>2. Believed' \subseteq Believed
    BY <2>1 DEF Believed, Written
  <2>3. Elements(Visible') = Elements(lines) \cup Elements(TailEvents')
    <3>1. TailEvents' \in Seq(Line)
      <4>1. tail'.event \in Line
        BY <1>0 DEF TailType, Line, Gaps, Junk, NoTail, SpoiltTail
      <4>2. TailEvents' = << >> \/ TailEvents' = <<tail'.event>>
        BY DEF TailEvents
      <4>3. <<tail'.event>> \in Seq(Line) /\ << >> \in Seq(Line)
        BY <4>1
      <4>4. QED  BY <4>2, <4>3, Zenon
    <3>2. QED  BY <3>1, <2>1, <1>0, ElementsOfConcat DEF Visible
  <2>4. Lost' \subseteq Lost \cup Elements(TailEvents)
    BY <2>2, <2>3, VisibleElements DEF Lost, InLog
  <2>5. CASE TailEvents = << >>
    <3>1. Lost' \subseteq Lost /\ taken' = taken
      BY <2>1, <2>4, <2>5, <1>0, VisibleElements
    <3>2. taken + swallowed <= taken' + swallowed'
      BY <3>1, <2>1, <1>0
    <3>3. QED  BY <3>1, <3>2, <1>0, NothingIsLost
  <2>6. CASE TailEvents # << >>
    <3>1. Lost' \subseteq Lost \cup {tail.event} /\ taken' = taken + 1
      BY <2>1, <2>4, <2>6, <1>0, VisibleElements
    <3>2. taken + swallowed + 1 <= taken' + swallowed'
      BY <3>1, <2>1, <1>0
    <3>3. QED  BY <3>1, <3>2, <1>0, OneIsLost
  <2>7. QED  BY <2>5, <2>6
<1>8. ASSUME NEW w \in Thread, WriteAll(w)
      PROVE  LossIsPaid'
  <2> DEFINE e == calls[w].event
             own == tail.event = e
             new == IF own THEN e ELSE IF tail.text = "bad" THEN Garbled ELSE Junk
  <2>1. /\ UNCHANGED <<seen, acked, taken>> /\ lines' = Append(lines, new) /\ tail' = NoTail
        /\ swallowed' = IF own THEN swallowed ELSE swallowed + 1
        /\ calls'[w].event = e /\ \A v \in Thread \ {w} : calls'[v] = calls[v]
    BY <1>0, <1>8, CallGoesOn DEF WriteAll
  <2>2. Believed' \subseteq Believed \cup {e}
    BY <2>1 DEF Believed, Written
  <2>3. e \in Event
    BY <1>0, <1>8, CallShape DEF WriteAll
  <2>4. new \in Line
    BY <2>3 DEF Line, Gaps
  <2>5. Elements(Visible') = Elements(lines) \cup {new}
    <3>1. TailEvents' = << >>
      BY <2>1 DEF TailEvents, NoTail
    <3>2. Visible' = lines' \o << >>
      BY <3>1 DEF Visible
    <3>3. Visible' = lines'
      BY <3>2, <1>0, ConcatEmptySeq
    <3>4. QED  BY <3>3, <2>1, <2>4, <1>0, ElementsOfAppend
  <2>6. CASE own
    <3>1. Elements(Visible) \subseteq Elements(lines) \cup {e}
      BY <2>6, VisibleElements
    <3>2. Lost' \subseteq Lost
      BY <3>1, <2>2, <2>5, <2>6 DEF Lost, InLog
    <3>3. taken + swallowed <= taken' + swallowed'
      BY <2>1, <2>6, <1>0
    <3>4. QED  BY <3>2, <3>3, <1>0, NothingIsLost
  <2>7. CASE ~own
    <3>1. tail \in SpoiltTail
      BY <2>7, <1>8 DEF WriteAll, TailIsWriters, Writing
    <3>2. Elements(Visible) = Elements(lines)
      <4>1. TailEvents = << >>
        BY <3>1 DEF SpoiltTail, TailEvents
      <4>2. QED  BY <4>1, VisibleElements
    <3>3. Lost' \subseteq Lost \cup {e}
      BY <3>2, <2>2, <2>5 DEF Lost, InLog
    <3>4. taken + swallowed + 1 <= taken' + swallowed'
      BY <2>1, <2>7, <1>0
    <3>5. QED  BY <3>3, <3>4, <1>0, OneIsLost
  <2>8. QED  BY <2>6, <2>7
<1>9. ASSUME NEW r \in Reader, ListShards(r) \/ LookForActive(r) \/ ReadFiles(r) \/ Return(r)
      PROVE  UNCHANGED <<files, seen, calls, acked, costs>>
  BY <1>9 DEF ListShards, LookForActive, ReadFiles, Return
<1>10. QED
  BY <1>2, <1>3, <1>4, <1>5, <1>6, <1>7, <1>8, <1>9 DEF Next, vars

-----------------------------------------------------------------------------
(* The readers *)

(* What lies between two places of the lines. *)
LEMMA ElementsBetween ==
    ASSUME NEW l \in Seq(Line), NEW k \in Nat, NEW m \in 0 .. Len(l), k <= m
    PROVE  /\ SubSeq(l, k + 1, m) \in Seq(Line) /\ Len(SubSeq(l, k + 1, m)) = m - k
           /\ \A i \in 1 .. m - k : SubSeq(l, k + 1, m)[i] = l[i + k]
           /\ Elements(SubSeq(l, k + 1, m)) = {l[i] : i \in k + 1 .. m}
<1>0. Len(l) \in Nat /\ m \in Nat /\ m <= Len(l)
  BY LenProperties
<1> DEFINE s == SubSeq(l, k + 1, m)
<1>1. /\ s \in Seq(Line) /\ Len(s) = m - k
      /\ \A i \in 1 .. m - k : s[i] = l[i + k]
  BY <1>0
<1> HIDE DEF s
<1>2. ASSUME NEW x \in Elements(s)
      PROVE  \E i \in k + 1 .. m : x = l[i]
  <2>1. PICK i \in 1 .. m - k : x = l[i + k]
    BY <1>1 DEF Elements
  <2>2. i + k \in k + 1 .. m
    BY <1>0
  <2>3. QED  BY <2>1, <2>2
<1>3. ASSUME NEW i \in k + 1 .. m
      PROVE  l[i] \in Elements(s)
  <2>1. i - k \in 1 .. m - k /\ (i - k) + k = i
    BY <1>0
  <2>2. s[i - k] = l[i]
    BY <2>1, <1>1
  <2>3. QED  BY <2>1, <2>2, <1>1 DEF Elements
<1>4. QED  BY <1>1, <1>2, <1>3 DEF s

(* What the active file holds. *)
LEMMA ActiveElements ==
    ASSUME TypeOK
    PROVE  InActive = {lines[i] : i \in LastEnd + 1 .. Len(lines)} \cup Elements(TailEvents)
<1>1. ActiveLines \in Seq(Line) /\ TailEvents \in Seq(Line) /\ LastEnd \in 0 .. Len(lines)
  BY Parts
<1>2. InActive = Elements(ActiveLines) \cup Elements(TailEvents)
  BY <1>1, ElementsOfConcat DEF InActive
<1>3. Elements(ActiveLines) = {lines[i] : i \in LastEnd + 1 .. Len(lines)}
  <2>1. /\ lines \in Seq(Line) /\ LastEnd \in Nat
        /\ Len(lines) \in 0 .. Len(lines) /\ LastEnd <= Len(lines)
    BY Parts DEF TypeOK
  <2>2. QED  BY <2>1, ElementsBetween DEF ActiveLines
<1>4. QED  BY <1>2, <1>3

(* Unless a rotation makes another file the active one, all that comes to   *)
(* it is the event of an append that has not returned.                      *)
LEMMA ActiveGrows ==
    ASSUME TypeOK, CallsAreApart, NEW w \in Thread, WriteSome(w) \/ WriteAll(w)
    PROVE  InActive' \cap acked \subseteq InActive
<1> DEFINE e == calls[w].event
<1>0. /\ e \in Event \ acked /\ Gaps \cap acked = {} /\ acked \subseteq Event
      /\ lines \in Seq(Line) /\ Len(lines) \in Nat /\ LastEnd \in 0 .. Len(lines)
      /\ TailEvents \in Seq(Line) /\ ActiveLines \in Seq(Line)
  <2>1. Busy(w)
    BY CallShape DEF WriteSome, WriteAll, TypeOK
  <2>2. QED
    BY <2>1, Parts, EventStoreAssumption DEF CallsAreApart, TypeOK, Gaps, Junk
<1> HIDE DEF e
<1>1. CASE WriteSome(w)
  <2>1. lines' = lines /\ ends' = ends
    BY <1>1 DEF WriteSome
  <2>2. TailEvents' = << >> \/ TailEvents' = <<e>>
    BY <1>1 DEF WriteSome, TailEvents, Spoilt, e
  <2>3. ActiveLines' = ActiveLines
    BY <2>1 DEF ActiveLines, LastEnd, End
  <2>4. TailEvents' \in Seq(Line) /\ Elements(TailEvents') \subseteq {e}
    <3>1. e \in Line
      BY <1>0 DEF Line
    <3>2. CASE TailEvents' = << >>
      BY <3>2 DEF Elements
    <3>3. CASE TailEvents' = <<e>>
      BY <3>1, <3>3 DEF Elements
    <3>4. QED  BY <2>2, <3>2, <3>3
  <2>5. InActive' = Elements(ActiveLines) \cup Elements(TailEvents')
    BY <2>3, <2>4, <1>0, ElementsOfConcat DEF InActive
  <2>6. Elements(ActiveLines) \subseteq InActive
    BY <1>0, ElementsOfConcat DEF InActive
  <2>7. QED  BY <2>4, <2>5, <2>6, <1>0
<1>2. CASE WriteAll(w)
  <2> DEFINE new == IF tail.event = e THEN e ELSE IF tail.text = "bad" THEN Garbled ELSE Junk
  <2>1. /\ lines' = Append(lines, new) /\ ends' = ends /\ tail' = NoTail
    BY <1>2 DEF WriteAll, e
  <2>2. new \in Line /\ new \notin acked
    BY <1>0 DEF Line, Gaps
  <2> HIDE DEF new
  <2>3. /\ lines' \in Seq(Line) /\ Len(lines') = Len(lines) + 1
        /\ \A i \in 1 .. Len(lines) : lines'[i] = lines[i]
        /\ lines'[Len(lines) + 1] = new
    BY <2>1, <2>2, <1>0, AppendProperties
  <2>4. LastEnd' = LastEnd /\ LastEnd \in 0 .. Len(lines')
    BY <2>1, <2>3, <1>0 DEF LastEnd, End
  <2>5. Elements(ActiveLines') = {lines'[i] : i \in LastEnd + 1 .. Len(lines')}
        /\ ActiveLines' \in Seq(Line)
    <3>1. Len(lines') \in 0 .. Len(lines') /\ LastEnd \in Nat /\ LastEnd <= Len(lines')
      BY <2>3, <2>4, <1>0
    <3>2. ActiveLines' = SubSeq(lines', LastEnd + 1, Len(lines'))
      BY <2>4 DEF ActiveLines
    <3>3. QED  BY <3>1, <3>2, <2>3, ElementsBetween
  <2>6. \A i \in LastEnd + 1 .. Len(lines') :
           lines'[i] = new \/ (i \in LastEnd + 1 .. Len(lines) /\ lines'[i] = lines[i])
    <3>1. TAKE i \in LastEnd + 1 .. Len(lines')
    <3>2. i = Len(lines) + 1 \/ (i \in LastEnd + 1 .. Len(lines) /\ i \in 1 .. Len(lines))
      BY <2>3, <1>0
    <3>3. QED  BY <3>2, <2>3
  <2>7. Elements(ActiveLines') \subseteq {lines[i] : i \in LastEnd + 1 .. Len(lines)} \cup {new}
    BY <2>5, <2>6
  <2>8. InActive' = Elements(ActiveLines')
    <3>1. TailEvents' = << >>
      BY <2>1 DEF TailEvents, NoTail
    <3>2. ActiveLines' \o << >> = ActiveLines'
      BY <2>5, ConcatEmptySeq
    <3>3. QED  BY <3>1, <3>2 DEF InActive
  <2>9. QED  BY <2>2, <2>7, <2>8, ActiveElements
<1>3. QED  BY <1>1, <1>2

(* Every step is fair to the reads under way. *)
LEMMA ReadsStayFair ==
    ASSUME TypeOK, CallsAreApart, ReadsAreFair, [Next]_vars
    PROVE  ReadsAreFair'
<1>0. /\ reads \in [Reader -> ReadType] /\ acked \subseteq Event
      /\ ends \in Seq(Nat) /\ Len(ends) \in Nat
  BY LenProperties DEF TypeOK
<1>1. ASSUME UNCHANGED reads, acked \subseteq acked', Len(ends) <= Len(ends'),
             Len(ends') \in Nat, InActive' \cap acked \subseteq InActive
      PROVE  ReadsAreFair'
  <2>1. SUFFICES ASSUME NEW r \in Reader
                 PROVE  /\ reads[r].at \in {"listed", "looked"} =>
                              reads[r].before \subseteq acked' /\ reads[r].files <= Len(ends')
                        /\ reads[r].at = "looked" /\ ~reads[r].active =>
                              reads[r].before \cap InActive' = {}
    BY <1>1 DEF ReadsAreFair
  <2>2. CASE reads[r].at \notin {"listed", "looked"}
    BY <2>2
  <2>3. CASE reads[r].at \in {"listed", "looked"}
    <3>1. /\ reads[r].before \subseteq acked /\ reads[r].files <= Len(ends)
          /\ reads[r].files \in Nat
      BY <2>3, <1>0 DEF ReadsAreFair, ReadType, IdleRead
    <3>2. reads[r].before \subseteq acked' /\ reads[r].files <= Len(ends')
      BY <3>1, <1>0, <1>1
    <3>3. ASSUME reads[r].at = "looked", ~reads[r].active
          PROVE  reads[r].before \cap InActive' = {}
      <4>1. reads[r].before \cap InActive = {}
        BY <3>3 DEF ReadsAreFair
      <4>2. QED  BY <4>1, <3>1, <1>1
    <3>4. QED  BY <3>2, <3>3
  <2>4. QED  BY <2>2, <2>3
<1>2. ASSUME UNCHANGED <<files, reads>>, acked \subseteq acked'
      PROVE  ReadsAreFair'
  <2>1. InActive' = InActive /\ ends' = ends
    BY <1>2 DEF files, InActive, Elements, ActiveLines, LastEnd, End, TailEvents
  <2>2. QED  BY <2>1, <1>0, <1>1, <1>2
<1>3. ASSUME NEW w \in Thread,
             Call(w) \/ Acquire(w) \/ AcquireFails(w) \/ WriteFails(w) \/ SyncFails(w)
      PROVE  ReadsAreFair'
  BY <1>2, <1>3 DEF Call, Acquire, AcquireFails, WriteFails, SyncFails
<1>4. ASSUME NEW s \in Store, Crash(s)
      PROVE  ReadsAreFair'
  BY <1>2, <1>4 DEF Crash
<1>5. ASSUME NEW w \in Thread, WriteSome(w) \/ WriteAll(w)
      PROVE  ReadsAreFair'
  <2>1. UNCHANGED <<reads, acked, ends>>
    BY <1>5 DEF WriteSome, WriteAll
  <2>2. QED  BY <2>1, <1>0, <1>1, <1>5, ActiveGrows
<1>6. ASSUME NEW w \in Thread, Finish(w)
      PROVE  ReadsAreFair'
  <2>1. /\ UNCHANGED <<reads, lines, tail>> /\ acked \subseteq acked'
        /\ ends' = ends \/ ends' = Append(ends, Len(lines))
    BY <1>6 DEF Finish
  <2>2. CASE ends' = ends
    BY <2>1, <2>2, <1>2 DEF files
  <2>3. CASE ends' = Append(ends, Len(lines))
    <3>1. Len(lines) \in Nat /\ lines \in Seq(Line) /\ TailEvents \in Seq(Line)
      BY Parts DEF TypeOK
    <3>2. Len(ends') = Len(ends) + 1 /\ ends'[Len(ends) + 1] = Len(lines)
      BY <2>3, <3>1, <1>0, AppendProperties
    <3>3. Len(ends') \in Nat /\ Len(ends) <= Len(ends') /\ Len(ends') # 0
      BY <3>2, <1>0
    <3>4. LastEnd' = Len(lines)
      BY <3>2, <3>3 DEF LastEnd, End
    <3>5. ActiveLines' = << >>
      BY <3>1, <3>4, <2>1 DEF ActiveLines
    <3>6. TailEvents' = TailEvents
      BY <2>1 DEF TailEvents
    <3>7. InActive' = Elements(TailEvents)
      BY <3>1, <3>5, <3>6, ConcatEmptySeq DEF InActive
    <3>8. InActive' \subseteq InActive
      BY <3>7, ActiveElements
    <3>9. QED  BY <3>3, <3>8, <2>1, <1>1
  <2>4. QED  BY <2>1, <2>2, <2>3
<1>7. ASSUME NEW r \in Reader, ListShards(r) \/ LookForActive(r) \/ ReadFiles(r) \/ Return(r)
      PROVE  ReadsAreFair'
  <2>1. InActive' = InActive /\ ends' = ends /\ acked' = acked
    <3>1. UNCHANGED <<lines, ends, tail, acked>>
      BY <1>7 DEF ListShards, LookForActive, ReadFiles, Return, files
    <3>2. QED  BY <3>1 DEF InActive, Elements, ActiveLines, LastEnd, End, TailEvents
  <2>2. \A q \in Reader \ {r} : reads'[q] = reads[q]
    BY <1>0, <1>7 DEF ListShards, LookForActive, ReadFiles, Return
  <2>3. /\ reads'[r].at \in {"listed", "looked"} =>
              reads'[r].before \subseteq acked /\ reads'[r].files <= Len(ends)
        /\ reads'[r].at = "looked" /\ ~reads'[r].active => InActive = {}
    <3>1. CASE ListShards(r)
      BY <3>1, <1>0 DEF ListShards
    <3>2. CASE LookForActive(r)
      <4>1. /\ reads'[r].at = "looked" /\ reads'[r].active = ActiveExists
            /\ reads'[r].before = reads[r].before /\ reads'[r].files = reads[r].files
        BY <3>2, <1>0 DEF LookForActive
      <4>2. reads[r].before \subseteq acked /\ reads[r].files <= Len(ends)
        BY <3>2 DEF LookForActive, ReadsAreFair
      <4>3. ~ActiveExists => InActive = {}
        <5>1. HAVE ~ActiveExists
        <5>2. tail = NoTail /\ ~(Len(lines) > LastEnd)
          BY <5>1 DEF ActiveExists
        <5>3. Elements(TailEvents) = {}
          BY <5>2, VisibleElements, EventStoreAssumption DEF NoTail
        <5>4. LastEnd \in 0 .. Len(lines) /\ Len(lines) \in Nat
          BY Parts
        <5>5. {lines[i] : i \in LastEnd + 1 .. Len(lines)} = {}
          BY <5>2, <5>4
        <5>6. QED  BY <5>3, <5>5, ActiveElements
      <4>4. QED  BY <4>1, <4>2, <4>3
    <3>3. CASE ReadFiles(r) \/ Return(r)
      <4>1. PICK c : reads' = [reads EXCEPT ![r] = c] /\ c.at \in {"idle", "done"}
        <5>1. CASE Return(r)
          <6>1. reads' = [reads EXCEPT ![r] = IdleRead] /\ IdleRead.at \in {"idle", "done"}
            BY <5>1 DEF Return, IdleRead
          <6>2. QED  BY <6>1
        <5>2. CASE ReadFiles(r)
          <6> DEFINE found == ShardEvents(reads[r].files)
                         \o IF reads[r].active THEN ActiveLines \o TailEvents ELSE << >>
                     raises == \/ Garbled \in Elements(found)
                               \/ reads[r].active
                                     /\ ~(ActiveExists /\ Decodable(tail.text))
                     new == [at |-> "done", events |-> found,
                             passed |-> Elements(SubSeq(lines, End(reads[r].files) + 1, LastEnd)),
                             due |-> reads[r].before \cap Elements(Visible)]
                     c == IF raises THEN IdleRead ELSE new
          <6>1. reads' = [reads EXCEPT ![r] = c]
            BY <5>2 DEF ReadFiles
          <6>2. new.at = "done"
            OBVIOUS
          <6> HIDE DEF new, raises
          <6>3. c.at \in {"idle", "done"}
            BY <6>2 DEF IdleRead
          <6> HIDE DEF c
          <6>4. QED  BY <6>1, <6>3
        <5>3. QED  BY <3>3, <5>1, <5>2
      <4>2. QED  BY <4>1, <1>0
    <3>4. QED  BY <1>7, <3>1, <3>2, <3>3
  <2>4. QED  BY <2>1, <2>2, <2>3 DEF ReadsAreFair
<1>8. QED
  BY <1>2, <1>3, <1>4, <1>5, <1>6, <1>7 DEF Next, vars, files

(* Where the lines are in the log, those of the active file and the others. *)
LEMMA Places ==
    ASSUME TypeOK
    PROVE  /\ Len(Visible) = Len(lines) + Len(TailEvents) /\ Len(TailEvents) \in Nat
           /\ \A i \in 1 .. Len(lines) : i \in 1 .. Len(Visible) /\ Visible[i] = lines[i]
           /\ \A i \in 1 .. Len(TailEvents) : Visible[i + Len(lines)] = TailEvents[i]
           /\ Len(ActiveLines \o TailEvents) = Len(Visible) - LastEnd
           /\ \A i \in 1 .. Len(Visible) - LastEnd :
                 (ActiveLines \o TailEvents)[i] = Visible[i + LastEnd]
<1>1. /\ lines \in Seq(Line) /\ TailEvents \in Seq(Line) /\ ActiveLines \in Seq(Line)
      /\ Len(lines) \in Nat /\ Len(TailEvents) \in Nat /\ LastEnd \in 0 .. Len(lines)
      /\ Len(ActiveLines) = Len(lines) - LastEnd
      /\ \A i \in 1 .. Len(ActiveLines) : ActiveLines[i] = lines[i + LastEnd]
  BY Parts, LenProperties DEF TypeOK
<1> DEFINE active == ActiveLines \o TailEvents
<1>2. /\ Len(Visible) = Len(lines) + Len(TailEvents)
      /\ \A i \in 1 .. Len(lines) + Len(TailEvents) :
            Visible[i] = IF i <= Len(lines) THEN lines[i] ELSE TailEvents[i - Len(lines)]
  BY <1>1, ConcatProperties DEF Visible
<1>3. /\ Len(active) = Len(ActiveLines) + Len(TailEvents)
      /\ \A i \in 1 .. Len(ActiveLines) + Len(TailEvents) :
            active[i] = IF i <= Len(ActiveLines) THEN ActiveLines[i]
                        ELSE TailEvents[i - Len(ActiveLines)]
  BY <1>1, ConcatProperties
<1> HIDE DEF active
<1>4. \A i \in 1 .. Len(lines) : i \in 1 .. Len(Visible) /\ Visible[i] = lines[i]
  BY <1>1, <1>2
<1>5. ASSUME NEW i \in 1 .. Len(TailEvents)
      PROVE  Visible[i + Len(lines)] = TailEvents[i]
  <2>1. /\ i + Len(lines) \in 1 .. Len(lines) + Len(TailEvents)
        /\ ~(i + Len(lines) <= Len(lines)) /\ (i + Len(lines)) - Len(lines) = i
    BY <1>1
  <2>2. QED  BY <2>1, <1>2
<1>6. Len(active) = Len(Visible) - LastEnd
  BY <1>1, <1>2, <1>3
<1>7. ASSUME NEW i \in 1 .. Len(Visible) - LastEnd
      PROVE  active[i] = Visible[i + LastEnd]
  <2>1. i \in 1 .. Len(ActiveLines) + Len(TailEvents)
    BY <1>1, <1>2
  <2>2. CASE i <= Len(ActiveLines)
    <3>1. i \in 1 .. Len(ActiveLines) /\ i + LastEnd \in 1 .. Len(lines)
      BY <2>1, <2>2, <1>1
    <3>2. active[i] = lines[i + LastEnd]
      BY <3>1, <2>1, <2>2, <1>1, <1>3
    <3>3. QED  BY <3>1, <3>2, <1>4
  <2>3. CASE ~(i <= Len(ActiveLines))
    <3>1. /\ i - Len(ActiveLines) \in 1 .. Len(TailEvents)
          /\ (i - Len(ActiveLines)) + Len(lines) = i + LastEnd
      BY <2>1, <2>3, <1>1
    <3>2. active[i] = TailEvents[i - Len(ActiveLines)]
      BY <2>1, <2>3, <1>3
    <3>3. QED  BY <3>1, <3>2, <1>5
  <2>4. QED  BY <2>2, <2>3
<1>8. QED  BY <1>1, <1>2, <1>4, <1>5, <1>6, <1>7 DEF active

(* Of the events nobody has reason to write twice, none is in the log twice. *)
LEMMA VisibleDistinct ==
    ASSUME TypeOK, LinesAreDistinct
    PROVE  \A i, j \in 1 .. Len(Visible) :
              Visible[i] = Visible[j] /\ Visible[i] \in Sure => i = j
<1>1. /\ Len(lines) \in Nat /\ Len(Visible) = Len(lines) + Len(TailEvents)
      /\ \A i \in 1 .. Len(lines) : Visible[i] = lines[i]
      /\ \A i \in 1 .. Len(TailEvents) : Visible[i + Len(lines)] = TailEvents[i]
  BY Parts, Places
<1>2. CASE TailEvents = << >>
  <2>1. Len(Visible) = Len(lines)
    BY <1>1, <1>2, VisibleElements
  <2>2. QED  BY <2>1, <1>1 DEF LinesAreDistinct
<1>3. CASE TailEvents # << >>
  <2>1. tail.event \in Event /\ TailEvents = <<tail.event>> /\ Len(TailEvents) = 1
    BY <1>3, VisibleElements
  <2>2. Len(Visible) = Len(lines) + 1 /\ Visible[Len(lines) + 1] = tail.event
    <3>1. Visible[1 + Len(lines)] = TailEvents[1]
      BY <1>1, <2>1
    <3>2. QED  BY <3>1, <1>1, <2>1
  <2>3. \A i \in 1 .. Len(lines) : Visible[i] # tail.event \/ tail.event \notin Sure
    BY <1>1 DEF LinesAreDistinct, Elements
  <2>4. \A i \in 1 .. Len(Visible) : i \in 1 .. Len(lines) \/ i = Len(lines) + 1
    BY <2>2, <1>1
  <2>5. SUFFICES ASSUME NEW i \in 1 .. Len(Visible), NEW j \in 1 .. Len(Visible),
                        Visible[i] = Visible[j], Visible[i] \in Sure
                 PROVE  i = j
    OBVIOUS
  <2>6. CASE i \in 1 .. Len(lines) /\ j \in 1 .. Len(lines)
    BY <1>1, <2>5, <2>6 DEF LinesAreDistinct
  <2>7. QED  BY <2>2, <2>3, <2>4, <2>5, <2>6
<1>4. QED  BY <1>2, <1>3

(* A read finds what is in the files it has listed and in the active one;   *)
(* between the two lie the lines that rotations have passed by it.          *)
LEMMA ReadsStayComplete ==
    ASSUME TypeOK, LinesAreDistinct, ReadsAreFair, ReadsAreComplete, [Next]_vars
    PROVE  ReadsAreComplete'
<1>0. reads \in [Reader -> ReadType] /\ unsure \subseteq unsure'
  BY CallsTyped DEF TypeOK
<1>1. CASE UNCHANGED reads
  BY <1>0, <1>1 DEF ReadsAreComplete
<1>2. ASSUME NEW r \in Reader, NEW rd, reads' = [reads EXCEPT ![r] = rd],
             rd.at = "done" =>
                /\ rd.due \subseteq Elements(rd.events) \cup rd.passed
                /\ \A i, j \in 1 .. Len(rd.events) :
                      rd.events[i] = rd.events[j] /\ rd.events[i] \in Sure => i = j
      PROVE  ReadsAreComplete'
  <2>1. reads'[r] = rd /\ \A q \in Reader \ {r} : reads'[q] = reads[q]
    BY <1>0, <1>2
  <2>2. Event \ unsure' \subseteq Sure
    BY <1>0 DEF Sure
  <2>3. QED  BY <2>1, <2>2, <1>0, <1>2 DEF ReadsAreComplete, Sure
<1>3. ASSUME NEW r \in Reader, ListShards(r) \/ LookForActive(r) \/ Return(r)
      PROVE  ReadsAreComplete'
  <2>1. /\ \A q \in Reader \ {r} : reads'[q] = reads[q]
        /\ reads'[r].at # "done"
    BY <1>0, <1>3 DEF ListShards, LookForActive, Return, IdleRead
  <2>2. QED  BY <2>1, <1>0 DEF ReadsAreComplete
<1>4. ASSUME NEW r \in Reader, ReadFiles(r)
      PROVE  ReadsAreComplete'
  <2> DEFINE rd == reads[r]
             k == End(rd.files)
             shards == ShardEvents(rd.files)
             active == ActiveLines \o TailEvents
             found == shards \o IF rd.active THEN active ELSE << >>
             passed == Elements(SubSeq(lines, k + 1, LastEnd))
             raises == \/ Garbled \in Elements(found)
                       \/ rd.active /\ ~(ActiveExists /\ Decodable(tail.text))
             new == [at |-> "done", events |-> found, passed |-> passed,
                     due |-> rd.before \cap Elements(Visible)]
  <2>1. /\ reads' = [reads EXCEPT ![r] = IF raises THEN IdleRead ELSE new]
        /\ rd.at = "looked"
        /\ rd \in [at : {"looked"}, files : Nat, before : SUBSET Event, active : BOOLEAN]
    BY <1>0, <1>4 DEF ReadFiles, ReadType, IdleRead
  <2>2. k \in Nat /\ k <= LastEnd /\ LastEnd \in 0 .. Len(lines) /\ Len(lines) \in Nat
    <3>1. /\ rd.files \in Nat /\ rd.files <= Len(ends) /\ Len(ends) \in Nat
          /\ ends \in Seq(Nat) /\ \A i, j \in 1 .. Len(ends) : i <= j => ends[i] <= ends[j]
          /\ LastEnd \in 0 .. Len(lines) /\ Len(lines) \in Nat
      BY <2>1, Parts DEF ReadsAreFair, TypeOK
    <3>2. CASE rd.files = 0
      BY <3>1, <3>2 DEF End
    <3>3. CASE rd.files # 0
      <4>1. rd.files \in 1 .. Len(ends) /\ Len(ends) \in 1 .. Len(ends)
        BY <3>1, <3>3
      <4>2. k = ends[rd.files] /\ LastEnd = ends[Len(ends)]
        BY <4>1, <3>3 DEF End, LastEnd
      <4>3. QED  BY <4>1, <4>2, <3>1
    <3>4. QED  BY <3>2, <3>3
  <2> HIDE DEF k
  <2>3. lines \in Seq(Line) /\ active \in Seq(Line)
    BY Parts, ConcatProperties DEF TypeOK
  <2>4. /\ shards \in Seq(Line) /\ Len(shards) = k
        /\ \A i \in 1 .. k : shards[i] = lines[i]
        /\ Elements(shards) = {lines[i] : i \in 1 .. k}
    <3>1. k \in 0 .. Len(lines) /\ 0 \in Nat /\ 0 <= k
      BY <2>2
    <3>2. /\ SubSeq(lines, 0 + 1, k) \in Seq(Line) /\ Len(SubSeq(lines, 0 + 1, k)) = k - 0
          /\ \A i \in 1 .. k - 0 : SubSeq(lines, 0 + 1, k)[i] = lines[i + 0]
          /\ Elements(SubSeq(lines, 0 + 1, k)) = {lines[i] : i \in 0 + 1 .. k}
      BY <3>1, <2>3, ElementsBetween
    <3>3. shards = SubSeq(lines, 1, k)
      BY DEF ShardEvents, k
    <3>4. 0 + 1 = 1 /\ k - 0 = k
      BY <2>2
    <3>5. \A i \in 1 .. k : i + 0 = i
      BY <2>2
    <3> HIDE DEF shards
    <3>6. QED  BY <3>2, <3>3, <3>4, <3>5
  <2>5. passed = {lines[i] : i \in k + 1 .. LastEnd}
    BY <2>2, <2>3, ElementsBetween
  <2> HIDE DEF shards, active, passed
  <2>6. /\ Elements(found) = Elements(shards) \cup IF rd.active THEN Elements(active) ELSE {}
        /\ Len(found) = k + IF rd.active THEN Len(active) ELSE 0
        /\ \A i \in 1 .. k : found[i] = shards[i]
        /\ rd.active => \A i \in k + 1 .. Len(found) : found[i] = active[i - k]
    <3>1. CASE rd.active
      <4>1. /\ found = shards \o active
            /\ Len(shards \o active) = Len(shards) + Len(active)
            /\ \A i \in 1 .. Len(shards) + Len(active) :
                  (shards \o active)[i] = IF i <= Len(shards) THEN shards[i]
                                          ELSE active[i - Len(shards)]
        BY <3>1, <2>3, <2>4, ConcatProperties
      <4>2. Elements(shards \o active) = Elements(shards) \cup Elements(active)
        BY <2>3, <2>4, ElementsOfConcat
      <4>3. Len(active) \in Nat
        BY <2>3, LenProperties
      <4> HIDE DEF found
      <4>4. QED  BY <4>1, <4>2, <4>3, <3>1, <2>2, <2>4
    <3>2. CASE ~rd.active
      <4>1. found = shards
        BY <3>2, <2>4, ConcatEmptySeq
      <4> HIDE DEF found
      <4>2. QED  BY <4>1, <3>2, <2>2, <2>4
    <3>3. QED  BY <3>1, <3>2
  <2> HIDE DEF found
  <2>7. rd.before \cap Elements(Visible) \subseteq Elements(found) \cup passed
    <3>1. SUFFICES ASSUME NEW x \in rd.before, x \in Elements(Visible)
                   PROVE  x \in Elements(found) \cup passed
      OBVIOUS
    <3>2. InActive = Elements(active)
      BY DEF InActive, active
    <3>3. CASE x \in InActive
      <4>1. rd.active
        BY <2>1, <3>1, <3>3 DEF ReadsAreFair
      <4>2. QED  BY <4>1, <3>2, <3>3, <2>6
    <3>4. CASE x \notin InActive
      <4>1. /\ x \in Elements(lines)
            /\ x \notin {lines[i] : i \in LastEnd + 1 .. Len(lines)}
        BY <3>1, <3>4, VisibleElements, ActiveElements
      <4>2. PICK i \in 1 .. Len(lines) : x = lines[i]
        BY <4>1 DEF Elements
      <4>3. i \in 1 .. k \/ i \in k + 1 .. LastEnd \/ i \in LastEnd + 1 .. Len(lines)
        BY <2>2
      <4>4. QED  BY <4>1, <4>2, <4>3, <2>4, <2>5, <2>6
    <3>5. QED  BY <3>3, <3>4
  <2>8. ASSUME NEW i \in 1 .. Len(found), NEW j \in 1 .. Len(found),
               found[i] = found[j], found[i] \in Sure
        PROVE  i = j
    <3> DEFINE place(n) == IF n <= k THEN n ELSE n - k + LastEnd
    <3>1. ASSUME NEW n \in 1 .. Len(found)
          PROVE  place(n) \in 1 .. Len(Visible) /\ Visible[place(n)] = found[n]
      <4>1. CASE n <= k
        <5>1. n \in 1 .. k /\ n \in 1 .. Len(lines)
          BY <4>1, <2>2
        <5>2. QED  BY <5>1, <4>1, <2>4, <2>6, Places
      <4>2. CASE ~(n <= k)
        <5>1. rd.active
          BY <4>2, <2>2, <2>6
        <5>2. /\ Len(active) = Len(Visible) - LastEnd /\ Len(Visible) \in Nat
              /\ \A m \in 1 .. Len(Visible) - LastEnd : active[m] = Visible[m + LastEnd]
          BY <2>2, Places DEF active
        <5>3. /\ n \in k + 1 .. Len(found) /\ n - k \in 1 .. Len(Visible) - LastEnd
              /\ n - k + LastEnd \in 1 .. Len(Visible)
          BY <5>1, <5>2, <4>2, <2>2, <2>6
        <5>4. QED  BY <5>1, <5>2, <5>3, <4>2, <2>6
      <4>3. QED  BY <4>1, <4>2
    <3>2. place(i) = place(j)
      <4> HIDE DEF place
      <4>1. QED  BY <3>1, <2>8, VisibleDistinct
    <3>3. QED  BY <3>2, <2>2
  <2>9. /\ new.events = found /\ new.passed = passed /\ new.at = "done"
        /\ new.due = rd.before \cap Elements(Visible)
    OBVIOUS
  <2>10. CASE raises
    <3>1. reads' = [reads EXCEPT ![r] = IdleRead]
      BY <2>1, <2>10
    <3>2. QED  BY <3>1, <1>2 DEF IdleRead
  <2>11. CASE ~raises
    <3>1. reads' = [reads EXCEPT ![r] = new]
      BY <2>1, <2>11
    <3> HIDE DEF new
    <3>2. QED  BY <3>1, <2>7, <2>8, <2>9, <1>2
  <2>12. QED  BY <2>10, <2>11
<1>5. ASSUME NEW w \in Thread, \/ Call(w) \/ Acquire(w) \/ AcquireFails(w)
                               \/ WriteSome(w) \/ WriteAll(w)
                               \/ Finish(w) \/ WriteFails(w) \/ SyncFails(w)
      PROVE  UNCHANGED reads
  BY <1>5 DEF Call, Acquire, AcquireFails, WriteSome, WriteAll, Finish, WriteFails, SyncFails
<1>6. ASSUME NEW s \in Store, Crash(s)
      PROVE  UNCHANGED reads
  BY <1>6 DEF Crash
<1>7. QED  BY <1>1, <1>3, <1>4, <1>5, <1>6 DEF Next, vars

-----------------------------------------------------------------------------
(* The theorems *)

LEMMA InvInit ==
    Init => IInv
<1> USE EventStoreAssumption DEF Init
<1>1. SUFFICES ASSUME Init PROVE IInv
  OBVIOUS
<1>2. TypeOK
  BY <1>1 DEF TypeOK, TailType, CallType, ReadType
<1>3. \A w \in Thread : calls[w] = IdleCall /\ ~Busy(w) /\ ~Holding(w) /\ ~Writing(w) /\ ~Written(w)
  BY <1>1 DEF Busy, Holding, Writing, Written, IdleCall
<1>4. CallsAreApart /\ TailIsWriters
  BY <1>3 DEF CallsAreApart, TailIsWriters
<1>5. Elements(lines) = {}
  BY <1>1 DEF Elements
<1>6. LinesAreDistinct
  BY <1>1, <1>5 DEF LinesAreDistinct, NoTail, Sure
<1>7. TornPays /\ GarbledIsPaid
  BY <1>1, <1>5
     DEF TornPays, TakeIsDue, SwallowIsDue, TailEvents, NoTail, SpoiltTail, GarbledIsPaid
<1>8. LossIsPaid
  <2>1. Lost = {}
    BY <1>1, <1>3 DEF Lost, Believed
  <2>2. QED  BY <2>1, <1>1, FS_EmptySet DEF LossIsPaid
<1>9. ReadsAreFair /\ ReadsAreComplete
  BY <1>1 DEF ReadsAreFair, ReadsAreComplete, IdleRead
<1>10. QED  BY <1>2, <1>4, <1>6, <1>7, <1>8, <1>9 DEF IInv

LEMMA InvNext ==
    IInv /\ [Next]_vars => IInv'
<1>1. SUFFICES ASSUME IInv, [Next]_vars PROVE IInv'
  OBVIOUS
<1>2. TypeOK'
  BY <1>1, FilesTyped, CallsTyped, ReadsTyped DEF IInv, TypeOK
<1>3. CallsAreApart' /\ TailIsWriters' /\ LinesAreDistinct'
  BY <1>1, CallsStayApart, TailStaysWriters, LinesStayDistinct DEF IInv
<1>4. TornPays' /\ GarbledIsPaid' /\ LossIsPaid'
  BY <1>1, TornKeepsPaying, GarbledStaysPaid, LossStaysPaid DEF IInv
<1>5. ReadsAreFair' /\ ReadsAreComplete'
  BY <1>1, ReadsStayFair, ReadsStayComplete DEF IInv
<1>6. QED  BY <1>2, <1>3, <1>4, <1>5 DEF IInv

(* The locks exclude, the ids suffice, and every loss has its torn write,   *)
(* whatever the threads, the processes and the readers do and when.         *)
THEOREM LocksAndIdsSuffice == Spec => []IInv
BY InvInit, InvNext, PTL DEF Spec

(* The events whose append returned and that are missing from the log are   *)
(* at most twice as many as the writes that were torn; while none was torn  *)
(* and nobody writes, the files can be read (event_store.py:99,             *)
(* event_store.py:129, event_store.py:162).                                 *)
THEOREM LossBounded == Spec => []LossIsBounded
<1>1. IInv => LossIsBounded
  <2>1. SUFFICES ASSUME IInv PROVE LossIsBounded
    OBVIOUS
  <2>2. /\ IsFiniteSet(Lost) /\ Cardinality(Lost) <= taken + swallowed
        /\ torn \in Nat /\ taken \in Nat /\ swallowed \in Nat /\ acked \subseteq Event
    BY <2>1 DEF IInv, LossIsPaid, TypeOK
  <2>3. taken <= torn /\ swallowed <= torn
    BY <2>1, <2>2 DEF IInv, TornPays
  <2>4. acked \ Elements(Visible) \subseteq Lost
    BY <2>2 DEF Lost, Believed, InLog
  <2>5. /\ IsFiniteSet(acked \ Elements(Visible))
        /\ Cardinality(acked \ Elements(Visible)) <= Cardinality(Lost)
    BY <2>2, <2>4, FS_Subset
  <2>6. Cardinality(Lost) \in Nat /\ Cardinality(acked \ Elements(Visible)) \in Nat
    BY <2>2, <2>5, FS_CardinalityType
  <2>7. \A c, l, k, s, t \in Nat :
           c <= l /\ l <= k + s /\ k <= t /\ s <= t => c <= 2 * t
    OBVIOUS
  <2>8. Cardinality(acked \ Elements(Visible)) <= 2 * torn
    BY <2>2, <2>3, <2>5, <2>6, <2>7
  <2>9. ASSUME torn = 0, Idle
        PROVE  Readable
    <3>1. swallowed = 0 /\ ~SwallowIsDue
      BY <2>1, <2>2, <2>9 DEF IInv, TornPays
    <3>2. Garbled \notin Elements(lines)
      BY <2>1, <3>1 DEF IInv, GarbledIsPaid
    <3>3. tail = NoTail
      BY <2>9, <3>1 DEF SwallowIsDue
    <3>4. QED  BY <3>2, <3>3 DEF Readable, Decodable, NoTail
  <2>10. QED  BY <2>8, <2>9 DEF LossIsBounded
<1>2. QED  BY <1>1, LocksAndIdsSuffice, PTL

(* A read that does not raise returns, once each, every event in the files  *)
(* whose append had returned when it began, except those of files that were *)
(* renamed after it had listed them (event_store.py:156,                    *)
(* event_store.py:159).                                                     *)
THEOREM ReadsComplete == Spec => []ReadsAreComplete
<1>1. IInv => ReadsAreComplete
  BY DEF IInv
<1>2. QED  BY <1>1, LocksAndIdsSuffice, PTL

-----------------------------------------------------------------------------
(* The files implement EventLog *)

(* The log, by what the unfinished line holds. *)
LEMMA VisibleIs ==
    ASSUME TypeOK
    PROVE  /\ TailEvents = << >> => Visible = lines
           /\ TailEvents # << >> => /\ Visible = Append(lines, tail.event)
                                    /\ Visible # << >>
                                    /\ SubSeq(Visible, 1, Len(Visible) - 1) = lines
<1>1. lines \in Seq(Line) /\ Len(lines) \in Nat
  BY LenProperties DEF TypeOK
<1>2. CASE TailEvents = << >>
  BY <1>1, <1>2, ConcatEmptySeq DEF Visible
<1>3. CASE TailEvents # << >>
  <2>1. tail.event \in Line /\ TailEvents = <<tail.event>>
    BY <1>3, VisibleElements DEF Line
  <2>2. Visible = Append(lines, tail.event)
    BY <1>1, <2>1, AppendIsConcat DEF Visible
  <2>3. /\ Visible \in Seq(Line) /\ Len(Visible) = Len(lines) + 1
        /\ \A i \in 1 .. Len(lines) : Visible[i] = lines[i]
    BY <1>1, <2>1, <2>2, AppendProperties
  <2>4. Visible # << >>
    BY <2>3, <1>1, EmptySeq
  <2>5. /\ SubSeq(Visible, 1, Len(lines)) \in Seq(Line)
        /\ Len(SubSeq(Visible, 1, Len(lines))) = Len(lines)
        /\ \A i \in 1 .. Len(lines) : SubSeq(Visible, 1, Len(lines))[i] = lines[i]
    BY <2>3, <1>1
  <2>6. SubSeq(Visible, 1, Len(lines)) = lines
    BY <2>5, <1>1, SeqEqual
  <2>7. Len(Visible) - 1 = Len(lines)
    BY <2>3, <1>1
  <2>8. QED  BY <1>3, <2>2, <2>4, <2>6, <2>7
<1>4. QED  BY <1>2, <1>3

(* A writer's event is not in a file, unless there is doubt of that.        *)
LEMMA WriterBringsNew ==
    ASSUME TypeOK, CallsAreApart, LinesAreDistinct,
           NEW w \in Thread, calls[w].at \in {"holding", "writing"}
    PROVE  /\ calls[w].event \in Event
           /\ calls[w].event \in (Event \ Elements(lines)) \cup unsure
BY CallShape DEF TypeOK, LinesAreDistinct, Sure

(* A line that reaches its file in part is nothing to EventLog, an event it *)
(* gains, or one it loses to a torn write.                                  *)
LEMMA WriteSomeRefines ==
    ASSUME IInv, NEW w \in Thread, WriteSome(w)
    PROVE  Log!Next \/ UNCHANGED Log!logVars
<1> DEFINE e == calls[w].event
<1>0. /\ TypeOK /\ CallsAreApart /\ LinesAreDistinct /\ TornPays
      /\ e \in Event /\ e \in (Event \ Elements(lines)) \cup unsure
      /\ lines \in Seq(Line) /\ taken \in Nat /\ torn \in Nat
      /\ lines' = lines /\ UNCHANGED <<unsure, torn, swallowed>>
      /\ taken' = taken + Len(TailEvents)
  BY WriterBringsNew DEF IInv, TypeOK, WriteSome
<1>1. CASE tail = NoTail
  <2>1. TailEvents = << >> /\ taken' = taken
    BY <1>0, <1>1, VisibleElements, EventStoreAssumption DEF NoTail
  <2>2. PICK text \in {"whole", "part", "cut"} : tail' = [event |-> e, text |-> text]
    BY <1>1 DEF WriteSome
  <2>3. CASE text # "whole"
    <3>1. TailEvents' = << >>
      BY <2>2, <2>3 DEF TailEvents
    <3>2. Visible' = lines /\ Visible = lines
      BY <3>1, <2>1, <1>0, VisibleIs, ConcatEmptySeq DEF Visible
    <3>3. QED  BY <3>2, <2>1, <1>0 DEF Log!logVars
  <2>4. CASE text = "whole"
    <3>1. TailEvents' = <<e>>
      BY <2>2, <2>4 DEF TailEvents
    <3>2. Visible' = Append(lines, e) /\ Visible = lines
      <4>1. e \in Line
        BY <1>0 DEF Line
      <4>2. QED  BY <4>1, <3>1, <2>1, <1>0, VisibleIs, AppendIsConcat DEF Visible
    <3>3. e \in (Event \ Log!Logged) \cup unsure
      BY <3>2, <1>0 DEF Log!Logged, Elements
    <3>4. Log!Put
      BY <3>2, <3>3, <2>1, <1>0 DEF Log!Put
    <3>5. QED  BY <3>4 DEF Log!Next
  <2>5. QED  BY <2>3, <2>4
<1>2. CASE tail # NoTail
  <2>1. PICK text \in {"part", "cut", "bad"} : tail' = Spoilt(text)
    BY <1>2 DEF WriteSome
  <2>2. Visible' = lines
    <3>1. TailEvents' = << >>
      BY <2>1 DEF TailEvents, Spoilt
    <3>2. QED  BY <3>1, <1>0, ConcatEmptySeq DEF Visible
  <2>3. CASE TailEvents = << >>
    <3>1. taken' = taken /\ Visible = lines
      BY <2>3, <1>0, VisibleElements, VisibleIs
    <3>2. QED  BY <3>1, <2>2, <1>0 DEF Log!logVars
  <2>4. CASE TailEvents # << >>
    <3>1. taken' = taken + 1
      BY <2>4, <1>0, VisibleElements
    <3>2. taken < torn
      <4>1. TakeIsDue
        BY <2>4, <1>0, Writers DEF TakeIsDue
      <4>2. taken + 1 <= torn
        BY <4>1, <1>0 DEF TornPays
      <4>3. QED  BY <4>2, <1>0
    <3>3. Visible # << >> /\ Visible' = SubSeq(Visible, 1, Len(Visible) - 1)
      BY <2>2, <2>4, <1>0, VisibleIs
    <3>4. Log!TakeBack
      BY <3>1, <3>2, <3>3, <1>0 DEF Log!TakeBack
    <3>5. QED  BY <3>4 DEF Log!Next
  <2>5. QED  BY <2>3, <2>4
<1>3. QED  BY <1>1, <1>2

(* A newline ends the writer's own line, which may have been visible, or    *)
(* one that had no end before and swallows the event.                       *)
LEMMA WriteAllRefines ==
    ASSUME IInv, NEW w \in Thread, WriteAll(w)
    PROVE  Log!Next \/ UNCHANGED Log!logVars
<1> DEFINE e == calls[w].event
           gap == IF tail.text = "bad" THEN Garbled ELSE Junk
<1>0. /\ TypeOK /\ CallsAreApart /\ LinesAreDistinct /\ TailIsWriters /\ TornPays
      /\ e \in Event /\ e \in (Event \ Elements(lines)) \cup unsure
      /\ lines \in Seq(Line) /\ swallowed \in Nat /\ torn \in Nat
      /\ tail' = NoTail /\ UNCHANGED <<unsure, torn, taken>>
      /\ lines' = Append(lines, IF tail.event = e THEN e ELSE gap)
      /\ swallowed' = IF tail.event = e THEN swallowed ELSE swallowed + 1
      /\ gap \in Gaps
  BY WriterBringsNew DEF IInv, TypeOK, WriteAll, Gaps
<1> HIDE DEF gap
<1>1. Visible' = lines'
  <2>1. TailEvents' = << >>
    BY <1>0 DEF TailEvents, NoTail
  <2>2. (IF tail.event = e THEN e ELSE gap) \in Line
    BY <1>0 DEF Line
  <2>3. lines' \in Seq(Line)
    BY <2>2, <1>0, AppendProperties
  <2>4. QED  BY <2>1, <2>3, ConcatEmptySeq DEF Visible
<1>2. CASE tail.event = e
  <2>1. lines' = Append(lines, e) /\ swallowed' = swallowed
    BY <1>0, <1>2
  <2>2. CASE TailEvents # << >>
    <3>1. Visible = Append(lines, e)
      BY <1>0, <1>2, <2>2, VisibleIs
    <3>2. QED  BY <3>1, <2>1, <1>0, <1>1 DEF Log!logVars
  <2>3. CASE TailEvents = << >>
    <3>1. Visible = lines
      BY <1>0, <2>3, VisibleIs
    <3>2. e \in (Event \ Log!Logged) \cup unsure
      BY <3>1, <1>0 DEF Log!Logged, Elements
    <3>3. Log!Put
      BY <3>1, <3>2, <2>1, <1>0, <1>1 DEF Log!Put
    <3>4. QED  BY <3>3 DEF Log!Next
  <2>4. QED  BY <2>2, <2>3
<1>3. CASE tail.event # e
  <2>1. tail \in SpoiltTail
    BY <1>0, <1>3 DEF TailIsWriters, Writing, WriteAll
  <2>2. TailEvents = << >>
    BY <2>1 DEF TailEvents, SpoiltTail
  <2>3. swallowed < torn
    <3>1. SwallowIsDue
      BY <2>1 DEF SwallowIsDue
    <3>2. swallowed + 1 <= torn
      BY <3>1, <1>0 DEF TornPays
    <3>3. QED  BY <3>2, <1>0
  <2>4. Visible' = Append(Visible, gap) /\ swallowed' = swallowed + 1
    BY <2>2, <1>0, <1>1, <1>3, VisibleIs
  <2>5. Log!Swallow
    BY <2>3, <2>4, <1>0 DEF Log!Swallow, Gaps
  <2>6. QED  BY <2>5 DEF Log!Next
<1>4. QED  BY <1>2, <1>3

(* The files of any number of processes, threads and readers implement an   *)
(* append-only log, of distinct events but for those whose append failed    *)
(* only after their line was in the file or whose id is not loaded          *)
(* (event_store.py:25, event_store.py:125, event_store.py:132,              *)
(* event_store.py:172).                                                     *)
THEOREM FilesImplementLog == Spec => ImplementsEventLog
<1>1. Init => Log!Init
  <2>1. SUFFICES ASSUME Init
                 PROVE  /\ Visible = << >> /\ unsure \subseteq Event
                        /\ torn = 0 /\ taken = 0 /\ swallowed = 0
    BY DEF Log!Init
  <2>2. TailEvents = << >>
    BY <2>1 DEF Init, TailEvents, NoTail
  <2>3. QED  BY <2>1, <2>2, EventStoreAssumption DEF Init, Visible
<1>2. IInv /\ [Next]_vars => [Log!Next]_(Log!logVars)
  <2>1. SUFFICES ASSUME IInv, [Next]_vars
                 PROVE  Log!Next \/ UNCHANGED Log!logVars
    OBVIOUS
  <2>2. ASSUME UNCHANGED <<lines, tail>>
        PROVE  Visible' = Visible
    BY <2>2 DEF Visible, TailEvents
  <2>3. CASE UNCHANGED <<lines, tail, unsure, costs>>
    BY <2>2, <2>3 DEF costs, Log!logVars
  <2>4. ASSUME UNCHANGED <<lines, tail, unsure, taken, swallowed>>, torn' = torn + 1
        PROVE  Log!Next
    BY <2>2, <2>4 DEF Log!Next, Log!Tear
  <2>5. ASSUME NEW w \in Thread, Call(w) \/ Acquire(w) \/ AcquireFails(w) \/ Finish(w)
        PROVE  UNCHANGED <<lines, tail, unsure, costs>>
    BY <2>5 DEF Call, Acquire, AcquireFails, Finish, files
  <2>6. ASSUME NEW w \in Thread, WriteFails(w)
        PROVE  Log!Next \/ UNCHANGED Log!logVars
    <3>1. UNCHANGED <<lines, tail, unsure, taken, swallowed>>
      BY <2>6 DEF WriteFails, files
    <3>2. torn' = torn \/ torn' = torn + 1
      BY <2>6 DEF WriteFails
    <3>3. QED  BY <3>1, <3>2, <2>3, <2>4 DEF costs
  <2>7. ASSUME NEW w \in Thread, SyncFails(w)
        PROVE  Log!Next
    <3>1. /\ UNCHANGED <<lines, tail, costs>>
          /\ calls[w].event \in Event /\ unsure' = unsure \cup {calls[w].event}
      BY <2>1, <2>7, CallShape DEF SyncFails, files, IInv, TypeOK
    <3>2. QED  BY <3>1, <2>2 DEF costs, Log!Next, Log!Doubt
  <2>8. ASSUME NEW s \in Store, Crash(s)
        PROVE  Log!Next \/ UNCHANGED Log!logVars
    <3>1. UNCHANGED <<lines, tail, unsure, taken, swallowed>>
      BY <2>8 DEF Crash, files
    <3>2. torn' = torn \/ torn' = torn + 1
      BY <2>1, <2>8, CrashTears DEF IInv
    <3>3. QED  BY <3>1, <3>2, <2>3, <2>4 DEF costs
  <2>9. ASSUME NEW r \in Reader, ListShards(r) \/ LookForActive(r) \/ ReadFiles(r) \/ Return(r)
        PROVE  UNCHANGED <<lines, tail, unsure, costs>>
    BY <2>9 DEF ListShards, LookForActive, ReadFiles, Return, files
  <2>10. CASE UNCHANGED vars
    BY <2>3, <2>10 DEF vars, files
  <2>11. QED
    BY <2>1, <2>3, <2>5, <2>6, <2>7, <2>8, <2>9, <2>10, WriteSomeRefines, WriteAllRefines
       DEF Next
<1>3. QED  BY <1>1, <1>2, LocksAndIdsSuffice, PTL DEF Spec, ImplementsEventLog, Log!Spec
===============================================================================
