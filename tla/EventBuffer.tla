------------------------------ MODULE EventBuffer ------------------------------
(***************************************************************************)
(* EventBuffer<T>: the script thread schedules events, the process thread  *)
(* sorts them and hands out those that fall into the current period, as    *)
(* MidiOutputPort::doProcess asks for them.  Events that have been used,   *)
(* dropped or flushed go through the ObjectCollector back to the script    *)
(* thread, which deletes them.                                             *)
(*                                                                         *)
(* A position is a number: 0 for bar zero, which only osc::Output::send    *)
(* uses, and otherwise the frame on which the position falls, so that the  *)
(* frame offset of an event is its distance from the current frame.  The   *)
(* sorted list is a sequence here, and the collector a set.                *)
(***************************************************************************)
EXTENDS Integers, Sequences, FiniteSets

CONSTANTS
    Events,         \* addresses at which an event may be allocated
    QueueSize,      \* bound of eventQueue (2048 in the code)
    UpdateMax,      \* UPDATE_MAX_EVENTS (32)
    Grace,          \* frames an event may be late (256)
    Period,         \* nframes
    MaxFrame        \* bound of positions and of the transport

ASSUME SizeAssumption == QueueSize \in Nat \ {0} /\ UpdateMax \in Nat \ {0}
ASSUME TimeAssumption == Grace \in Nat /\ Period \in Nat \ {0} /\ MaxFrame \in Nat

VARIABLES
    eventQueue, sortedEvents,
    at,             \* the position of every event
    heap,           \* events allocated and not deleted
    objectQueue,    \* events in the collector
    ppc,            \* where the process thread is
    counter,        \* events taken by this update()
    frame,          \* the transport position of the current or next period
    rolling,
    lastWritten,    \* offset of the last event written in this period, or -1
    agenda,         \* pairs of events, scheduled one before the other, and not deleted
    ontime,         \* those scheduled early enough for the next period
    backlog,        \* the last update() left events in eventQueue
    overloaded,     \* some period ended with such a backlog
    tookMore,       \* this period fetched an event after it had written one
    missed,         \* an event that was scheduled on time has been dropped
    disordered      \* offsets written in this period have decreased

bufferVars == <<eventQueue, sortedEvents, at, heap, objectQueue>>
threadVars == <<ppc, counter, frame, rolling, lastWritten>>
historyVars == <<agenda, ontime, backlog, overloaded, tookMore, missed, disordered>>
vars == <<bufferVars, threadVars, historyVars>>

Positions == 0..MaxFrame
Elements(s) == {s[i] : i \in DOMAIN s}

Init ==
    /\ eventQueue = <<>>
    /\ sortedEvents = <<>>
    /\ at = [e \in Events |-> 0]
    /\ heap = {}
    /\ objectQueue = {}
    /\ ppc = "idle"
    /\ counter = 0
    /\ frame = 1
    /\ rolling = TRUE
    /\ lastWritten = -1
    /\ agenda = {}
    /\ ontime = {}
    /\ backlog = FALSE
    /\ overloaded = FALSE
    /\ tookMore = FALSE
    /\ missed = FALSE
    /\ disordered = FALSE

--------------------------------------------------------------------------------
(***************************************************************************)
(* Script thread.                                                          *)
(***************************************************************************)
\* The first frame that the next update() to come is in time for.
NextChance == (IF ppc = "idle" THEN frame ELSE frame + Period) - Grace

\* A new event is scheduled; addEvent spins while the queue is full.
AddEvent(e, p) ==
    /\ e \notin heap
    /\ Len(eventQueue) < QueueSize
    /\ at' = [at EXCEPT ![e] = p]
    /\ heap' = heap \cup {e}
    /\ eventQueue' = Append(eventQueue, e)
    /\ agenda' = agenda \cup {<<x, e>> : x \in heap}
    /\ ontime' = IF p >= NextChance THEN ontime \cup {e} ELSE ontime \ {e}
    /\ UNCHANGED <<sortedEvents, objectQueue, threadVars, backlog, overloaded,
                   tookMore, missed, disordered>>

\* ObjectCollector::free.
Free(e) ==
    /\ e \in objectQueue
    /\ objectQueue' = objectQueue \ {e}
    /\ heap' = heap \ {e}
    /\ at' = [at EXCEPT ![e] = 0]
    /\ agenda' = {pair \in agenda : e \notin {pair[1], pair[2]}}
    /\ UNCHANGED <<eventQueue, sortedEvents, threadVars, ontime, backlog, overloaded,
                   tookMore, missed, disordered>>

--------------------------------------------------------------------------------
(***************************************************************************)
(* Process thread: one period of the owner, which calls getNextEvent until *)
(* there is no event left.  Every call starts with update().               *)
(***************************************************************************)
\* How many elements the walk of EventList::insert passes over.
Passed(s, e) ==
    CHOOSE n \in 1..(Len(s) - 1) :
        /\ at[s[n + 1]] > at[e]
        /\ \A j \in 1..(n - 1) : at[s[j + 1]] <= at[e]

\* Mutants: insert appends, pushes to the front, or puts an event before its equals.
InsertLast(s, e) == Append(s, e)

InsertFirst(s, e) == <<e>> \o s

InsertBeforeEquals(s, e) ==
    SelectSeq(s, LAMBDA x : at[x] < at[e]) \o <<e>> \o SelectSeq(s, LAMBDA x : at[x] >= at[e])

\* EventList::insert: at the end, at the front, or where the walk stops.
Insert(s, e) ==
    IF s = <<>> \/ at[s[Len(s)]] <= at[e] THEN Append(s, e)
    ELSE IF at[e] < at[Head(s)] THEN <<e>> \o s
    ELSE SubSeq(s, 1, Passed(s, e)) \o <<e>> \o SubSeq(s, Passed(s, e) + 1, Len(s))

ProcessBegin ==
    /\ ppc = "idle"
    /\ ppc' = "update"
    /\ counter' = 0
    /\ lastWritten' = -1
    /\ tookMore' = FALSE
    /\ disordered' = FALSE
    /\ UNCHANGED <<bufferVars, frame, rolling, agenda, ontime, backlog, overloaded, missed>>

UpdateOne ==
    /\ ppc = "update"
    /\ counter < UpdateMax
    /\ eventQueue # <<>>
    /\ sortedEvents' = Insert(sortedEvents, Head(eventQueue))
    /\ eventQueue' = Tail(eventQueue)
    /\ counter' = counter + 1
    /\ tookMore' = (tookMore \/ lastWritten >= 0)
    /\ UNCHANGED <<at, heap, objectQueue, ppc, frame, rolling, lastWritten,
                   agenda, ontime, backlog, overloaded, missed, disordered>>

UpdateDone ==
    /\ ppc = "update"
    /\ counter = UpdateMax \/ eventQueue = <<>>
    /\ ppc' = "select"
    /\ backlog' = (eventQueue # <<>>)
    /\ UNCHANGED <<bufferVars, counter, frame, rolling, lastWritten, agenda, ontime,
                   overloaded, tookMore, missed, disordered>>

First == Head(sortedEvents)
Offset(e) == at[e] - frame

\* Pop the first event and recycle it.
PopFirst ==
    /\ sortedEvents' = Tail(sortedEvents)
    /\ objectQueue' = objectQueue \cup {First}
    /\ ontime' = ontime \ {First}
    /\ UNCHANGED <<eventQueue, at, heap, agenda>>

\* A bar zero event is passed through at once, rolling or not.  Its owner recycles
\* it here, as a port does; osc::Output has that line commented out.
PassThrough ==
    /\ ppc = "select"
    /\ sortedEvents # <<>>
    /\ at[First] = 0
    /\ PopFirst
    /\ ppc' = "update"
    /\ counter' = 0
    /\ UNCHANGED <<frame, rolling, lastWritten, backlog, overloaded, tookMore, missed,
                   disordered>>

\* Mutant: the grace is one frame short.
DropLateEarly ==
    /\ ppc = "select"
    /\ rolling
    /\ sortedEvents # <<>>
    /\ at[First] # 0
    /\ Offset(First) <= -Grace
    /\ PopFirst
    /\ missed' = (missed \/ First \in ontime)
    /\ UNCHANGED <<threadVars, backlog, overloaded, tookMore, disordered>>

\* An event that is too late is dropped; the next one is looked at.
DropLate ==
    /\ ppc = "select"
    /\ rolling
    /\ sortedEvents # <<>>
    /\ at[First] # 0
    /\ Offset(First) < -Grace
    /\ PopFirst
    /\ missed' = (missed \/ First \in ontime)
    /\ UNCHANGED <<threadVars, backlog, overloaded, tookMore, disordered>>

\* The first event falls into this period: it is written at its offset, a late
\* one at offset zero, and recycled.
Deliver ==
    /\ ppc = "select"
    /\ rolling
    /\ sortedEvents # <<>>
    /\ at[First] # 0
    /\ Offset(First) \in -Grace..(Period - 1)
    /\ PopFirst
    /\ lastWritten' = IF Offset(First) >= 0 THEN Offset(First) ELSE 0
    /\ disordered' = (disordered \/ lastWritten' < lastWritten)
    /\ ppc' = "update"
    /\ counter' = 0
    /\ UNCHANGED <<frame, rolling, backlog, overloaded, tookMore, missed>>

\* No event for this period is left; JACK moves on to the next one.
NoEvent ==
    /\ ppc = "select"
    /\ \/ sortedEvents = <<>>
       \/ /\ sortedEvents # <<>>
          /\ at[First] # 0
          /\ ~rolling \/ Offset(First) >= Period
    /\ ppc' = "idle"
    /\ frame' = IF rolling /\ frame + Period <= MaxFrame THEN frame + Period ELSE frame
    /\ overloaded' = (overloaded \/ backlog)
    /\ UNCHANGED <<bufferVars, counter, rolling, lastWritten, agenda, ontime, backlog,
                   tookMore, missed, disordered>>

--------------------------------------------------------------------------------
(***************************************************************************)
(* Process thread: recycleRemaining, after the transport has been moved    *)
(* back; a move forward flushes nothing.                                   *)
(***************************************************************************)
Relocate(f, r) ==
    /\ ppc = "idle"
    /\ frame' = f
    /\ rolling' = r
    /\ ppc' = IF f < frame THEN "flush" ELSE "idle"
    /\ ontime' = IF f > frame THEN {} ELSE ontime
    /\ UNCHANGED <<bufferVars, counter, lastWritten, agenda, backlog, overloaded,
                   tookMore, missed, disordered>>

FlushQueue ==
    /\ ppc = "flush"
    /\ eventQueue # <<>>
    /\ objectQueue' = objectQueue \cup {Head(eventQueue)}
    /\ ontime' = ontime \ {Head(eventQueue)}
    /\ eventQueue' = Tail(eventQueue)
    /\ UNCHANGED <<sortedEvents, at, heap, threadVars, agenda, backlog, overloaded,
                   tookMore, missed, disordered>>

\* Mutant: the list is recycled and keeps its elements.
FlushListKeeps ==
    /\ ppc = "flush"
    /\ eventQueue = <<>>
    /\ objectQueue' = objectQueue \cup Elements(sortedEvents)
    /\ ppc' = "idle"
    /\ UNCHANGED <<eventQueue, sortedEvents, at, heap, counter, frame, rolling,
                   lastWritten, historyVars>>

FlushList ==
    /\ ppc = "flush"
    /\ eventQueue = <<>>
    /\ objectQueue' = objectQueue \cup Elements(sortedEvents)
    /\ ontime' = ontime \ Elements(sortedEvents)
    /\ sortedEvents' = <<>>
    /\ ppc' = "idle"
    /\ UNCHANGED <<eventQueue, at, heap, counter, frame, rolling, lastWritten, agenda,
                   backlog, overloaded, tookMore, missed, disordered>>

--------------------------------------------------------------------------------
ScriptThread ==
    \/ \E e \in Events, p \in Positions : AddEvent(e, p)
    \/ \E e \in Events : Free(e)

ProcessThread ==
    \/ ProcessBegin \/ UpdateOne \/ UpdateDone
    \/ PassThrough \/ DropLate \/ Deliver \/ NoEvent
    \/ FlushQueue \/ FlushList

Jack == \E f \in 1..MaxFrame, r \in BOOLEAN : Relocate(f, r)

Next == ScriptThread \/ ProcessThread \/ Jack

Spec == Init /\ [][Next]_vars

--------------------------------------------------------------------------------
\* Every variable keeps its type.
TypeOK ==
    /\ eventQueue \in Seq(Events)
    /\ sortedEvents \in Seq(Events)
    /\ at \in [Events -> Positions]
    /\ heap \subseteq Events
    /\ objectQueue \subseteq Events
    /\ ppc \in {"idle", "update", "select", "flush"}
    /\ counter \in 0..UpdateMax
    /\ frame \in Nat
    /\ lastWritten \in Int
    /\ agenda \subseteq Events \X Events
    /\ ontime \subseteq Events
    /\ {rolling, backlog, overloaded, tookMore, missed, disordered} \subseteq BOOLEAN

\* The list the process thread keeps is ordered by position, whatever the order
\* in which the script scheduled (EventList::insert).
Sorted ==
    \A i, j \in DOMAIN sortedEvents : i < j => at[sortedEvents[i]] <= at[sortedEvents[j]]

\* Events at the same position keep the order in which they were scheduled, so a
\* note-off scheduled before a note-on at the same position comes out before it.
Stable ==
    \A i, j \in DOMAIN sortedEvents :
        i < j /\ at[sortedEvents[i]] = at[sortedEvents[j]]
            => <<sortedEvents[i], sortedEvents[j]>> \in agenda

NoDuplicates(s) == \A i, j \in DOMAIN s : s[i] = s[j] => i = j

\* An event is in exactly one place until it is deleted: once in the queue, once in
\* the list, or in the collector.  So none is lost, used twice, recycled twice or
\* used after it was deleted (addEvent, update, recycle, free).
OnePlace ==
    /\ NoDuplicates(eventQueue) /\ NoDuplicates(sortedEvents)
    /\ Elements(eventQueue) \cap Elements(sortedEvents) = {}
    /\ objectQueue \cap (Elements(eventQueue) \cup Elements(sortedEvents)) = {}
    /\ heap = Elements(eventQueue) \cup Elements(sortedEvents) \cup objectQueue

\* An event that the script schedules in time for the next period is played,
\* unless a period has ended with more events queued than one update() takes.
TimelyEventsPlay == missed => overloaded

\* The offsets that a port writes into JACK's buffer do not decrease, unless an
\* event arrived after the first one of the period had been written.
WrittenInOrder == disordered => tookMore
================================================================================
