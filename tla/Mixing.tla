--------------------------------- MODULE Mixing ---------------------------------
(***************************************************************************)
(* Gains and controls: what the script thread hands to a Mixer or to an    *)
(* LV2 Plugin, and what a period of the process thread makes of it.  The   *)
(* two classes keep their control connections in the same way; a behaviour *)
(* is about one of them, the unit.                                         *)
(*                                                                         *)
(* Gains are counted in thousandths.  The event buffer (EventBuffer.tla) is *)
(* a sorted sequence; its events carry their offset to the period.         *)
(***************************************************************************)
EXTENDS Integers, Sequences, FiniteSets, SequencesExt

CONSTANTS
    Conns,              \* addresses for control connections
    Cells,              \* places in the gain matrix, or control ports
    ConnQueueSize,      \* bound of controlConnections' queue (4)
    MapQueueSize,       \* bound of newControlMappingsQueue (16)
    Frames,             \* frames of a period
    Grace,              \* an event later than this is dropped (256)
    Inputs,             \* what a MIDI source can deliver in a period
    Offsets,            \* where the script schedules events, seen from the period
    MaxEvents,          \* bound on events in the buffer
    Gains, Ccs,         \* gains and control numbers that the script uses
    NULL

ASSUME SizeAssumption ==
    /\ {ConnQueueSize, MapQueueSize, Frames} \subseteq Nat \ {0}
    /\ Grace \in Nat
    /\ Offsets \subseteq Int

ASSUME NullAssumption ==
    /\ NULL \notin Conns /\ NULL \notin Int
    /\ NULL \notin [at : Int, cell : Cells, value : Gains, fresh : BOOLEAN]
    /\ NULL \notin [conn : Conns, cc : Ccs, cell : Cells, made : BOOLEAN]

\* JACK delivers the events of a period in the order of their frames.
ASSUME InputsAssumption ==
    \A events \in Inputs :
        /\ events \in Seq([frame : 0..(Frames - 1), cc : 0..127, value : 0..127])
        /\ \A i, j \in DOMAIN events : i < j => events[i].frame <= events[j].frame

VARIABLES
    unit,
    connMap, adding,    \* controlConnectionMap, and the mapping the script is adding
    connQueue, connList, mapQueue,
    mappings,           \* the mappings of each connection
    heap, recycled,     \* connections allocated, and those in scriptCollector
    value,              \* gain, or the values of the control ports
    gainBuffer,         \* fresh: scheduled during the period
    spc, repositioned,  \* the script thread; a reposition has begun, no restart yet
    ppc, frame,         \* the process thread
    input, index,       \* the period's MIDI events, and each connection's eventIndex
    applied,            \* which of them have been applied
    event,              \* the scheduled event in hand
    raced,              \* a controller was added across a reposition (AddController, Reposition)
    fault

connVars == <<connMap, adding, connQueue, connList, mapQueue, mappings, heap, recycled>>
periodVars == <<ppc, frame, input, index, applied, event>>
scriptVars == <<spc, repositioned>>
vars == <<unit, connVars, value, gainBuffer, scriptVars, periodVars, raced, fault>>

Controls == 1..127

Init ==
    /\ unit \in {"mixer", "plugin"}
    /\ connMap = NULL /\ adding = NULL
    /\ connQueue = <<>> /\ connList = <<>> /\ mapQueue = <<>>
    /\ mappings = [c \in Conns |-> {}]
    /\ heap = {} /\ recycled = {}
    /\ value = [c \in Cells |-> 0]
    /\ gainBuffer = <<>>
    /\ spc = "code" /\ repositioned = FALSE
    /\ ppc = "idle" /\ frame = 0
    /\ input = <<>> /\ index = [c \in Conns |-> NULL]
    /\ applied = {} /\ event = NULL
    /\ raced = FALSE /\ fault = "none"

--------------------------------------------------------------------------------
(***************************************************************************)
(* Script thread.  Script code is executed in a run and in a closure.      *)
(***************************************************************************)
\* Bound: once a controller has been added across a reposition (raced) the script sets
\* no value, schedules nothing and adds no controller any more; what is under way goes
\* on, restarts included.
ScriptCode == fault = "none" /\ spc = "code" /\ adding = NULL /\ ~raced

\* setControlValue: the port is written while the process thread may use it.
SetControlValue(cell, gain) ==
    /\ ScriptCode
    /\ unit = "plugin"
    /\ value' = [value EXCEPT ![cell] = gain]
    /\ UNCHANGED <<unit, connVars, gainBuffer, scriptVars, periodVars, raced,
                   fault>>

\* addGainController, addController: the connection is found or made ...
AddController(cc, cell) ==
    /\ ScriptCode
    /\ cc \in Controls
    /\ raced' = (raced \/ repositioned)
    /\ IF connMap = NULL
       THEN \E c \in Conns \ heap :
                /\ heap' = heap \cup {c}
                /\ mappings' = [mappings EXCEPT ![c] = {}]
                /\ index' = [index EXCEPT ![c] = NULL]
                /\ connMap' = c
                /\ adding' = [conn |-> c, cc |-> cc, cell |-> cell, made |-> TRUE]
       ELSE /\ adding' = [conn |-> connMap, cc |-> cc, cell |-> cell, made |-> FALSE]
            /\ UNCHANGED <<heap, mappings, index, connMap>>
    /\ UNCHANGED <<unit, connQueue, connList, mapQueue, recycled, value,
                   gainBuffer, scriptVars, ppc, frame, input, applied, event, fault>>

\* ... a new one goes to the queue of connections ...
PushConnection ==
    /\ fault = "none"
    /\ adding # NULL /\ adding.made
    /\ Len(connQueue) < ConnQueueSize
    /\ connQueue' = Append(connQueue, adding.conn)
    /\ adding' = [adding EXCEPT !.made = FALSE]
    /\ UNCHANGED <<unit, connMap, connList, mapQueue, mappings, heap, recycled,
                   value, gainBuffer, scriptVars, periodVars, raced, fault>>

\* ... and the mapping to the queue of mappings.  Both pushes spin for room.
PushMapping ==
    /\ fault = "none"
    /\ adding # NULL /\ ~adding.made
    /\ Len(mapQueue) < MapQueueSize
    /\ mapQueue' = Append(mapQueue, [conn |-> adding.conn, cc |-> adding.cc, cell |-> adding.cell])
    /\ adding' = NULL
    /\ UNCHANGED <<unit, connMap, connQueue, connList, mappings, heap, recycled,
                   value, gainBuffer, scriptVars, periodVars, raced, fault>>

\* scheduleGain, scheduleControl: the event takes its place in the buffer.
Schedule(at, cell, gain) ==
    /\ ScriptCode
    /\ Len(gainBuffer) < MaxEvents
    /\ LET e == [at |-> at, cell |-> cell, value |-> gain, fresh |-> ppc # "idle"]
           n == Cardinality({i \in DOMAIN gainBuffer : gainBuffer[i].at <= at})
       IN  gainBuffer' = InsertAt(gainBuffer, n + 1, e)
    /\ UNCHANGED <<unit, connVars, value, scriptVars, periodVars, raced, fault>>

EndScriptCode ==
    /\ fault = "none"
    /\ spc = "code" /\ adding = NULL
    /\ spc' = "wait"
    /\ UNCHANGED <<unit, connVars, value, gainBuffer, repositioned, periodVars,
                   raced, fault>>

\* A dispatched closure is executed while the script waits.
Execute ==
    /\ fault = "none"
    /\ spc = "wait"
    /\ spc' = "code"
    /\ UNCHANGED <<unit, connVars, value, gainBuffer, repositioned, periodVars,
                   raced, fault>>

\* scriptCollector().free()
FreeCollected ==
    /\ fault = "none"
    /\ spc = "wait"
    /\ recycled # {}
    /\ heap' = heap \ recycled
    /\ recycled' = {}
    /\ UNCHANGED <<unit, connMap, adding, connQueue, connList, mapQueue, mappings,
                   value, gainBuffer, scriptVars, periodVars, raced, fault>>

\* Mutant: the map of the last run is kept.
RestoreKeepingMap ==
    /\ fault = "none"
    /\ spc = "wait"
    /\ repositioned
    /\ repositioned' = FALSE
    /\ connMap' = connMap
    /\ spc' = "code"
    /\ UNCHANGED <<unit, adding, connQueue, connList, mapQueue, mappings, heap, recycled,
                   value, gainBuffer, periodVars, raced, fault>>

\* The next run gets the unit from its cache: restore.
Restore ==
    /\ fault = "none"
    /\ spc = "wait"
    /\ repositioned
    /\ repositioned' = FALSE
    /\ connMap' = NULL
    /\ spc' = "code"
    /\ UNCHANGED <<unit, adding, connQueue, connList, mapQueue, mappings, heap, recycled,
                   value, gainBuffer, periodVars, raced, fault>>

--------------------------------------------------------------------------------
(***************************************************************************)
(* Process thread.                                                         *)
(***************************************************************************)
\* Mutant: the queue is read and not popped.
PullMappingsPeeking ==
    /\ fault = "none"
    /\ ppc = "idle"
    /\ ppc' = "controls"
    /\ mapQueue' = mapQueue
    /\ LET gone == {i \in DOMAIN mapQueue : mapQueue[i].conn \notin heap}
       IN  IF gone = {}
           THEN /\ mappings' = [c \in Conns |-> mappings[c] \cup
                       {[cc |-> m.cc, cell |-> m.cell] : m \in {x \in Range(mapQueue) : x.conn = c}}]
                /\ UNCHANGED fault
           ELSE fault' = "dangling" /\ UNCHANGED mappings
    /\ UNCHANGED <<unit, connMap, adding, connQueue, connList, heap, recycled,
                   value, gainBuffer, scriptVars, frame, input, index, applied, event, raced>>

\* A period begins: new mappings are given to their connections.
PullMappings ==
    /\ fault = "none"
    /\ ppc = "idle"
    /\ ppc' = "controls"
    /\ mapQueue' = <<>>
    /\ LET gone == {i \in DOMAIN mapQueue : mapQueue[i].conn \notin heap}
       IN  IF gone = {}
           THEN /\ mappings' = [c \in Conns |-> mappings[c] \cup
                       {[cc |-> m.cc, cell |-> m.cell] : m \in {x \in Range(mapQueue) : x.conn = c}}]
                /\ UNCHANGED fault
           ELSE fault' = "dangling" /\ UNCHANGED mappings
    /\ UNCHANGED <<unit, connMap, adding, connQueue, connList, heap, recycled,
                   value, gainBuffer, scriptVars, frame, input, index, applied, event, raced>>

\* QueueList::getFirst puts what is in the queue in front of the list.
Fetched == Reverse(connQueue) \o connList

\* What getNextEvent returns, and what is in the buffer then (rolling; an event has
\* a bar, the constructor of Position refuses bar zero).
NextEvent(buffer) ==
    LET late == {i \in DOMAIN buffer : \A j \in 1..i : buffer[j].at < -Grace}
        current == SubSeq(buffer, Cardinality(late) + 1, Len(buffer))
    IN  IF current # <<>> /\ Head(current).at < Frames
        THEN [event |-> Head(current), rest |-> Tail(current)]
        ELSE [event |-> NULL, rest |-> current]

\* A MIDI value as a gain, or between a port's bounds.
Scaled(midiValue) == (midiValue * 1000) \div 127

\* What the events ev[i], for i in is and in this order, make of the cells.
Update(values, c, is) ==
    [cell \in Cells |->
        LET hits == {i \in is : [cc |-> input'[i].cc, cell |-> cell] \in mappings[c]}
        IN  IF hits = {} THEN values[cell]
            ELSE Scaled(input'[CHOOSE i \in hits : \A j \in hits : j <= i].value)]

\* Mutant: connections still in the queue are not processed.
MixerControlsOldList ==
    /\ fault = "none"
    /\ unit = "mixer" /\ ppc = "controls"
    /\ ppc' = "frames" /\ frame' = 0
    /\ connList' = Fetched /\ connQueue' = <<>>
    /\ input' \in IF Fetched = <<>> THEN {<<>>} ELSE Inputs
    /\ index' = [c \in Conns |-> IF c \in Range(connList) THEN 0 ELSE index[c]]
    /\ event' = NextEvent(gainBuffer).event
    /\ gainBuffer' = NextEvent(gainBuffer).rest
    /\ UNCHANGED <<unit, connMap, adding, mapQueue, mappings, heap, recycled,
                   value, scriptVars, applied, raced, fault>>

\* MixerControlConnection::process, and the first scheduled event.
MixerControls ==
    /\ fault = "none"
    /\ unit = "mixer" /\ ppc = "controls"
    /\ ppc' = "frames" /\ frame' = 0
    /\ connList' = Fetched /\ connQueue' = <<>>
    /\ input' \in IF Fetched = <<>> THEN {<<>>} ELSE Inputs
    /\ index' = [c \in Conns |-> IF c \in Range(Fetched) THEN 0 ELSE index[c]]
    /\ event' = NextEvent(gainBuffer).event
    /\ gainBuffer' = NextEvent(gainBuffer).rest
    /\ UNCHANGED <<unit, connMap, adding, mapQueue, mappings, heap, recycled,
                   value, scriptVars, applied, raced, fault>>

\* Plugin::doProcess: the due events set their ports, then every connection applies
\* all of its events.
PluginEvents ==
    /\ fault = "none"
    /\ unit = "plugin" /\ ppc = "controls"
    /\ LET r == NextEvent(gainBuffer) IN
          /\ gainBuffer' = r.rest
          /\ IF r.event = NULL THEN ppc' = "frames" /\ UNCHANGED value
             ELSE value' = [value EXCEPT ![r.event.cell] = r.event.value] /\ UNCHANGED ppc
    /\ UNCHANGED <<unit, connVars, scriptVars, frame, input, index, applied, event,
                   raced, fault>>

PluginControls ==
    /\ fault = "none"
    /\ unit = "plugin" /\ ppc = "frames"
    /\ ppc' = "end"
    /\ connList' = Fetched /\ connQueue' = <<>>
    /\ input' \in IF Fetched = <<>> THEN {<<>>} ELSE Inputs
    /\ index' = [c \in Conns |-> IF c \in Range(Fetched) THEN 0 ELSE index[c]]
    /\ applied' = IF Fetched = <<>> THEN {} ELSE DOMAIN input'
    /\ value' = FoldLeft(LAMBDA v, c : Update(v, c, DOMAIN input'), value, Fetched)
    /\ UNCHANGED <<unit, connMap, adding, mapQueue, mappings, heap, recycled,
                   gainBuffer, scriptVars, frame, event, raced, fault>>

\* The events that updateGains applies, from the connection's index on ...
Hits(c) ==
    {i \in (index[c] + 1)..Len(input) : \A j \in (index[c] + 1)..i : input[j].frame = frame}

\* Mutant: the index moves on whether or not the event belongs to the frame.
NextIndexAlways(c) == IF index[c] < Len(input) THEN index[c] + 1 ELSE index[c]

\* ... and its index then: the first event it did not apply has been read as well.
NextIndex(c) ==
    IF Hits(c) = {} THEN index[c]
    ELSE LET last == index[c] + Cardinality(Hits(c))
         IN  IF last < Len(input) THEN last + 1 ELSE last

\* One frame: the connections first.  One that was not there for MixerControls has
\* an eventCount that was never set: it may be zero, or anything.
FrameControls ==
    /\ fault = "none"
    /\ unit = "mixer" /\ ppc = "frames" /\ frame < Frames
    /\ ppc' = "gains"
    /\ connList' = Fetched /\ connQueue' = <<>>
    /\ \/ /\ \E c \in Range(Fetched) : index[c] = NULL
          /\ fault' = "uninitialised"
          /\ UNCHANGED <<index, applied, value, input>>
       \/ LET ready == {c \in Range(Fetched) : index[c] # NULL}
          IN  /\ input' = input
              /\ index' = [c \in Conns |-> IF c \in ready THEN NextIndex(c) ELSE index[c]]
              /\ applied' = applied \cup UNION {Hits(c) : c \in ready}
              /\ value' = FoldLeft(LAMBDA v, c : IF c \in ready THEN Update(v, c, Hits(c)) ELSE v,
                                   value, Fetched)
              /\ UNCHANGED fault
    /\ UNCHANGED <<unit, connMap, adding, mapQueue, mappings, heap, recycled,
                   gainBuffer, scriptVars, frame, event, raced>>

\* Then the scheduled events, one after the other, while they are due in this frame.
FrameGain ==
    /\ fault = "none"
    /\ ppc = "gains"
    /\ event # NULL
    /\ event.at = frame
    /\ value' = [value EXCEPT ![event.cell] = event.value]
    /\ event' = NextEvent(gainBuffer).event
    /\ gainBuffer' = NextEvent(gainBuffer).rest
    /\ UNCHANGED <<unit, connVars, scriptVars, ppc, frame, input, index, applied,
                   raced, fault>>

\* Mutant: the loop ends one frame early.
NextFrameShort ==
    /\ fault = "none"
    /\ ppc = "gains"
    /\ ~(event # NULL /\ event.at = frame)
    /\ frame' = frame + 1
    /\ ppc' = IF frame + 2 < Frames THEN "frames" ELSE "end"
    /\ UNCHANGED <<unit, connVars, value, gainBuffer, scriptVars, input, index,
                   applied, event, raced, fault>>

NextFrame ==
    /\ fault = "none"
    /\ ppc = "gains"
    /\ ~(event # NULL /\ event.at = frame)
    /\ frame' = frame + 1
    /\ ppc' = IF frame + 1 < Frames THEN "frames" ELSE "end"
    /\ UNCHANGED <<unit, connVars, value, gainBuffer, scriptVars, input, index,
                   applied, event, raced, fault>>

\* Offsets of events that are too late are not told apart.
Earlier(at) == IF at - Frames < -Grace THEN -Grace - 1 ELSE at - Frames

\* The period is over.  An event that is still in hand is in no list any more.
EndPeriod ==
    /\ fault = "none"
    /\ ppc = "end"
    /\ ppc' = "idle" /\ frame' = 0
    /\ event' = NULL /\ input' = <<>> /\ applied' = {}
    /\ index' = [c \in Conns |-> IF index[c] = NULL THEN NULL ELSE 0]
    /\ gainBuffer' = [i \in DOMAIN gainBuffer |->
           [at |-> Earlier(gainBuffer[i].at), cell |-> gainBuffer[i].cell,
            value |-> gainBuffer[i].value, fresh |-> FALSE]]
    /\ UNCHANGED <<unit, connVars, value, scriptVars, raced, fault>>

\* Mutant: what the queue still holds is not recycled.
RepositionKeepingQueue ==
    /\ fault = "none"
    /\ ppc = "idle"
    /\ repositioned' = TRUE
    /\ recycled' = recycled \cup Range(connList)
    /\ mappings' = [c \in Conns |-> IF c \in Range(connList) THEN {} ELSE mappings[c]]
    /\ connList' = <<>> /\ connQueue' = <<>>
    /\ mapQueue' = IF unit = "mixer" THEN <<>> ELSE mapQueue
    /\ gainBuffer' = <<>>
    /\ raced' = (raced \/ adding # NULL \/ mapQueue' # <<>>)
    /\ UNCHANGED <<unit, connMap, adding, heap, value, spc, periodVars, fault>>

\* The transport moves back.
Reposition ==
    /\ fault = "none"
    /\ ppc = "idle"
    /\ repositioned' = TRUE
    /\ recycled' = recycled \cup Range(Fetched)
    /\ mappings' = [c \in Conns |-> IF c \in Range(Fetched) THEN {} ELSE mappings[c]]
    /\ connList' = <<>> /\ connQueue' = <<>>
    /\ mapQueue' = IF unit = "mixer" THEN <<>> ELSE mapQueue
    /\ gainBuffer' = <<>>
    /\ raced' = (raced \/ adding # NULL \/ mapQueue' # <<>>)
    /\ UNCHANGED <<unit, connMap, adding, heap, value, spc, periodVars, fault>>

Down == fault # "none" /\ UNCHANGED vars

Script ==
    \/ \E cell \in Cells :
          \/ \E gain \in Gains : SetControlValue(cell, gain)
          \/ \E cc \in Ccs : AddController(cc, cell)
          \/ \E at \in Offsets, gain \in Gains : Schedule(at, cell, gain)
    \/ PushConnection \/ PushMapping
    \/ EndScriptCode \/ Execute \/ FreeCollected \/ Restore

Period ==
    \/ PullMappings \/ MixerControls \/ PluginEvents \/ PluginControls
    \/ FrameControls \/ FrameGain \/ NextFrame \/ EndPeriod

Next == Script \/ Period \/ Reposition \/ Down

\* JACK calls process again and again; a push is repeated until it succeeds.
Fairness == WF_vars(Period) /\ WF_vars(PushConnection) /\ WF_vars(PushMapping)

Spec == Init /\ [][Next]_vars /\ Fairness

--------------------------------------------------------------------------------
TypeOK ==
    /\ unit \in {"mixer", "plugin"}
    /\ connMap \in Conns \cup {NULL}
    /\ adding = NULL \/ adding \in [conn : Conns, cc : Controls, cell : Cells, made : BOOLEAN]
    /\ connQueue \in Seq(Conns) /\ Len(connQueue) <= ConnQueueSize
    /\ connList \in Seq(Conns)
    /\ mapQueue \in Seq([conn : Conns, cc : Controls, cell : Cells]) /\ Len(mapQueue) <= MapQueueSize
    /\ mappings \in [Conns -> SUBSET [cc : Controls, cell : Cells]]
    /\ recycled \subseteq heap /\ heap \subseteq Conns
    /\ value \in [Cells -> Int]
    /\ spc \in {"code", "wait"}
    /\ ppc \in {"idle", "controls", "frames", "gains", "end"}
    /\ frame \in 0..Frames
    /\ \A c \in Conns : index[c] = NULL \/ index[c] \in 0..Len(input)
    /\ fault \in {"none", "dangling", "uninitialised"}

\* Where a connection is held for the process thread or for deletion.
Holders(c) ==
    Cardinality({i \in DOMAIN connQueue : connQueue[i] = c})
    + Cardinality({i \in DOMAIN connList : connList[i] = c})
    + (IF c \in recycled THEN 1 ELSE 0)
    + (IF adding # NULL /\ adding.made /\ adding.conn = c THEN 1 ELSE 0)

\* A control connection is held once from the addController that made it until the
\* collector deletes it: none leaks, none is deleted twice.
ConnectionsAccounted ==
    fault = "none" => \A c \in Conns : Holders(c) = IF c \in heap THEN 1 ELSE 0

\* Mappings in the queue, and the map the script looks in, lead to connections that
\* are in use - unless a controller was added across a reposition, which Mixer and
\* Plugin do not expect; only then does the process thread follow a dead one.
MappingsLive ==
    /\ fault = "dangling" => raced
    /\ fault = "none" /\ ~raced =>
          /\ \A m \in Range(mapQueue) : m.conn \in heap \ recycled
          /\ connMap = NULL \/ repositioned \/ connMap \in heap \ recycled

\* What is scheduled before a period and due in it is applied in it.  The exception
\* in a mixer is that one late event keeps those behind it back.
GainsApplied ==
    ppc = "end" =>
        /\ event # NULL => event.at < 0 \/ event.fresh
        /\ \A e \in Range(gainBuffer) :
              e.at < Frames /\ ~e.fresh => event # NULL

\* The MIDI events of a period reach the mapped gains and ports, but for the one a
\* mixer reads and leaves: the first after a frame with events.
ControlsApplied ==
    ppc = "end" /\ (\E c \in Range(connList) : index[c] # NULL) =>
        \A i \in DOMAIN input :
            \/ i \in applied
            \/ unit = "mixer" /\ i > 1 /\ input[i - 1].frame < input[i].frame

\* The frame loop starts with the count of every connection in the list set.  It
\* reads an unset one only of the connection that the script has added since then; or
\* of any when a controller was added across a reposition (raced).
CountsSet ==
    /\ unit = "mixer" /\ ppc = "frames" /\ frame = 0 => \A c \in Range(connList) : index[c] # NULL
    /\ fault = "uninitialised" =>
          unit = "mixer" /\ (raced \/ {c \in Range(connList) : index[c] = NULL} = {connMap})

\* addGainController and addController come back although both queues are bounded.
ControllerAdded == (adding # NULL) ~> (adding = NULL \/ fault # "none")

================================================================================
