------------------------------- MODULE Lifecycle -------------------------------
(***************************************************************************)
(* The life of a processor (port, mixer, plugin, tracker, OSC output) and  *)
(* the restart handshake that bounds it: ScriptHost::waitForRestart, the   *)
(* object caches, AudioEngine::sync / reposition / process and the threads *)
(* of the osc::Outputs.                                                    *)
(*                                                                         *)
(* Three kinds of thread run concurrently.  The script thread runs the     *)
(* script, then offers every cache entry to scriptComplete, then waits for *)
(* restartFlag.  The process thread runs the JACK callbacks, sync and then *)
(* process, one cycle after the other.  Every osc::Output has a thread of  *)
(* its own.  One action is one access to what the threads share.           *)
(*                                                                         *)
(* The engine's processor list and the queue of added processors are sets: *)
(* the order in which their entries are taken is not observable.  The one  *)
(* of the deleted processors is a ring made for one producer, to which the *)
(* script thread and the thread of every osc::Output push.                 *)
(***************************************************************************)
EXTENDS Integers, Sequences, FiniteSets

CONSTANTS
    Keys,           \* the keys scripts ask the caches for
    Procs,          \* the addresses at which a Processor may be allocated
    OscKeys,        \* keys of the OutputFactory
    Outputs,        \* addresses at which an osc::Output may be allocated
    Buffered,       \* processors with an EventBuffer (not the audio ports)
    FailingKeys,    \* keys for which creating the object can throw
    NoEntry,        \* instanceMap holds no entry for the key
    Null,           \* instanceMap holds a null pointer for the key
    AddCapacity,    \* bound of activeProcessors.queue (128 in the code)
    DelCapacity,    \* bound of deletedProcessors (16 in the code)
    MaxFrame        \* bound of the transport position

ASSUME KeysAssumption == OscKeys \subseteq Keys /\ FailingKeys \subseteq Keys
ASSUME ProcsAssumption == Outputs \subseteq Procs /\ Buffered \subseteq Procs
ASSUME PointerAssumption == NoEntry \notin Procs /\ Null \notin Procs /\ NoEntry # Null
ASSUME BoundsAssumption ==
    /\ AddCapacity \in Nat \ {0}
    /\ DelCapacity \in Nat \ {0}
    /\ MaxFrame \in Nat

VARIABLES
    spc,                    \* where the script thread is
    instanceMap,            \* the caches' maps, all caches together
    activeScriptObjects,    \* objects asked for since they were last offered
    unvisited,              \* entries scriptComplete has still to look at
    activeObjects,          \* scriptComplete's result so far
    restartFlag, runningFlag,
    addQueue,               \* activeProcessors.queue
    activeProcessors,       \* activeProcessors.list
    deletedProcessors,      \* what the ring holds between its two indices
    claims,                 \* what is being pushed to it, with the slot it goes to
    overlapped,             \* two threads have been in push at the same time
    objectQueue,            \* processors in scriptCollector
    heap,                   \* the processors allocated and not deleted
    ppc,                    \* where the process thread is
    multiplePeriodRestart,  \* 0, or 1 for any number of failed attempts
    runningFrame,
    jackFrame, transport,   \* JACK's position and transport state
    threads,                \* osc::Outputs whose thread runs
    repositionNeeded, cancelled,  \* the osc::Outputs with these flags up
    freshEvents,            \* processors holding events of the current run
    staleEvents,            \* processors holding events of an earlier run
    sawWaiting,             \* running() was read before restartFlag was last cleared
    unsolicited,            \* some restart() came after the run it asks for was due
    crashed                 \* a null pointer has been followed

scriptVars == <<spc, instanceMap, activeScriptObjects, unvisited, activeObjects>>
flagVars == <<restartFlag, runningFlag>>
deletedVars == <<deletedProcessors, claims, overlapped>>
engineVars == <<addQueue, activeProcessors, deletedVars, objectQueue, heap>>
jackVars == <<ppc, multiplePeriodRestart, runningFrame, jackFrame, transport>>
oscVars == <<threads, repositionNeeded, cancelled>>
eventVars == <<freshEvents, staleEvents>>
historyVars == <<sawWaiting, unsolicited>>
vars == <<scriptVars, flagVars, engineVars, jackVars, oscVars, eventVars,
          historyVars, crashed>>

Cached == {instanceMap[k] : k \in Keys} \cap Procs
Entries == {k \in Keys : instanceMap[k] # NoEntry}
Retiring == cancelled \cap threads  \* told to stop, not yet in deletedProcessors
Pushing == DOMAIN claims
Elements(s) == {s[i] : i \in DOMAIN s}

Init ==
    /\ spc = "run"
    /\ instanceMap = [k \in Keys |-> NoEntry]
    /\ activeScriptObjects = {}
    /\ unvisited = {}
    /\ activeObjects = FALSE
    /\ restartFlag = FALSE
    /\ runningFlag = TRUE
    /\ addQueue = {}
    /\ activeProcessors = {}
    /\ deletedProcessors = <<>>
    /\ claims = <<>>
    /\ overlapped = FALSE
    /\ objectQueue = {}
    /\ heap = {}
    /\ ppc = "idle"
    /\ multiplePeriodRestart = 0
    /\ runningFrame = 0
    /\ jackFrame = 0
    /\ transport = "rolling"
    /\ threads = {}
    /\ repositionNeeded = {}
    /\ cancelled = {}
    /\ freshEvents = {}
    /\ staleEvents = {}
    /\ sawWaiting = FALSE
    /\ unsolicited = FALSE
    /\ crashed = FALSE

--------------------------------------------------------------------------------
(***************************************************************************)
(* Script thread: the script itself, and the methods dispatched to it      *)
(* while it waits, ask the caches for objects and schedule events on them. *)
(***************************************************************************)
ScriptCode == spc \in {"run", "wait"}

\* Bound: when two threads have met in removeProcessor, what they stored is still
\* taken out, but the script asks for no more objects and nobody relocates.
Undamaged == ~overlapped

\* findObject succeeds: the object counts as used in this run.
GetCached(k) ==
    /\ ScriptCode
    /\ Undamaged
    /\ instanceMap[k] \in Procs
    /\ activeScriptObjects' = activeScriptObjects \cup {instanceMap[k]}
    /\ UNCHANGED <<spc, instanceMap, unvisited, activeObjects, flagVars, engineVars,
                   jackVars, oscVars, eventVars, historyVars, crashed>>

\* findObject finds nothing, the object is constructed at a free address and
\* registered.  An osc::Output starts its thread in its constructor.  Pushing
\* to a full queue spins.
GetNew(k, p) ==
    /\ ScriptCode
    /\ Undamaged
    /\ instanceMap[k] \notin Procs
    /\ p \notin heap
    /\ (k \in OscKeys) <=> (p \in Outputs)
    /\ Cardinality(addQueue) < AddCapacity
    /\ instanceMap' = [instanceMap EXCEPT ![k] = p]
    /\ activeScriptObjects' = activeScriptObjects \cup {p}
    /\ heap' = heap \cup {p}
    /\ addQueue' = addQueue \cup {p}
    /\ threads' = IF p \in Outputs THEN threads \cup {p} ELSE threads
    /\ repositionNeeded' = repositionNeeded \ {p}
    /\ cancelled' = cancelled \ {p}
    /\ UNCHANGED <<spc, unvisited, activeObjects, flagVars, activeProcessors,
                   deletedVars, objectQueue, jackVars, eventVars,
                   historyVars, crashed>>

\* findObject's instanceMap[key] has inserted a null pointer when creating the
\* object throws; the script catches the error and goes on.
GetFails(k) ==
    /\ ScriptCode
    /\ Undamaged
    /\ k \in FailingKeys
    /\ instanceMap[k] \notin Procs
    /\ instanceMap' = [instanceMap EXCEPT ![k] = Null]
    /\ UNCHANGED <<spc, activeScriptObjects, unvisited, activeObjects, flagVars,
                   engineVars, jackVars, oscVars, eventVars, historyVars, crashed>>

\* The script has handles on what it asked for in this run; a dispatched
\* method, which runs after scriptComplete, on what is left in the caches.
Schedule(p) ==
    /\ p \in Buffered
    /\ \/ spc = "run" /\ p \in activeScriptObjects
       \/ spc = "wait" /\ p \in Cached
    /\ freshEvents' = freshEvents \cup {p}
    /\ UNCHANGED <<scriptVars, flagVars, engineVars, jackVars, oscVars, staleEvents,
                   historyVars, crashed>>

\* The script file has run to its end.
ScriptReturns ==
    /\ spc = "run"
    /\ runningFlag' = FALSE
    /\ spc' = "complete"
    /\ unvisited' = Entries
    /\ activeObjects' = FALSE
    /\ UNCHANGED <<instanceMap, activeScriptObjects, restartFlag, engineVars,
                   jackVars, oscVars, eventVars, historyVars, crashed>>

\* An uncaught error ends ScriptHost::run; main tells the osc::Outputs to stop.
ScriptFails ==
    /\ spc = "run"
    /\ spc' = "shutdown"
    /\ unvisited' = Entries \cap OscKeys
    /\ UNCHANGED <<instanceMap, activeScriptObjects, activeObjects, flagVars,
                   engineVars, jackVars, oscVars, eventVars, historyVars, crashed>>

--------------------------------------------------------------------------------
(***************************************************************************)
(* AudioEngine::removeProcessor: push finds a slot, or is tried again, and *)
(* then stores the pointer and the index of the next slot.  Slots are      *)
(* counted from the one the process thread reads next; there is one more   *)
(* than the queue may hold.                                                *)
(***************************************************************************)
Claim(x) ==
    /\ Len(deletedProcessors) < DelCapacity
    /\ claims' = [y \in Pushing \cup {x} |->
                     IF y = x THEN Len(deletedProcessors) ELSE claims[y]]
    /\ overlapped' = (overlapped \/ Pushing # {})
    /\ UNCHANGED deletedProcessors

\* What the ring may hold when x has been stored in slot n.  Between its indices only
\* that slot has changed, unless the write index was moved since slot n was found: a
\* slot that was not between them may hold anything that was pushed.
Written(x, n) ==
    {s \in [1..((n + 1) % (DelCapacity + 1)) -> Procs \cup {Null}] :
        \A i \in DOMAIN s :
            /\ i = n + 1 => s[i] = x
            /\ i <= n /\ i <= Len(deletedProcessors) => s[i] = deletedProcessors[i]}

Store(x) ==
    /\ x \in Pushing
    /\ deletedProcessors' \in Written(x, claims[x])
    /\ claims' = [y \in Pushing \ {x} |-> claims[y]]
    /\ UNCHANGED overlapped

--------------------------------------------------------------------------------
(***************************************************************************)
(* Script thread: ActiveCache::scriptComplete over all entries, and        *)
(* removeAll at shutdown.                                                  *)
(***************************************************************************)
\* Between two entries: the last one has been pushed.
AtEntry == spc = "complete" /\ Pushing \subseteq Outputs

\* The entry's object was used in the run: it stays for the next one.
KeepEntry(k) ==
    /\ AtEntry
    /\ k \in unvisited
    /\ instanceMap[k] \in activeScriptObjects
    /\ unvisited' = unvisited \ {k}
    /\ activeScriptObjects' = activeScriptObjects \ {instanceMap[k]}
    /\ activeObjects' = TRUE
    /\ UNCHANGED <<spc, instanceMap, flagVars, engineVars, jackVars, oscVars,
                   eventVars, historyVars, crashed>>

\* Mutant: the processor goes to the collector without being taken from the engine.
RemoveEntryAtOnce(k) ==
    /\ AtEntry
    /\ k \in unvisited \ OscKeys
    /\ instanceMap[k] \notin activeScriptObjects
    /\ unvisited' = unvisited \ {k}
    /\ instanceMap' = [instanceMap EXCEPT ![k] = NoEntry]
    /\ objectQueue' = objectQueue \cup ({instanceMap[k]} \cap Procs)
    /\ UNCHANGED <<spc, activeScriptObjects, activeObjects, flagVars, addQueue,
                   activeProcessors, deletedVars, heap, jackVars, oscVars,
                   eventVars, historyVars, crashed>>

\* removeObject of a ProcessorCache: hand the pointer, null or not, to the engine.
RemoveEntry(k) ==
    /\ AtEntry
    /\ k \in unvisited \ OscKeys
    /\ instanceMap[k] \notin activeScriptObjects
    /\ Claim(instanceMap[k])
    /\ unvisited' = unvisited \ {k}
    /\ instanceMap' = [instanceMap EXCEPT ![k] = NoEntry]
    /\ UNCHANGED <<spc, activeScriptObjects, activeObjects, flagVars, addQueue,
                   activeProcessors, objectQueue, heap, jackVars, oscVars,
                   eventVars, historyVars, crashed>>

RemoveStored ==
    /\ \E x \in Pushing \ Outputs : Store(x)
    /\ UNCHANGED <<scriptVars, flagVars, addQueue, activeProcessors, objectQueue, heap,
                   jackVars, oscVars, eventVars, historyVars, crashed>>

\* removeObject of the OutputFactory: tell the thread to stop.  removeAll does
\* so for every Output, used or not.
CancelOutput(k) ==
    /\ k \in unvisited \cap OscKeys
    /\ \/ AtEntry /\ instanceMap[k] \notin activeScriptObjects
       \/ spc = "shutdown"
    /\ unvisited' = unvisited \ {k}
    /\ activeScriptObjects' = activeScriptObjects \ {instanceMap[k]}
    /\ instanceMap' = [instanceMap EXCEPT ![k] = NoEntry]
    /\ cancelled' = (cancelled \cup {instanceMap[k]}) \cap Procs
    /\ crashed' = (instanceMap[k] = Null)
    /\ UNCHANGED <<spc, activeObjects, flagVars, engineVars, jackVars, threads,
                   repositionNeeded, eventVars, historyVars>>

\* With no object left alive the extensions decide whether to stay.
LeaveScriptComplete ==
    /\ AtEntry
    /\ unvisited = {}
    /\ \/ spc' = "wait"
       \/ ~activeObjects /\ spc' = "shutdown"
    /\ UNCHANGED <<instanceMap, activeScriptObjects, unvisited, activeObjects,
                   flagVars, engineVars, jackVars, oscVars, eventVars,
                   historyVars, crashed>>

\* jack_deactivate returns between two cycles.
Deactivate ==
    /\ spc = "shutdown"
    /\ unvisited = {}
    /\ ppc = "idle"
    /\ spc' = "exited"
    /\ UNCHANGED <<instanceMap, activeScriptObjects, unvisited, activeObjects,
                   flagVars, engineVars, jackVars, oscVars, eventVars,
                   historyVars, crashed>>

--------------------------------------------------------------------------------
(***************************************************************************)
(* Script thread: the loop of waitForRestart.                              *)
(***************************************************************************)
\* Mutant: a script that left objects behind does not look at the flag.
SeeRestartWhenBare ==
    /\ spc = "wait"
    /\ restartFlag
    /\ ~activeObjects
    /\ spc' = "clear"
    /\ UNCHANGED <<instanceMap, activeScriptObjects, unvisited, activeObjects,
                   flagVars, engineVars, jackVars, oscVars, eventVars,
                   historyVars, crashed>>

SeeRestart ==
    /\ spc = "wait"
    /\ restartFlag
    /\ spc' = "clear"
    /\ UNCHANGED <<instanceMap, activeScriptObjects, unvisited, activeObjects,
                   flagVars, engineVars, jackVars, oscVars, eventVars,
                   historyVars, crashed>>

\* Mutant: the flag is not cleared before the new run.
ClearRestartForgotten ==
    /\ spc = "clear"
    /\ spc' = "raise"
    /\ sawWaiting' = FALSE
    /\ UNCHANGED <<instanceMap, activeScriptObjects, unvisited, activeObjects,
                   flagVars, engineVars, jackVars, oscVars, eventVars,
                   unsolicited, crashed>>

ClearRestart ==
    /\ spc = "clear"
    /\ restartFlag' = FALSE
    /\ spc' = "raise"
    /\ sawWaiting' = FALSE
    /\ UNCHANGED <<instanceMap, activeScriptObjects, unvisited, activeObjects,
                   runningFlag, engineVars, jackVars, oscVars, eventVars,
                   unsolicited, crashed>>

\* From here on whatever is still queued was scheduled by an earlier run.
RaiseRunning ==
    /\ spc = "raise"
    /\ runningFlag' = TRUE
    /\ spc' = "run"
    /\ staleEvents' = staleEvents \cup freshEvents
    /\ freshEvents' = {}
    /\ UNCHANGED <<instanceMap, activeScriptObjects, unvisited, activeObjects,
                   restartFlag, engineVars, jackVars, oscVars, historyVars, crashed>>

\* scriptCollector().free(), one object at a time.
FreeCollected(p) ==
    /\ spc = "wait"
    /\ p \in objectQueue
    /\ objectQueue' = objectQueue \ {p}
    /\ heap' = heap \ {p}
    /\ freshEvents' = freshEvents \ {p}
    /\ staleEvents' = staleEvents \ {p}
    /\ UNCHANGED <<scriptVars, flagVars, addQueue, activeProcessors,
                   deletedVars, jackVars, oscVars, historyVars, crashed>>

--------------------------------------------------------------------------------
(***************************************************************************)
(* JACK: somebody relocates the transport between two cycles; JACK gives   *)
(* up waiting for slow clients and rolls.                                  *)
(***************************************************************************)
Locate(f) ==
    /\ ppc = "idle"
    /\ spc # "exited"
    /\ Undamaged
    /\ jackFrame' = f
    /\ transport' = "starting"
    /\ UNCHANGED <<scriptVars, flagVars, engineVars, ppc, multiplePeriodRestart,
                   runningFrame, oscVars, eventVars, historyVars, crashed>>

SyncTimeout ==
    /\ ppc = "idle"
    /\ spc # "exited"
    /\ transport = "starting"
    /\ transport' = "rolling"
    /\ UNCHANGED <<scriptVars, flagVars, engineVars, ppc, multiplePeriodRestart,
                   runningFrame, jackFrame, oscVars, eventVars, historyVars, crashed>>

--------------------------------------------------------------------------------
(***************************************************************************)
(* Process thread: sync and reposition.                                    *)
(***************************************************************************)
RestartDue == multiplePeriodRestart # 0 \/ jackFrame < runningFrame

SyncBegin ==
    /\ ppc = "idle"
    /\ spc # "exited"
    /\ transport = "starting"
    /\ \/ RestartDue /\ ppc' = "reposition" /\ transport' = transport
       \/ ~RestartDue /\ ppc' = "process" /\ transport' = "rolling"
    /\ UNCHANGED <<scriptVars, flagVars, engineVars, multiplePeriodRestart,
                   runningFrame, jackFrame, oscVars, eventVars, historyVars, crashed>>

\* A pop: the slots that have been found come one nearer.
Pop ==
    /\ deletedProcessors' = Tail(deletedProcessors)
    /\ claims' = [x \in Pushing |-> IF claims[x] = 0 THEN DelCapacity ELSE claims[x] - 1]
    /\ UNCHANGED overlapped

\* Mutant: a processor that is not in the list is recycled all the same.
DropDeletedUnchecked ==
    /\ ppc \in {"reposition", "drop"}
    /\ deletedProcessors # <<>>
    /\ Pop
    /\ activeProcessors' = activeProcessors \ {Head(deletedProcessors)}
    /\ objectQueue' = objectQueue \cup {Head(deletedProcessors)}
    /\ UNCHANGED <<scriptVars, flagVars, addQueue, heap, jackVars, oscVars,
                   eventVars, historyVars, crashed>>

\* Both callbacks first take the deleted processors out of the list and
\* recycle them.  List::remove follows a null pointer when one is not there.
DropDeleted ==
    /\ ppc \in {"reposition", "drop"}
    /\ deletedProcessors # <<>>
    /\ IF Head(deletedProcessors) \in activeProcessors
       THEN /\ Pop
            /\ activeProcessors' = activeProcessors \ {Head(deletedProcessors)}
            /\ objectQueue' = objectQueue \cup {Head(deletedProcessors)}
            /\ crashed' = FALSE
       ELSE /\ crashed' = TRUE
            /\ UNCHANGED <<deletedVars, activeProcessors, objectQueue>>
    /\ UNCHANGED <<scriptVars, flagVars, addQueue, heap, jackVars, oscVars,
                   eventVars, historyVars>>

DropDone ==
    /\ deletedProcessors = <<>>
    /\ \/ ppc = "reposition" /\ ppc' = IF multiplePeriodRestart = 0 THEN "notify"
                                                                   ELSE "ready"
       \/ ppc = "drop" /\ ppc' = "work"
    /\ UNCHANGED <<scriptVars, flagVars, engineVars, multiplePeriodRestart,
                   runningFrame, jackFrame, transport, oscVars, eventVars,
                   historyVars, crashed>>

\* QueueList::getFirst moves what has been added into the list.
GetFirst ==
    /\ activeProcessors' = activeProcessors \cup addQueue
    /\ addQueue' = {}

\* First attempt: reposition() of every processor recycles its events; that of
\* an osc::Output only raises a flag for its thread.
NotifyAll ==
    /\ ppc = "notify"
    /\ GetFirst
    /\ repositionNeeded' = repositionNeeded \cup (activeProcessors' \cap Outputs)
    /\ freshEvents' = freshEvents \ (activeProcessors' \ Outputs)
    /\ staleEvents' = staleEvents \ (activeProcessors' \ Outputs)
    /\ ppc' = "ready"
    /\ UNCHANGED <<scriptVars, flagVars, deletedVars, objectQueue, heap,
                   multiplePeriodRestart, runningFrame, jackFrame, transport,
                   threads, cancelled, historyVars, crashed>>

\* ScriptHost::running() is read; a running script means another attempt.
CheckRunning ==
    /\ ppc = "ready"
    /\ IF runningFlag
       THEN /\ ppc' = "process"
            /\ multiplePeriodRestart' = 1
            /\ UNCHANGED sawWaiting
       ELSE /\ ppc' = "objects"
            /\ sawWaiting' = (spc # "raise")
            /\ UNCHANGED multiplePeriodRestart
    /\ UNCHANGED <<scriptVars, flagVars, engineVars, runningFrame, jackFrame, transport,
                   oscVars, eventVars, unsolicited, crashed>>

\* Mutant: only the processors already in the list are asked.
CheckObjectsUndrained ==
    /\ ppc = "objects"
    /\ IF repositionNeeded \cap activeProcessors # {}
       THEN ppc' = "process" /\ multiplePeriodRestart' = 1
       ELSE ppc' = "restart" /\ UNCHANGED multiplePeriodRestart
    /\ UNCHANGED <<scriptVars, flagVars, engineVars, runningFrame, jackFrame, transport,
                   oscVars, eventVars, historyVars, crashed>>

\* repositionComplete() of every processor; one that is not means another attempt.
CheckObjects ==
    /\ ppc = "objects"
    /\ GetFirst
    /\ IF repositionNeeded \cap activeProcessors' # {}
       THEN ppc' = "process" /\ multiplePeriodRestart' = 1
       ELSE ppc' = "restart" /\ UNCHANGED multiplePeriodRestart
    /\ UNCHANGED <<scriptVars, flagVars, deletedVars, objectQueue, heap,
                   runningFrame, jackFrame, transport, oscVars, eventVars,
                   historyVars, crashed>>

\* ScriptHost::restart() and the end of a successful sync.
RequestRestart ==
    /\ ppc = "restart"
    /\ restartFlag' = TRUE
    /\ unsolicited' = (unsolicited \/ ~sawWaiting)
    /\ multiplePeriodRestart' = 0
    /\ runningFrame' = 0
    /\ transport' = "rolling"
    /\ ppc' = "process"
    /\ UNCHANGED <<scriptVars, runningFlag, engineVars, jackFrame, oscVars,
                   eventVars, sawWaiting, crashed>>

--------------------------------------------------------------------------------
(***************************************************************************)
(* Process thread: the process callback.                                   *)
(***************************************************************************)
ProcessBegin ==
    /\ \/ ppc = "process"
       \/ ppc = "idle" /\ transport = "rolling" /\ spc # "exited"
    /\ runningFrame' = IF transport = "rolling" THEN jackFrame ELSE runningFrame
    /\ ppc' = "drop"
    /\ UNCHANGED <<scriptVars, flagVars, engineVars, multiplePeriodRestart, jackFrame,
                   transport, oscVars, eventVars, historyVars, crashed>>

\* Every processor in the list works; while the transport rolls some of them
\* play all that they have queued.
ProcessAll(played) ==
    /\ ppc = "work"
    /\ GetFirst
    /\ played \subseteq (activeProcessors' \cap Buffered) \ Outputs
    /\ transport # "rolling" => played = {}
    /\ freshEvents' = freshEvents \ played
    /\ staleEvents' = staleEvents \ played
    /\ jackFrame' = IF transport = "rolling" /\ jackFrame < MaxFrame
                    THEN jackFrame + 1 ELSE jackFrame
    /\ ppc' = "idle"
    /\ UNCHANGED <<scriptVars, flagVars, deletedVars, objectQueue, heap,
                   multiplePeriodRestart, runningFrame, transport, oscVars,
                   historyVars, crashed>>

--------------------------------------------------------------------------------
(***************************************************************************)
(* The thread of an osc::Output.                                           *)
(***************************************************************************)
\* Mutant: the flag is only looked at when there is something to send.
OutputResetWhenBusy(p) ==
    /\ p \in (threads \ Pushing) \cap repositionNeeded
    /\ p \in freshEvents \cup staleEvents
    /\ repositionNeeded' = repositionNeeded \ {p}
    /\ UNCHANGED <<scriptVars, flagVars, engineVars, jackVars, threads, cancelled,
                   eventVars, historyVars, crashed>>

\* The flag is cleared; the events stay where they are.
OutputReset(p) ==
    /\ p \in (threads \ Pushing) \cap repositionNeeded
    /\ repositionNeeded' = repositionNeeded \ {p}
    /\ UNCHANGED <<scriptVars, flagVars, engineVars, jackVars, threads, cancelled,
                   eventVars, historyVars, crashed>>

OutputPlay(p) ==
    /\ p \in threads \ Pushing
    /\ p \in freshEvents \cup staleEvents
    /\ freshEvents' = freshEvents \ {p}
    /\ staleEvents' = staleEvents \ {p}
    /\ UNCHANGED <<scriptVars, flagVars, engineVars, jackVars, oscVars,
                   historyVars, crashed>>

\* Mutant: a push that finds no slot is not tried again.
OutputDoneOnce(p) ==
    /\ p \in Retiring \ Pushing
    /\ IF Len(deletedProcessors) < DelCapacity
       THEN Claim(p) /\ UNCHANGED threads
       ELSE threads' = threads \ {p} /\ UNCHANGED deletedVars
    /\ UNCHANGED <<scriptVars, flagVars, addQueue, activeProcessors, objectQueue, heap,
                   jackVars, repositionNeeded, cancelled, eventVars, historyVars, crashed>>

\* The loop ends and the thread itself hands the object to the engine ...
OutputDone(p) ==
    /\ p \in Retiring \ Pushing
    /\ Claim(p)
    /\ UNCHANGED <<scriptVars, flagVars, addQueue, activeProcessors, objectQueue, heap,
                   jackVars, oscVars, eventVars, historyVars, crashed>>

\* ... and is over when it has been pushed.
OutputExit(p) ==
    /\ Store(p)
    /\ threads' = threads \ {p}
    /\ UNCHANGED <<scriptVars, flagVars, addQueue, activeProcessors, objectQueue, heap,
                   jackVars, repositionNeeded, cancelled, eventVars, historyVars, crashed>>

--------------------------------------------------------------------------------
ScriptThread ==
    \/ \E k \in Keys : GetCached(k) \/ GetFails(k) \/ KeepEntry(k) \/ RemoveEntry(k)
                       \/ CancelOutput(k)
    \/ \E k \in Keys, p \in Procs : GetNew(k, p)
    \/ \E p \in Procs : Schedule(p) \/ FreeCollected(p)
    \/ RemoveStored \/ ScriptReturns \/ ScriptFails \/ LeaveScriptComplete \/ Deactivate
    \/ SeeRestart \/ ClearRestart \/ RaiseRunning

ProcessThread ==
    \/ SyncBegin \/ DropDone \/ NotifyAll \/ CheckRunning \/ CheckObjects
    \/ RequestRestart \/ ProcessBegin \/ DropDeleted
    \/ \E played \in SUBSET (Buffered \ Outputs) : ProcessAll(played)

OutputThread ==
    \E p \in Outputs : OutputReset(p) \/ OutputPlay(p) \/ OutputDone(p) \/ OutputExit(p)

Jack == SyncTimeout \/ \E f \in 0..MaxFrame : Locate(f)

Halted == crashed \/ spc \in {"shutdown", "exited"}

\* A crashed or exited program does nothing more.
Rest == (crashed \/ spc = "exited") /\ UNCHANGED vars

Next ==
    \/ ~crashed /\ (ScriptThread \/ ProcessThread \/ OutputThread \/ Jack)
    \/ Rest

(***************************************************************************)
(* The script ends, each thread keeps going, and JACK calls sync in every  *)
(* cycle in which the transport is starting.                               *)
(***************************************************************************)
Fairness ==
    /\ WF_vars(~crashed /\ ScriptReturns)
    /\ WF_vars(~crashed /\ \E k \in Keys : KeepEntry(k) \/ RemoveEntry(k) \/ CancelOutput(k))
    /\ WF_vars(~crashed /\ RemoveStored)
    /\ WF_vars(~crashed /\ (LeaveScriptComplete \/ SeeRestart \/ ClearRestart \/ RaiseRunning))
    /\ WF_vars(~crashed /\ ProcessThread)
    /\ \A p \in Outputs : WF_vars(~crashed /\ OutputReset(p))
    /\ \A p \in Outputs : WF_vars(~crashed /\ OutputDone(p)) /\ WF_vars(~crashed /\ OutputExit(p))

Spec == Init /\ [][Next]_vars
FairSpec == Spec /\ Fairness

--------------------------------------------------------------------------------
ScriptTypes ==
    /\ spc \in {"run", "complete", "wait", "clear", "raise", "shutdown", "exited"}
    /\ instanceMap \in [Keys -> Procs \cup {NoEntry, Null}]
    /\ activeScriptObjects \subseteq Procs
    /\ unvisited \subseteq Keys

FlagTypes == {activeObjects, restartFlag, runningFlag, overlapped, sawWaiting, unsolicited,
              crashed} \subseteq BOOLEAN

EngineTypes ==
    /\ addQueue \subseteq Procs
    /\ activeProcessors \subseteq Procs
    /\ deletedProcessors \in Seq(Procs \cup {Null}) /\ Len(deletedProcessors) <= DelCapacity
    /\ claims \in [Pushing -> 0..DelCapacity] /\ Pushing \subseteq Procs \cup {Null}
    /\ objectQueue \subseteq Procs
    /\ heap \subseteq Procs

JackTypes ==
    /\ ppc \in {"idle", "reposition", "notify", "ready", "objects", "restart",
                "process", "drop", "work"}
    /\ multiplePeriodRestart \in {0, 1}
    /\ runningFrame \in 0..MaxFrame
    /\ jackFrame \in 0..MaxFrame
    /\ transport \in {"rolling", "starting"}

OutputTypes ==
    /\ threads \subseteq Outputs
    /\ repositionNeeded \subseteq Outputs
    /\ cancelled \subseteq Outputs

EventTypes == freshEvents \subseteq Procs /\ staleEvents \subseteq Procs

\* Every variable keeps its type.
TypeOK ==
    ScriptTypes /\ FlagTypes /\ EngineTypes /\ JackTypes /\ OutputTypes /\ EventTypes

Handed == (Pushing \cup Elements(deletedProcessors)) \ {Null}

\* Memory safety of the hand-over (AudioEngine::process, ObjectCollector::free):
\* whatever a thread can still reach, through a cache, a queue, the engine's list
\* or an Output's own thread, has not been deleted, as long as no two threads have
\* been in removeProcessor together, for which its queue is not made.  (Connections
\* between processors are not part of this module.)
NoUseAfterFree ==
    ~overlapped =>
        /\ Cached \cup activeScriptObjects \subseteq heap
        /\ addQueue \cup activeProcessors \cup Handed \subseteq heap
        /\ objectQueue \cup threads \subseteq heap

\* A processor is never lost: as long as it is allocated, a cache offers it, or
\* it is on its way through cancel, deletedProcessors and the collector.  Two threads
\* in removeProcessor together are the exception: the pointer that one of them stores
\* may be overwritten by the other.
NoLeak == ~overlapped => heap \subseteq Cached \cup Retiring \cup Handed \cup objectQueue

\* What a cache gives the script is hosted by the engine: queued for or in its
\* list, exactly once, and not on its way out (ProcessorCache::newObject,
\* removeObject), with the same exception.
CachedIsHosted ==
    ~overlapped =>
        /\ Cached \subseteq addQueue \cup activeProcessors
        /\ addQueue \cap activeProcessors = {}
        /\ Cached \cap (Retiring \cup Handed \cup objectQueue) = {}

\* List::remove finds what it is asked for: a processor is in the engine's list
\* before it is in deletedProcessors, since the restart handshake drains the add
\* queue between the run that creates an object and the run that can drop it.
\* Only an unsolicited restart, the shutdown after a script error and two threads
\* in removeProcessor together escape.
RemovalFindsProcessor ==
    \/ unsolicited
    \/ runningFlag /\ spc \in {"shutdown", "exited"}
    \/ overlapped
    \/ Elements(deletedProcessors) \ {Null} \subseteq activeProcessors

\* restartFlag never stands while the script runs, unless restart() was called
\* after the run it asks for was already due (waitForRestart clears restartFlag
\* before it raises runningFlag).
RestartOnlyWhileWaiting == restartFlag /\ spc = "run" => unsolicited

\* A reposition that could not finish at once finishes, however the script, the
\* Outputs' threads and the removals interleave, unless JACK stops waiting
\* (AudioEngine::sync, multiplePeriodRestart).  An Output that is lost because two
\* threads were in removeProcessor together stays in the list, and nobody is left
\* to take its flag down.
RepositionCompletes ==
    (multiplePeriodRestart # 0)
        ~> (multiplePeriodRestart = 0 \/ transport = "rolling" \/ overlapped \/ Halted)

\* A restart the engine has asked for is followed by a new run of the script.
RestartLeadsToRun == restartFlag ~> (spc = "raise" \/ Halted)

\* As processor.h says of reposition(): it is "called when a reposition has been
\* requested so objects can flush/recycle queued events", so a run starts with
\* no event of an earlier run queued on a processor other than an osc::Output.
RunStartsClean == spc = "run" => staleEvents \ Outputs = {}

\* As objectcache.h says of an entry that was not used: "remove object from map
\* and audio engine".  What the engine is asked to remove is a processor it has.
RemovesProcessorsOnly == ~crashed
================================================================================
