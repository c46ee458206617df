-------------------------------- MODULE Dispatch --------------------------------
(***************************************************************************)
(* The way of a script function to its execution.  The process thread and  *)
(* liblo's server thread make closures and push them to MethodQueue, the   *)
(* script thread executes them while it waits for a restart.               *)
(*                                                                         *)
(* An EventClosure lives in the TLSF pool and is named by its block; the   *)
(* script thread hands it back through processCollector.  An AsyncClosure  *)
(* of Transport::schedule comes from the script and travels through the    *)
(* transport's event buffer first.  An OnReceiveClosure is made by liblo's *)
(* thread.  The dispatch queue is a ring with one index for each side.     *)
(***************************************************************************)
EXTENDS Tlsf

CONSTANTS
    Kinds,              \* kinds of events that have a handler
    ClosureWords,       \* the size of the closure of each kind
    Asyncs, Messages,   \* addresses for AsyncClosures and OnReceiveClosures
    NULL,
    DispatchSize,       \* bound of dispatchQueue (512)
    EventQueueSize      \* bound of the transport's eventQueue (2048)

ASSUME KindAssumption == ClosureWords \in [Kinds -> Nat \ {0}]

\* Every closure has an address of its own, and a pool that is all free has room for
\* a closure of any kind.
ASSUME AddressAssumption ==
    /\ NULL \notin (0..PoolWords) \cup Asyncs \cup Messages
    /\ Asyncs \cap Messages = {}
    /\ (Asyncs \cup Messages) \cap (0..PoolWords) = {}
ASSUME RoomAssumption == \A kind \in Kinds : Located(Create, ClosureWords[kind]) # NoBlock

ASSUME QueueAssumption == DispatchSize \in Nat \ {0} /\ EventQueueSize \in Nat \ {0}

VARIABLES
    slots, readIndex, writeIndex,   \* dispatchQueue
    pc, hand, claimed,              \* each producer: place, closure, index it has read
    pool,                           \* MemoryPool::processPool
    objectQueue,                    \* processCollector
    handlers,                       \* kinds with a handler
    onReceiveHandler,               \* "wild" until it is stored for the first time
    eventQueue, sortedEvents,       \* the transport's event buffer
    asyncHeap, messageHeap,         \* closures allocated and not deleted
    returned,                       \* AsyncClosures in scriptCollector
    spc, adding, closure,           \* the script thread, what it schedules, what it executes
    restartFlag,
    pending,                        \* closures dispatched and not executed, in order (until overlapped)
    overlapped,                     \* both producers have been in push at the same time
    fault

queueVars == <<slots, readIndex, writeIndex, pending, overlapped>>
producerVars == <<pc, hand, claimed>>
closureVars == <<pool, objectQueue, asyncHeap, messageHeap, returned>>
bufferVars == <<eventQueue, sortedEvents>>
scriptVars == <<spc, adding, closure, restartFlag, handlers, onReceiveHandler>>
vars == <<queueVars, producerVars, closureVars, bufferVars, scriptVars, fault>>

Producers == {"process", "liblo"}
Closures == (0..PoolWords) \cup Asyncs \cup Messages \cup {NULL}
Elements(s) == {s[i] : i \in DOMAIN s}
After(i) == IF i = DispatchSize THEN 0 ELSE i + 1
Full == After(writeIndex) = readIndex

\* How many slots are in use, and which is the k-th of them.
InUse == IF readIndex <= writeIndex THEN writeIndex - readIndex
         ELSE writeIndex - readIndex + DispatchSize + 1
Slot(k) == IF readIndex + k <= DispatchSize THEN readIndex + k ELSE readIndex + k - DispatchSize - 1

\* The closures between the two indices, as next() would return them.
Ring == [i \in 1..InUse |-> slots[Slot(i - 1)]]

Init ==
    /\ slots = [i \in 0..DispatchSize |-> NULL]
    /\ readIndex = 0 /\ writeIndex = 0
    /\ pc = [p \in Producers |-> "idle"]
    /\ hand = [p \in Producers |-> NULL]
    /\ claimed = [p \in Producers |-> 0]
    /\ pool = Create
    /\ objectQueue = <<>>
    /\ handlers = {}
    /\ onReceiveHandler = "wild"
    /\ eventQueue = <<>>
    /\ sortedEvents = {}
    /\ asyncHeap = {} /\ messageHeap = {} /\ returned = {}
    /\ spc = "run" /\ adding = NULL /\ closure = NULL
    /\ restartFlag = FALSE
    /\ pending = <<>>
    /\ overlapped = FALSE
    /\ fault = "none"

--------------------------------------------------------------------------------
(***************************************************************************)
(* Script thread.  Script code runs in a run and in an executed closure.   *)
(***************************************************************************)
ScriptCode == fault = "none" /\ spc \in {"run", "execute"} /\ adding = NULL

\* Bound: when two producers have met in push, what they stored is still consumed
\* but no thread starts anything new.
Undamaged == fault = "none" /\ ~overlapped

\* onControl, onNoteOn, onBeat ...: a handler is stored and never taken back.
SetHandler(kind) ==
    /\ ScriptCode
    /\ Undamaged
    /\ handlers' = handlers \cup {kind}
    /\ UNCHANGED <<queueVars, producerVars, closureVars, bufferVars, spc, adding, closure,
                   restartFlag, onReceiveHandler, fault>>

OnReceive ==
    /\ ScriptCode
    /\ Undamaged
    /\ onReceiveHandler' = "set"
    /\ UNCHANGED <<queueVars, producerVars, closureVars, bufferVars, spc, adding, closure,
                   restartFlag, handlers, fault>>

\* Transport::schedule makes a closure; addEvent then spins until there is room.
Schedule(a) ==
    /\ ScriptCode
    /\ Undamaged
    /\ a \notin asyncHeap
    /\ asyncHeap' = asyncHeap \cup {a}
    /\ adding' = a
    /\ UNCHANGED <<queueVars, producerVars, bufferVars, pool, objectQueue, messageHeap, returned,
                   spc, closure, restartFlag, handlers, onReceiveHandler, fault>>

AddEvent ==
    /\ fault = "none"
    /\ adding # NULL
    /\ Len(eventQueue) < EventQueueSize
    /\ eventQueue' = Append(eventQueue, adding)
    /\ adding' = NULL
    /\ UNCHANGED <<queueVars, producerVars, closureVars, sortedEvents, spc, closure, restartFlag,
                   handlers, onReceiveHandler, fault>>

EndRun ==
    /\ ScriptCode
    /\ spc = "run"
    /\ spc' = "wait"
    /\ UNCHANGED <<queueVars, producerVars, closureVars, bufferVars, adding, closure, restartFlag,
                   handlers, onReceiveHandler, fault>>

\* waitForRestart: the flag is looked at first, then the queue is emptied.
SeeRestart ==
    /\ fault = "none"
    /\ spc = "wait"
    /\ restartFlag
    /\ restartFlag' = FALSE
    /\ spc' = "run"
    /\ UNCHANGED <<queueVars, producerVars, closureVars, bufferVars, adding, closure, handlers,
                   onReceiveHandler, fault>>

\* Mutant: it only sleeps until the restart.
NoRestartAsleep ==
    /\ fault = "none"
    /\ spc = "wait"
    /\ ~restartFlag
    /\ UNCHANGED vars

NoRestart ==
    /\ fault = "none"
    /\ spc = "wait"
    /\ ~restartFlag
    /\ spc' = "next"
    /\ UNCHANGED <<queueVars, producerVars, closureVars, bufferVars, adding, closure, restartFlag,
                   handlers, onReceiveHandler, fault>>

Live(c) == c \in Used(pool) \cup asyncHeap \cup messageHeap

\* What a slot gives to the reader: one that was read before or never written is NULL
\* in the model and may hold any address.
Contents(i) == IF slots[i] = NULL THEN Closures \ {NULL} ELSE {slots[i]}

\* The call of a closure; one that is not there any more is undefined behaviour.
Call(c) ==
    IF Live(c)
    THEN closure' = c /\ spc' = "execute" /\ UNCHANGED fault
    ELSE fault' = "garbage" /\ UNCHANGED <<closure, spc>>

\* Mutant: the queue is a stack, and gives back what was pushed last.
NextMethodNewest ==
    /\ fault = "none"
    /\ spc = "next"
    /\ readIndex # writeIndex
    /\ writeIndex' = Slot(InUse - 1)
    /\ slots' = [slots EXCEPT ![Slot(InUse - 1)] = NULL]
    /\ pending' = IF overlapped THEN pending ELSE Tail(pending)
    /\ \E c \in Contents(Slot(InUse - 1)) : Call(c)
    /\ UNCHANGED <<readIndex, overlapped, producerVars, closureVars, bufferVars, adding,
                   restartFlag, handlers, onReceiveHandler>>

\* Mutant: what pop leaves in the variable is used without looking at its result.
NextMethodUnchecked ==
    /\ fault = "none"
    /\ spc = "next"
    /\ readIndex' = IF readIndex = writeIndex THEN readIndex ELSE After(readIndex)
    /\ slots' = [slots EXCEPT ![readIndex] = NULL]
    /\ pending' = IF overlapped \/ pending = <<>> THEN pending ELSE Tail(pending)
    /\ \E c \in Contents(readIndex) : Call(c)
    /\ UNCHANGED <<writeIndex, overlapped, producerVars, closureVars, bufferVars, adding,
                   restartFlag, handlers, onReceiveHandler>>

\* MethodQueue::next and the call that follows it.
NextMethod ==
    /\ fault = "none"
    /\ spc = "next"
    /\ readIndex # writeIndex
    /\ readIndex' = After(readIndex)
    /\ slots' = [slots EXCEPT ![readIndex] = NULL]
    /\ pending' = IF overlapped THEN pending ELSE Tail(pending)
    /\ \E c \in Contents(readIndex) : Call(c)
    /\ UNCHANGED <<writeIndex, overlapped, producerVars, closureVars, bufferVars, adding,
                   restartFlag, handlers, onReceiveHandler>>

\* Mutant: the script thread deletes an EventClosure itself.
RecycleAtOnce ==
    /\ ScriptCode
    /\ spc = "execute"
    /\ spc' = "next"
    /\ closure' = NULL
    /\ pool' = IF closure \in Used(pool) THEN FreeBlock(pool, closure) ELSE pool
    /\ objectQueue' = IF closure \in Used(pool) THEN Append(objectQueue, closure) ELSE objectQueue
    /\ asyncHeap' = asyncHeap \ {closure}
    /\ messageHeap' = messageHeap \ {closure}
    /\ UNCHANGED <<queueVars, producerVars, bufferVars, returned, adding, restartFlag, handlers,
                   onReceiveHandler, fault>>

\* The closure has been executed; recycle() depends on where it was made.
Recycle ==
    /\ ScriptCode
    /\ spc = "execute"
    /\ spc' = "next"
    /\ closure' = NULL
    /\ objectQueue' = IF closure \in Used(pool) THEN Append(objectQueue, closure) ELSE objectQueue
    /\ asyncHeap' = asyncHeap \ {closure}
    /\ messageHeap' = messageHeap \ {closure}
    /\ UNCHANGED <<queueVars, producerVars, bufferVars, pool, returned, adding, restartFlag,
                   handlers, onReceiveHandler, fault>>

\* The queue is empty: scriptCollector().free(), sleep, and look again.
EndMethods ==
    /\ fault = "none"
    /\ spc = "next"
    /\ readIndex = writeIndex
    /\ asyncHeap' = asyncHeap \ returned
    /\ returned' = {}
    /\ spc' = "wait"
    /\ UNCHANGED <<queueVars, producerVars, bufferVars, pool, objectQueue, messageHeap, adding,
                   closure, restartFlag, handlers, onReceiveHandler, fault>>

--------------------------------------------------------------------------------
(***************************************************************************)
(* dispatch(): push reads the write index and checks for room, then stores *)
(* the closure and the next index.  It spins while there is no room.       *)
(***************************************************************************)
Claim(p) ==
    /\ fault = "none"
    /\ pc[p] = "dispatch"
    /\ ~Full
    /\ pc' = [pc EXCEPT ![p] = "store"]
    /\ claimed' = [claimed EXCEPT ![p] = writeIndex]
    /\ overlapped' = (overlapped \/ \E q \in Producers \ {p} : pc[q] = "store")
    /\ pending' = IF overlapped' THEN <<>> ELSE pending
    /\ UNCHANGED <<slots, readIndex, writeIndex, hand, closureVars, bufferVars, scriptVars, fault>>

Store(p) ==
    /\ fault = "none"
    /\ pc[p] = "store"
    /\ slots' = [slots EXCEPT ![claimed[p]] = hand[p]]
    /\ writeIndex' = After(claimed[p])
    /\ pending' = IF overlapped THEN pending ELSE Append(pending, hand[p])
    /\ pc' = [pc EXCEPT ![p] = "idle"]
    /\ hand' = [hand EXCEPT ![p] = NULL]
    /\ claimed' = [claimed EXCEPT ![p] = 0]
    /\ UNCHANGED <<readIndex, overlapped, closureVars, bufferVars, scriptVars, fault>>

Take(p, c) ==
    /\ hand' = [hand EXCEPT ![p] = c]
    /\ pc' = [pc EXCEPT ![p] = "dispatch"]

--------------------------------------------------------------------------------
(***************************************************************************)
(* Process thread.                                                         *)
(***************************************************************************)
ProcessIdle == Undamaged /\ pc["process"] = "idle"

\* fireEvents, or a tracker: operator new does not check what the pool returns.
FireHandler(kind) ==
    /\ ProcessIdle
    /\ kind \in handlers
    /\ IF Located(pool, ClosureWords[kind]) = NoBlock
       THEN /\ fault' = "null"
            /\ UNCHANGED <<pool, hand, pc>>
       ELSE /\ pool' = Malloc(pool, ClosureWords[kind])
            /\ Take("process", Located(pool, ClosureWords[kind]))
            /\ UNCHANGED fault
    /\ UNCHANGED <<queueVars, claimed, objectQueue, asyncHeap, messageHeap, returned, bufferVars,
                   scriptVars>>

\* Transport::doProcess: events are fetched, and dispatched when they are due.
FetchEvent ==
    /\ ProcessIdle
    /\ eventQueue # <<>>
    /\ sortedEvents' = sortedEvents \cup {Head(eventQueue)}
    /\ eventQueue' = Tail(eventQueue)
    /\ UNCHANGED <<queueVars, producerVars, closureVars, scriptVars, fault>>

FireAsync(a) ==
    /\ ProcessIdle
    /\ a \in sortedEvents
    /\ sortedEvents' = sortedEvents \ {a}
    /\ Take("process", a)
    /\ UNCHANGED <<queueVars, claimed, closureVars, eventQueue, scriptVars, fault>>

\* An event that is already late is dropped: it goes back as one that has been given
\* back does, and is deleted by the script thread.
DropEvent(a) ==
    /\ ProcessIdle
    /\ a \in sortedEvents
    /\ sortedEvents' = sortedEvents \ {a}
    /\ returned' = returned \cup {a}
    /\ UNCHANGED <<queueVars, producerVars, pool, objectQueue, asyncHeap, messageHeap, eventQueue,
                   scriptVars, fault>>

\* Mutant: the block is freed again by the next period.
FreeClosureTwice ==
    /\ ProcessIdle
    /\ objectQueue # <<>>
    /\ pool' = FreeBlock(pool, Head(objectQueue))
    /\ UNCHANGED <<queueVars, producerVars, objectQueue, asyncHeap, messageHeap, returned,
                   bufferVars, scriptVars, fault>>

\* One turn of processCollector().free().
FreeClosure ==
    /\ ProcessIdle
    /\ objectQueue # <<>>
    /\ pool' = FreeBlock(pool, Head(objectQueue))
    /\ objectQueue' = Tail(objectQueue)
    /\ UNCHANGED <<queueVars, producerVars, asyncHeap, messageHeap, returned, bufferVars,
                   scriptVars, fault>>

\* The transport moves back: Transport::reposition gives its events back, and the
\* script is restarted when it does not run.  MethodQueue is left as it is.
Reposition ==
    /\ ProcessIdle
    /\ returned' = returned \cup sortedEvents \cup Elements(eventQueue)
    /\ eventQueue' = <<>>
    /\ sortedEvents' = {}
    /\ restartFlag' = (restartFlag \/ spc \in {"wait", "next", "execute"})
    /\ UNCHANGED <<queueVars, producerVars, pool, objectQueue, asyncHeap, messageHeap, spc,
                   adding, closure, handlers, onReceiveHandler, fault>>

--------------------------------------------------------------------------------
(***************************************************************************)
(* liblo's server thread: Input::handle.                                   *)
(***************************************************************************)
Receive(m) ==
    /\ Undamaged
    /\ pc["liblo"] = "idle"
    /\ onReceiveHandler = "set"
    /\ m \notin messageHeap
    /\ messageHeap' = messageHeap \cup {m}
    /\ Take("liblo", m)
    /\ UNCHANGED <<queueVars, claimed, pool, objectQueue, asyncHeap, returned, bufferVars,
                   scriptVars, fault>>

\* A message that comes before onReceive: the pointer was never initialised.
\* Where it happens to be null nothing is dispatched.
ReceiveEarly ==
    /\ Undamaged
    /\ pc["liblo"] = "idle"
    /\ onReceiveHandler = "wild"
    /\ fault' = "handler"
    /\ UNCHANGED <<queueVars, producerVars, closureVars, bufferVars, scriptVars>>

Down ==
    /\ fault # "none"
    /\ UNCHANGED vars

ScriptThread ==
    \/ \E kind \in Kinds : SetHandler(kind)
    \/ \E a \in Asyncs : Schedule(a)
    \/ OnReceive \/ AddEvent \/ EndRun \/ SeeRestart \/ NoRestart
    \/ NextMethod \/ Recycle \/ EndMethods

ProcessThread ==
    \/ \E kind \in Kinds : FireHandler(kind)
    \/ \E a \in Asyncs : FireAsync(a) \/ DropEvent(a)
    \/ FetchEvent \/ FreeClosure \/ Reposition
    \/ Claim("process") \/ Store("process")

LibloThread ==
    \/ \E m \in Messages : Receive(m)
    \/ ReceiveEarly
    \/ Claim("liblo") \/ Store("liblo")

Next == ScriptThread \/ ProcessThread \/ LibloThread \/ Down

\* Runs and executed closures end; the script thread goes on unless it spins; the
\* process thread ends its push and fetches events in every period.
Fairness ==
    /\ WF_vars(AddEvent) /\ WF_vars(EndRun) /\ WF_vars(SeeRestart) /\ WF_vars(NoRestart)
    /\ WF_vars(NextMethod) /\ WF_vars(Recycle) /\ WF_vars(EndMethods)
    /\ SF_vars(Claim("process")) /\ WF_vars(Store("process"))
    /\ SF_vars(FetchEvent)
    /\ WF_vars(Store("liblo"))

Spec == Init /\ [][Next]_vars /\ Fairness

--------------------------------------------------------------------------------
TypeOK ==
    /\ slots \in [0..DispatchSize -> Closures]
    /\ {readIndex, writeIndex} \subseteq 0..DispatchSize
    /\ pc \in [Producers -> {"idle", "dispatch", "store"}]
    /\ hand \in [Producers -> Closures]
    /\ claimed \in [Producers -> 0..DispatchSize]
    /\ objectQueue \in Seq(0..PoolWords)
    /\ handlers \subseteq Kinds
    /\ onReceiveHandler \in {"wild", "set"}
    /\ eventQueue \in Seq(Asyncs) /\ Len(eventQueue) <= EventQueueSize
    /\ sortedEvents \cup asyncHeap \cup returned \subseteq Asyncs
    /\ messageHeap \subseteq Messages
    /\ spc \in {"run", "wait", "next", "execute"}
    /\ adding \in Asyncs \cup {NULL} /\ closure \in Closures
    /\ pending \in Seq(Closures)
    /\ {restartFlag, overlapped} \subseteq BOOLEAN
    /\ fault \in {"none", "null", "garbage", "handler"}

\* The allocator keeps its own consistency checks (tlsf_check, tlsf_check_pool)
\* through every order of allocations and frees that dispatching can produce.
PoolSound == Partition(pool) /\ ListsAccurate(pool)

\* How often a closure is held somewhere.
Places(c) ==
    Cardinality({i \in DOMAIN Ring : Ring[i] = c}) + Cardinality({p \in Producers : hand[p] = c})
    + Cardinality({i \in DOMAIN objectQueue : objectQueue[i] = c})
    + Cardinality({i \in DOMAIN eventQueue : eventQueue[i] = c})
    + (IF closure = c THEN 1 ELSE 0) + (IF adding = c THEN 1 ELSE 0)
    + (IF c \in sortedEvents THEN 1 ELSE 0) + (IF c \in returned THEN 1 ELSE 0)

\* A closure is in one place from its creation to its deletion: never lost in a
\* queue, never executed or freed twice - as long as liblo's thread and the process
\* thread have not been in push together, for which the queue is not made.
ClosuresAccounted ==
    ~overlapped /\ fault = "none" =>
        \A c \in Closures \ {NULL} : Places(c) = IF Live(c) THEN 1 ELSE 0

\* The ring holds what has been dispatched and not executed, in that order.
RingIsFifo == ~overlapped => Ring = pending

\* What brings the program down: a message before onReceive, two producers in
\* push, or a pool that has run out of room because closures are still out.
FaultsExplained ==
    /\ fault = "garbage" => overlapped
    /\ fault = "handler" => onReceiveHandler = "wild"
    /\ fault = "null" => Used(pool) # {}

\* Each of two threads spins for room that only the other can make.
MutualWait ==
    /\ pc["process"] = "dispatch" /\ Full
    /\ adding # NULL /\ Len(eventQueue) = EventQueueSize

\* The process thread, which must not wait, comes back from dispatch() unless the
\* script thread at the same time waits for it.
DispatchReturns ==
    (pc["process"] = "dispatch") ~> (pc["process"] # "dispatch" \/ MutualWait \/ fault # "none")

================================================================================
