------------------------------- MODULE Collector --------------------------------
(***************************************************************************)
(* EventBuffer, EventList and ObjectCollector with their links: List keeps *)
(* pointers to its first and last element, and every element a pointer to  *)
(* the next.  An element that has been pushed to objectQueue belongs to    *)
(* the script thread, which may delete it at once; recycleAll and update   *)
(* read its next pointer after the push.  objectQueue takes more memory    *)
(* when the 4096 nodes it starts with are used, so push does not fail.     *)
(*                                                                         *)
(* Undefined behaviour ends the program here: fault says what it was.      *)
(***************************************************************************)
EXTENDS Integers, Sequences, FiniteSets

CONSTANTS
    Events,             \* addresses at which an event may be allocated
    Positions,          \* numbers that stand for musical positions
    NULL,
    Wild,               \* the value of a pointer that was never set
    EventQueueSize      \* bound of eventQueue (2048)

ASSUME SizeAssumption == EventQueueSize \in Nat \ {0}
ASSUME EventAssumption == IsFiniteSet(Events) /\ Positions \subseteq Int
ASSUME PointerAssumption == NULL \notin Events /\ Wild \notin Events /\ NULL # Wild

VARIABLES
    next,           \* Listable::next of every event
    at,             \* its position
    heap,           \* events allocated and not deleted
    eventQueue, objectQueue,
    sortedEvents,   \* [first, last] of the buffer's EventList
    waitingList,    \* [first, last] of the collector's List
    ppc,            \* where the process thread is
    caller,         \* where it returns to when the waiting list is drained
    fault

listVars == <<sortedEvents, waitingList, next>>
vars == <<next, at, heap, eventQueue, objectQueue, sortedEvents, waitingList, ppc, caller,
          fault>>

Pointers == Events \cup {NULL, Wild}
Elements(s) == {s[i] : i \in DOMAIN s}

\* List(): only first is initialised.
EmptyList == [first |-> NULL, last |-> Wild]

Init ==
    /\ next = [e \in Events |-> NULL]
    /\ at \in [Events -> Positions]
    /\ heap = {}
    /\ eventQueue = <<>>
    /\ objectQueue = <<>>
    /\ sortedEvents = EmptyList
    /\ waitingList = EmptyList
    /\ ppc = "idle"
    /\ caller = "idle"
    /\ fault = "none"

--------------------------------------------------------------------------------
(***************************************************************************)
(* Script thread.                                                          *)
(***************************************************************************)
\* EventBuffer::addEvent with a new event.
AddEvent(e, p) ==
    /\ fault = "none"
    /\ e \notin heap
    /\ Len(eventQueue) < EventQueueSize
    /\ heap' = heap \cup {e}
    /\ next' = [next EXCEPT ![e] = NULL]
    /\ at' = [at EXCEPT ![e] = p]
    /\ eventQueue' = Append(eventQueue, e)
    /\ UNCHANGED <<objectQueue, sortedEvents, waitingList, ppc, caller, fault>>

\* One turn of ObjectCollector::free.  When the process thread has yet to read
\* the element's next pointer, that read is a use after free.
Free ==
    /\ fault = "none"
    /\ objectQueue # <<>>
    /\ LET e == Head(objectQueue)
       IN  /\ heap' = heap \ {e}
           /\ fault' = IF ppc = "pop" /\ waitingList.first = e THEN "read" ELSE "none"
    /\ objectQueue' = Tail(objectQueue)
    /\ UNCHANGED <<listVars, at, eventQueue, ppc, caller>>

--------------------------------------------------------------------------------
(***************************************************************************)
(* List and EventList.                                                     *)
(***************************************************************************)
\* The elements from a pointer to the end, as a sequence.
Chain(n, p) ==
    LET links[k \in 0..Cardinality(Events)] ==
            IF k = 0 THEN p
            ELSE IF links[k - 1] \in Events THEN n[links[k - 1]] ELSE links[k - 1]
        length == Cardinality({k \in 0..(Cardinality(Events) - 1) : links[k] \in Events})
    IN  [k \in 1..length |-> links[k - 1]]

LastOf(s) == s[Len(s)]

\* The element after which EventList::insert links a new one, in its last branch.
Before(e) ==
    LET s == Chain(next, sortedEvents.first)
    IN  CHOOSE x \in Elements(s) :
            \E i \in 1..(Len(s) - 1) :
                /\ s[i] = x
                /\ at[s[i + 1]] > at[e]
                /\ \A j \in 1..(i - 1) : at[s[j + 1]] <= at[e]

\* Mutant: the new last element is linked and last not moved.
InsertKeepingLast(e) ==
    IF sortedEvents.first = NULL
    THEN /\ sortedEvents' = [first |-> e, last |-> e]
         /\ UNCHANGED next
    ELSE IF at[sortedEvents.last] <= at[e]
    THEN /\ next' = [next EXCEPT ![sortedEvents.last] = e]
         /\ UNCHANGED sortedEvents
    ELSE IF at[e] < at[sortedEvents.first]
    THEN /\ next' = [next EXCEPT ![e] = sortedEvents.first]
         /\ sortedEvents' = [sortedEvents EXCEPT !.first = e]
    ELSE /\ next' = [next EXCEPT ![e] = next[Before(e)], ![Before(e)] = e]
         /\ UNCHANGED sortedEvents

\* EventList::insert.
Insert(e) ==
    IF sortedEvents.first = NULL
    THEN /\ sortedEvents' = [first |-> e, last |-> e]
         /\ UNCHANGED next
    ELSE IF at[sortedEvents.last] <= at[e]
    THEN /\ next' = [next EXCEPT ![sortedEvents.last] = e]
         /\ sortedEvents' = [sortedEvents EXCEPT !.last = e]
    ELSE IF at[e] < at[sortedEvents.first]
    THEN /\ next' = [next EXCEPT ![e] = sortedEvents.first]
         /\ sortedEvents' = [sortedEvents EXCEPT !.first = e]
    ELSE /\ next' = [next EXCEPT ![e] = next[Before(e)], ![Before(e)] = e]
         /\ UNCHANGED sortedEvents

--------------------------------------------------------------------------------
(***************************************************************************)
(* Process thread.                                                         *)
(***************************************************************************)
\* One turn of EventBuffer::update.
UpdateOne ==
    /\ fault = "none"
    /\ ppc = "idle"
    /\ eventQueue # <<>>
    /\ Insert(Head(eventQueue))
    /\ eventQueue' = Tail(eventQueue)
    /\ UNCHANGED <<at, heap, objectQueue, waitingList, ppc, caller, fault>>

\* Mutant: the test of what push says is inverted, and each element waits as well.
RecycleTwice(e) ==
    /\ objectQueue' = Append(objectQueue, e)
    /\ next' = [next EXCEPT ![e] = waitingList.first]
    /\ waitingList' = [first |-> e,
                       last |-> IF waitingList.first = NULL THEN e ELSE waitingList.last]

\* ObjectCollector::recycle; push takes the element.
Recycle(e) ==
    /\ objectQueue' = Append(objectQueue, e)
    /\ UNCHANGED <<next, waitingList>>

\* getNextEvent takes the first element, which its owner has used or which is
\* too late, and it is recycled once it has left the list.
TakeFirst ==
    /\ fault = "none"
    /\ ppc = "idle"
    /\ sortedEvents.first # NULL
    /\ sortedEvents' = [sortedEvents EXCEPT !.first = next[sortedEvents.first]]
    /\ Recycle(sortedEvents.first)
    /\ UNCHANGED <<at, heap, eventQueue, ppc, caller, fault>>

\* EventBuffer::recycleRemaining: first the incoming queue ...
BeginFlush ==
    /\ fault = "none"
    /\ ppc = "idle"
    /\ ppc' = "flush"
    /\ UNCHANGED <<listVars, at, heap, eventQueue, objectQueue, caller, fault>>

FlushQueue ==
    /\ fault = "none"
    /\ ppc = "flush"
    /\ eventQueue # <<>>
    /\ Recycle(Head(eventQueue))
    /\ eventQueue' = Tail(eventQueue)
    /\ UNCHANGED <<at, heap, sortedEvents, ppc, caller, fault>>

\* Mutant: the events are cleared before they are handed over.
AddAllCleared ==
    /\ fault = "none"
    /\ ppc = "flush"
    /\ eventQueue = <<>>
    /\ sortedEvents' = [sortedEvents EXCEPT !.first = NULL]
    /\ waitingList' = sortedEvents'
    /\ ppc' = "push"
    /\ caller' = "clear"
    /\ UNCHANGED <<next, at, heap, eventQueue, objectQueue, fault>>

\* ... then recycleAll: List::addAll appends the list to the waiting list.
AddAll ==
    /\ fault = "none"
    /\ ppc = "flush"
    /\ eventQueue = <<>>
    /\ IF waitingList.first = NULL
       THEN waitingList' = sortedEvents /\ UNCHANGED next
       ELSE /\ next' = [next EXCEPT ![waitingList.last] = sortedEvents.first]
            /\ waitingList' = [waitingList EXCEPT !.last = sortedEvents.last]
    /\ ppc' = "push"
    /\ caller' = "clear"
    /\ UNCHANGED <<at, heap, eventQueue, objectQueue, sortedEvents, fault>>

\* ObjectCollector::update, at the end of every period.
BeginUpdate ==
    /\ fault = "none"
    /\ ppc = "idle"
    /\ ppc' = "push"
    /\ caller' = "idle"
    /\ UNCHANGED <<listVars, at, heap, eventQueue, objectQueue, fault>>

\* The loop of recycleAll and update: push the first element ...
PushFirst ==
    /\ fault = "none"
    /\ ppc = "push"
    /\ waitingList.first # NULL
    /\ objectQueue' = Append(objectQueue, waitingList.first)
    /\ ppc' = "pop"
    /\ UNCHANGED <<listVars, at, heap, eventQueue, caller, fault>>

\* ... and then take it from the list, by its next pointer.
PopFirst ==
    /\ fault = "none"
    /\ ppc = "pop"
    /\ waitingList' = [waitingList EXCEPT !.first = next[waitingList.first]]
    /\ ppc' = "push"
    /\ UNCHANGED <<next, at, heap, eventQueue, objectQueue, sortedEvents, caller, fault>>

EndPush ==
    /\ fault = "none"
    /\ ppc = "push"
    /\ waitingList.first = NULL
    /\ ppc' = caller
    /\ UNCHANGED <<listVars, at, heap, eventQueue, objectQueue, caller, fault>>

\* Mutant: the list is not cleared.
ClearForgotten ==
    /\ fault = "none"
    /\ ppc = "clear"
    /\ ppc' = "idle"
    /\ UNCHANGED <<listVars, at, heap, eventQueue, objectQueue, caller, fault>>

\* recycleRemaining ends with sortedEvents.clear(), which leaves last alone.
Clear ==
    /\ fault = "none"
    /\ ppc = "clear"
    /\ sortedEvents' = [sortedEvents EXCEPT !.first = NULL]
    /\ ppc' = "idle"
    /\ UNCHANGED <<next, at, heap, eventQueue, objectQueue, waitingList, caller, fault>>

\* Nothing is known of the program after undefined behaviour.
Down ==
    /\ fault # "none"
    /\ UNCHANGED vars

Drain == EndPush \/ PushFirst \/ PopFirst
Flush == FlushQueue \/ AddAll \/ Clear
ProcessThread == UpdateOne \/ TakeFirst \/ BeginFlush \/ Flush \/ BeginUpdate \/ Drain

Next ==
    \/ \E e \in Events, p \in Positions : AddEvent(e, p)
    \/ Free
    \/ ProcessThread
    \/ Down

\* The script thread comes to wait and frees; what the process thread has begun it
\* goes on with.
Fairness ==
    /\ WF_vars(Free)
    /\ WF_vars(Flush \/ Drain)

Spec == Init /\ [][Next]_vars /\ Fairness

--------------------------------------------------------------------------------
Waiting == Elements(Chain(next, waitingList.first))

Held == IF ppc \in {"push", "pop", "clear"} /\ caller = "clear" THEN <<>>
        ELSE Chain(next, sortedEvents.first)

TypeOK ==
    /\ next \in [Events -> Events \cup {NULL}]
    /\ at \in [Events -> Positions]
    /\ heap \subseteq Events
    /\ eventQueue \in Seq(Events) /\ Len(eventQueue) <= EventQueueSize
    /\ objectQueue \in Seq(Events)
    /\ {sortedEvents, waitingList} \subseteq [first : Events \cup {NULL}, last : Pointers]
    /\ ppc \in {"idle", "flush", "push", "pop", "clear"}
    /\ caller \in {"idle", "clear"}
    /\ fault \in {"none", "read"}

\* EventStore is implemented: no event is lost, doubled or out of order, however
\* the links of both lists are spliced, up to the first undefined step.
Store == INSTANCE EventStore WITH
    queued <- eventQueue,
    held <- Held,
    returned <- (Elements(objectQueue) \cup Waiting) \cap heap

Implements == Store!Spec

\* Both lists end at the element last points to, and only at it, so that the next
\* append goes to the end (List::add, List::addAll, EventList::insert).
EndsAtLast(list) ==
    list.first # NULL => list.last = LastOf(Chain(next, list.first)) /\ next[list.last] = NULL

LastIsLast ==
    fault = "none" =>
        /\ ppc \in {"idle", "flush"} => EndsAtLast(sortedEvents)
        /\ EndsAtLast(waitingList)

\* Only the loop of recycleAll has elements that wait, and only it can read the next
\* pointer of one that the script thread has deleted: the loop of update() at the end
\* of every period, and the recycling of single events, race with nobody.
OnlyFlushRaces ==
    waitingList.first # NULL \/ fault = "read" => caller = "clear" /\ ppc \in {"push", "pop"}

\* What is in the program when recycleRemaining begins is deleted in the end, whether
\* it was in the incoming queue, in the list or on its way back, as long as the flush
\* ends: its first loop goes on while the script thread schedules.
FlushDeletes ==
    []<>(ppc # "flush") =>
        \A e \in Events : (ppc = "flush" /\ e \in heap) ~> (e \notin heap \/ fault # "none")

================================================================================
