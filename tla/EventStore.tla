------------------------------- MODULE EventStore -------------------------------
(***************************************************************************)
(* What the event buffer and the collector promise together: an event is   *)
(* queued by the script thread, kept in order of position by the process   *)
(* thread, returned once, and deleted by the script thread.  Collector     *)
(* shows that the linked lists of the code keep this promise.              *)
(***************************************************************************)
EXTENDS Integers, Sequences

CONSTANTS
    Events,         \* addresses at which an event may be allocated
    Positions       \* numbers that stand for musical positions

VARIABLES
    queued,         \* scheduled, not yet seen by the process thread
    held,           \* in the order in which they will be played
    returned,       \* on their way back to the script thread
    at              \* the position of every event

vars == <<queued, held, returned, at>>

Elements(s) == {s[i] : i \in DOMAIN s}
Free == Events \ (Elements(queued) \cup Elements(held) \cup returned)

Init ==
    /\ queued = <<>>
    /\ held = <<>>
    /\ returned = {}
    /\ at \in [Events -> Positions]

Schedule(e, p) ==
    /\ e \in Free
    /\ queued' = Append(queued, e)
    /\ at' = [at EXCEPT ![e] = p]
    /\ UNCHANGED <<held, returned>>

\* An event comes after all those that are not later than itself.
Keep ==
    /\ queued # <<>>
    /\ \E n \in 0..Len(held) :
          /\ \A i \in 1..n : at[held[i]] <= at[Head(queued)]
          /\ \A i \in (n + 1)..Len(held) : at[held[i]] > at[Head(queued)]
          /\ held' = SubSeq(held, 1, n) \o <<Head(queued)>> \o SubSeq(held, n + 1, Len(held))
    /\ queued' = Tail(queued)
    /\ UNCHANGED <<returned, at>>

Return ==
    /\ held # <<>>
    /\ returned' = returned \cup {Head(held)}
    /\ held' = Tail(held)
    /\ UNCHANGED <<queued, at>>

ReturnQueued ==
    /\ queued # <<>>
    /\ returned' = returned \cup {Head(queued)}
    /\ queued' = Tail(queued)
    /\ UNCHANGED <<held, at>>

ReturnAll ==
    /\ held # <<>>
    /\ returned' = returned \cup Elements(held)
    /\ held' = <<>>
    /\ UNCHANGED <<queued, at>>

Delete(e) ==
    /\ e \in returned
    /\ returned' = returned \ {e}
    /\ UNCHANGED <<queued, held, at>>

Next ==
    \/ \E e \in Events, p \in Positions : Schedule(e, p)
    \/ Keep
    \/ Return
    \/ ReturnQueued
    \/ ReturnAll
    \/ \E e \in Events : Delete(e)

Spec == Init /\ [][Next]_vars

================================================================================
