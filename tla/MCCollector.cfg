CONSTANTS
    e1 = e1
    e2 = e2
    e3 = e3
    NULL = NULL
    Wild = Wild
    Events <- MCEvents
    Positions <- MCPositions
    EventQueueSize = 2
SPECIFICATION Spec
INVARIANTS
    LastIsLast
    OnlyFlushRaces
PROPERTIES
    Implements
    FlushDeletes
