SPECIFICATION Spec
CONSTANTS
    Events = {e1, e2, e3}
    QueueSize = 2
    UpdateMax = 1
    Grace = 1
    Period = 2
    MaxFrame = 4
SYMMETRY MCSymmetry
INVARIANTS
    Sorted
    Stable
    OnePlace
    TimelyEventsPlay
    WrittenInOrder
