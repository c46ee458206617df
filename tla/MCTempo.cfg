CONSTANTS
    Tempi = {3}
    Signatures = {1, 2}
    TicksPerBeat = 3
    FrameRate = 3
    Seconds = 1
    MaxBar = 1
SPECIFICATION Spec
INVARIANTS
    TrackerHasMaster
    PositionSound
PROPERTIES
    NeverBack
    StartsOnBeat
    CountInStarts
    SilenceStops
