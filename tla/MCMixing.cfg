CONSTANTS
    c1 = c1
    c2 = c2
    NULL = NULL
    Conns <- MCConns
    Inputs <- MCInputs
    Offsets <- MCOffsets
    Cells = {g}
    g = g
    ConnQueueSize = 1
    MapQueueSize = 1
    Frames = 2
    Grace = 1
    MaxEvents = 2
    Gains = {1000}
    Ccs = {1}
SPECIFICATION Spec
INVARIANTS
    ConnectionsAccounted
    MappingsLive
    GainsApplied
    ControlsApplied
    CountsSet
PROPERTIES
    ControllerAdded
