SPECIFICATION Spec
CONSTANTS
    k1 = k1
    k2 = k2
    p1 = p1
    p2 = p2
    o1 = o1
    NoEntry = NoEntry
    Null = Null
    Keys <- MCKeys
    OscKeys <- MCOscKeys
    Procs <- MCProcs
    Outputs <- MCOutputs
    Buffered = {}
    FailingKeys <- MCPluginKeys
    AddCapacity = 2
    DelCapacity = 1
    MaxFrame = 1
INVARIANT RemovesProcessorsOnly
