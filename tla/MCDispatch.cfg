CONSTANTS
    a1 = a1
    a2 = a2
    m1 = m1
    NULL = NULL
    Kinds <- MCKinds
    ClosureWords <- MCClosureWords
    Asyncs <- MCAsyncs
    Messages <- MCMessages
    DispatchSize = 2
    EventQueueSize = 1
    PoolWords = 7
    SlLog2 = 1
SPECIFICATION Spec
INVARIANTS
    PoolSound
    ClosuresAccounted
    RingIsFifo
    FaultsExplained
PROPERTIES
    DispatchReturns
CHECK_DEADLOCK FALSE
