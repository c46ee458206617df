SPECIFICATION Spec
CONSTANTS
    Class <- MCClass
    Package <- MCPackage
    Pushed <- MCPushed
    Followed <- MCFollowed
    Slots = {s1, s2, s3}
    Bound <- MCBound
    OtherKinds <- MCOtherKinds
    Pitches <- MCPitches
    TimeBases <- MCTimeBases
    Amounts <- MCAmounts
    MaxNotes = 2
    MMLTexts <- MCMMLTexts
    ABCTexts <- MCABCTexts
    DrumTexts <- MCDrumTexts
    MMLStudies <- MCMMLStudies
    ABCStudies <- MCABCStudies
    Word = 32768
    MAX_DENOMINATOR = 100
    TicksPerQuarter = 12
    NoteDelay = 1
    QSIZE = 4
    bticks = 12
    MML_WORK_BUFFER_SIZE = 8
    MML_STACK_MAX_DEPTH = 2
    MaxFetches = 40
    TicksPerBar = 48
    MAX_CHORD_SIZE = 2
    Division = 12
    abcmidi <- ABCCalls
    Untouched <- Globals
INVARIANTS
    CallsSound
    InstancesSound
    ReadsFaithful
PROPERTY LifetimesExplained
SYMMETRY Symmetry
CHECK_DEADLOCK FALSE
