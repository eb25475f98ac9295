SPECIFICATION MNPFairSpec
CONSTANTS
    MaxBytes = 3
    FrameSize = 2
    Capacity = 2
    CommandSize = 2
    IndexSpan = 4
    Credits = 2
    MaxFaults = 1
INVARIANTS
    BothStreams
    AckMeansReceived
PROPERTIES
    NewtonGoesOn
    FlushedArrives
CHECK_DEADLOCK FALSE
