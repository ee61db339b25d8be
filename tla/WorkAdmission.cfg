SPECIFICATION StopSpec
CONSTANTS
    Jobs = {j1, j2}
    Sources = {s1, s2}
    NoSource = NoSource
    LaneWorkers <- MCWorkers
    LaneQueue <- MCQueue
    MaxActive = 2
    ReservedNonImage = 1
    SourceLimit = 1
    MaxRows = 2
    CompletionFaults = TRUE
    SignalsInterrupt = FALSE
INVARIANTS
    NoOrphan
    StopReleases
PROPERTIES
    ShutdownStops
    AttemptsEnd
