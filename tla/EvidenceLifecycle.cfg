SPECIFICATION FairSpec
CONSTANTS
    w1 = w1
    w2 = w2
    Workers <- MCWorkers
    LeaseTicks = 1
    RetryTicks = 1
    ReadyTicks = 1
    DeadlineTicks = 3
    MaxGeneration = 2
    MaxFaults = 1
    MaxRejections = 1
    HeartbeatFaults = TRUE
    ProjectionFaults = TRUE
INVARIANTS
    TypeOK
    RowShape
    SoleHolder
    EventFollowsTask
PROPERTIES
    TerminalAbsorbing
    HandoffSurvives
    FreshFence
    ImplementsEvidenceTask
    NoStall
