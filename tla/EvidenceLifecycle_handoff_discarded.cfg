SPECIFICATION Spec
CONSTANTS
    w1 = w1
    w2 = w2
    Workers <- MCWorkers
    LeaseTicks = 1
    RetryTicks = 1
    ReadyTicks = 0
    DeadlineTicks = 1
    MaxGeneration = 2
    MaxFaults = 1
    MaxRejections = 0
    HeartbeatFaults = FALSE
    ProjectionFaults = TRUE
PROPERTY
    PendingHandoffNotDiscarded
