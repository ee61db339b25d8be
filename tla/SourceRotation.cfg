SPECIFICATION Spec
CONSTANTS
    a = a
    b = b
    Sources = {a, b}
    TaskSource <- MCSource
    TaskPriority <- MCPriority
    Processes = {p1, p2}
    Workers = 1
    MaxPerPoll = 16
    SourceLimit = 1
    MaxDeferrals = 1
    MaxFaults = 1
    BudgetPressure = TRUE
INVARIANTS
    BoundedOvertaking
