SPECIFICATION FairSpec
CONSTANTS
    p1 = p1
    N = 2
    Seeded = 1
    Persons = {p1}
    PersonOf <- MCPersonOf
    Workers = {w1, w2}
    Operators = {}
    BatchSize = 2
    MaxAttempts = 2
    MaxChanges = 2
    MaxCommands = 0
    MaxFaults = 2
INVARIANTS
    CompletedMeansIndexed
PROPERTIES
    RowsSettle
