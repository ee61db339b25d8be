SPECIFICATION Spec
CONSTANTS
    p1 = p1
    N = 3
    Seeded = 2
    Persons = {p1}
    PersonOf <- MCPersonOf
    Workers = {w1}
    Operators = {o1}
    BatchSize = 2
    MaxAttempts = 1
    MaxChanges = 2
    MaxCommands = 2
    MaxFaults = 1
INVARIANTS
    CommandRepairs
    CompletedMeansIndexed
