SPECIFICATION FairSpec
CONSTANTS
    Workers = {w1, w2}
    Events = {e1}
    Sources = {"cam"}
    SourceOf <- MCSourceOf
    MaxGlobal = 1
    MaxPerSource = 1
    MaxFaults = 1
INVARIANTS
    AtMostOneReplayJob
    AbortedHasNoJob
    AckHasOutcome
PROPERTIES
    RequestsSettle
