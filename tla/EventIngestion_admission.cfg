SPECIFICATION Spec
CONSTANTS
    Workers = {w1, w2}
    Sids = {"a","b","c","d","e","f"}
    Stream <- MCBurst
    Sources = {"cam1", "cam2"}
    Keys = {"k"}
    SourceOf <- MCSourceOf
    KeyOf <- MCKeyOf
    TsOf <- MCSameTs
    Poison = {}
    BatchSize = 1
    AlertCooldown = 0
    RecordCooldown = 1
    MaxRequests = 2
    Reserved = 1
    SharedLimit = 1
    MaxFaults = 0
INVARIANTS
    SharedPoolBounded
