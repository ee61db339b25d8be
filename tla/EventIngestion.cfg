SPECIFICATION FairSpec
CONSTANTS
    Workers = {w1, w2}
    Sids = {"bad", "a", "b"}
    Stream <- MCStream
    Sources = {"cam1", "cam2"}
    Keys = {"k"}
    SourceOf <- MCSourceOf
    KeyOf <- MCKeyOf
    TsOf <- MCTsOf
    Poison = {"bad"}
    BatchSize = 2
    AlertCooldown = 1
    RecordCooldown = 1
    MaxRequests = 2
    Reserved = 0
    SharedLimit = 1
    MaxFaults = 1
INVARIANTS
    AlertOnce
    RequestOnce
    SuppressedHasCause
    EvidenceAccounted
PROPERTIES
    AckImpliesStored
    EventuallyStored
