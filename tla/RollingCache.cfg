SPECIFICATION FairSpec
CONSTANTS
    N = 2
    Windows <- MCWindows
    Readers = {r1}
    GroupLimit = 2
    MaxJournal = 1
    MaxFaults = 1
INVARIANTS
    PinHolds
    NoSilentGap
PROPERTIES
    PublishedSurvives
    EventuallyIndexed
    RequestServed
