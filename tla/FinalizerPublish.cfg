SPECIFICATION FairSpec
CONSTANTS
    Finalizers = {f1, f2}
    MaxGeneration = 3
    MaxFaults = 2
INVARIANTS
    CommittedClipOnDisk
    InputUntilOutcome
    AttemptAccounted
PROPERTIES
    PublishedNotOverwritten
    FollowUpSettles
CHECK_DEADLOCK FALSE
