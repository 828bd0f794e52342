SPECIFICATION FairSpec
CONSTANTS
    Size = 5
    MaxHead = 11
    Chains <- MCChains
INVARIANTS
    TypeOK
    UnreadIntact
    NoReadWriteRace
    InStep
    FinalDrainComplete
PROPERTIES
    ImplementsQueue
    PublishedIsReleased
CHECK_DEADLOCK FALSE
