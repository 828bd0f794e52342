SPECIFICATION Spec
CONSTANTS
    Chains <- MCChains
    Spaces <- MCSpaces
    MaxCount = 2
    MaxId = 3
    MaxDeliveries = 3
    EXPORT_MAX_DISPLACEMENT = 1
INVARIANTS
    TypeOK
    OneFramePerAddress
    ProfileIsRecording
    NamesExact
CHECK_DEADLOCK FALSE
