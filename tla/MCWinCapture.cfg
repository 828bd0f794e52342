SPECIFICATION FairSpec
CONSTANTS
    Kinds = {"current", "pid", "command"}
    Threads = {1, 2}
    Recycled = {"command"}
    MaxCycles = 1
    MaxDepth = 1
    MaxLength = 4
INVARIANTS
    TypeOK
    SuspendPaired
    ArgumentsSurvive
PROPERTIES
    ImplementsLaunch
    OnlyBusyWalked
    ResumedInOthers
    CaptureEnds
CHECK_DEADLOCK FALSE
