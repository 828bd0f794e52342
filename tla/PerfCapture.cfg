SPECIFICATION ReapingSpec
CONSTANTS
    Kinds = {"current", "pid", "command"}
    Threads = {1, 2, 3}
    Recycled = {"command", "pid"}
INVARIANTS
    TypeOK
    SampledFromExec
    KeepsLiveMaps
PROPERTIES
    ImplementsLaunch
    NeverKillsStranger
    NoChildHeldForever
    CaptureEnds
CHECK_DEADLOCK FALSE
