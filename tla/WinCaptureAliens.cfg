SPECIFICATION Spec
CONSTANTS
    Kinds = {"pid"}
    Threads = {1, 2}
    Recycled = {"pid"}
    MaxCycles = 2
    MaxDepth = 1
INVARIANT
    OnlyTargetSuspended
CHECK_DEADLOCK FALSE
