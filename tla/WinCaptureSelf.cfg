SPECIFICATION FairSpec
CONSTANTS
    Kinds = {"current"}
    Threads = {1, 2}
    Recycled = {}
    MaxCycles = 1
    MaxDepth = 1
PROPERTY
    Resumed
CHECK_DEADLOCK FALSE
