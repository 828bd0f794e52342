SPECIFICATION FairSpec
CONSTANTS
    Kinds = {"pid"}
    Threads = {1, 2}
    Recycled = {"pid"}
PROPERTY
    ExitEnds
CHECK_DEADLOCK FALSE
