SPECIFICATION Spec
CONSTANTS
    Kinds = {"command"}
    Threads = {1}
    Recycled = {}
INVARIANT
    SymbolizedAgainstTarget
CHECK_DEADLOCK FALSE
