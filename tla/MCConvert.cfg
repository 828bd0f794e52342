SPECIFICATION Spec
CONSTANTS
    PROBE_LINE_BUDGET = 1
    MaxLine = 5
    MAX_DECOMPRESSED = 13
    MaxWeight = 4
    MaxTrips = 2
    Foreign <- MCForeign
    Captured <- MCCaptured
    Requests = {"none", "folded", "pprof", "json"}
    Outputs <- MCOutputs
INVARIANTS
    TypeOK
    ReadIsWritable
    PprofRoundTrip
    CutPprofIsNoticed
    FoldedRoundTrip
    EverySeriesExported
CHECK_DEADLOCK FALSE
