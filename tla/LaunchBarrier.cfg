SPECIFICATION FairSpec
CONSTANTS
    Captures = {c1, c2, c3}
    Bounded = {c1, c2}
INVARIANT
    TypeOK
PROPERTIES
    ImplementsLaunch
    ReleaseRunsUnbounded
    BoundedReturns
CHECK_DEADLOCK FALSE
