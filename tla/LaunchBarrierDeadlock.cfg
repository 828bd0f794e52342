SPECIFICATION LongSpec
CONSTANTS
    Captures = {c1, c2}
    Bounded = {c1, c2}
PROPERTY
    ReleaseFreesChild
CHECK_DEADLOCK FALSE
