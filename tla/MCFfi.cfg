SPECIFICATION Spec
CONSTANTS
    Threads = {t1, t2}
    Slots = {s1, s2, s3, s4, s5}
    Null = Null
    MaxHeld = 2
SYMMETRY Symmetry
INVARIANTS
    TypeOK
    NullIsExplained
    OwnedOnce
    MessageStaysValid
