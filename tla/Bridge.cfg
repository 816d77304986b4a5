SPECIFICATION Spec
CONSTANTS
    Files = {f1, f2, f3}
    MaxRefs = 3
    Null = Null
SYMMETRY MCSymmetry
INVARIANTS TypeOK Exclusive WritesOwnBuffers NothingLeft
CHECK_DEADLOCK FALSE
