SPECIFICATION Spec
CONSTANTS
    Files = {f1}
    MaxRefs = 3
    Null = Null
SYMMETRY MCSymmetry
INVARIANTS NoBug
CHECK_DEADLOCK FALSE
