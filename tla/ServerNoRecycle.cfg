SPECIFICATION Spec
CONSTANTS
    Conns = {c1, c2, c3}
    NClients = 2
    Recycle = FALSE
    Smart = FALSE
    DiesUnaccepted = FALSE
    Lossy = {c1}
    Torn = Torn
    Null = Null
SYMMETRY MCSymmetry
INVARIANTS TablesCurrent DeadSlotCleared
PROPERTIES Implements
CHECK_DEADLOCK FALSE
