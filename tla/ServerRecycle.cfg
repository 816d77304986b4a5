SPECIFICATION Spec
CONSTANTS
    Conns = {c1, c2, c3}
    NClients = 2
    Recycle = TRUE
    Smart = TRUE
    DiesUnaccepted = FALSE
    Lossy = {c1}
    Torn = Torn
    Null = Null
SYMMETRY MCSymmetry
INVARIANTS TypeOK IdsUnique DoorbellsReach
CHECK_DEADLOCK FALSE
