SPECIFICATION Spec
CONSTANTS
    Conns = {c1, c2, c3}
    NClients = 2
    Recycle = TRUE
    Smart = FALSE
    DiesUnaccepted = TRUE
    Lossy = {}
    Torn = Torn
    Null = Null
SYMMETRY MCSymmetry
PROPERTIES OnlyMembersRemoved
CHECK_DEADLOCK FALSE
