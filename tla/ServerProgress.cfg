SPECIFICATION FairSpec
CONSTANTS
    Conns = {c1, c2}
    NClients = 2
    Recycle = FALSE
    Smart = FALSE
    DiesUnaccepted = TRUE
    Lossy = {c1, c2}
    Torn = Torn
    Null = Null
PROPERTIES JoinEnds LeaverForgotten
CHECK_DEADLOCK FALSE
