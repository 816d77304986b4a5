SPECIFICATION FairSpec
CONSTANTS
    Clients = {a, b}
    MaxConns = 3
    MaxStarts = 1
    IdSpace = 2
    NVectors = 1
    MaxVectors = 1
    SockBuf = 4
    None = None
INVARIANTS TypeOK IdsUnique TableFollows StaysConnected NothingLeft
PROPERTIES Implements QuitTaken Settles LossNoticed
CHECK_DEADLOCK FALSE
