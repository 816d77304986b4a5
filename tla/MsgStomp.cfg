SPECIFICATION Spec
CONSTANTS
    Kernel = {1}
    Server = 2
    Readers = {1}
    Smart = TRUE
    UserMsgs = {"rfc"}
    Addresses <- MCToServer
    Restarts = 1
INVARIANTS DoorbellMeansMail
CHECK_DEADLOCK FALSE
