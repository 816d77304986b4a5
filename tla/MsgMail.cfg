SPECIFICATION Spec
CONSTANTS
    Kernel = {1, 2}
    Server = 3
    Readers = {2}
    Smart = FALSE
    UserMsgs = {"data", "ping"}
    Addresses <- MCToSecond
    Restarts = 0
INVARIANTS DoorbellMeansMail ReadIntact HandedOverOnce
