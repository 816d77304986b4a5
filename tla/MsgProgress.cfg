SPECIFICATION FairSpec
CONSTANTS
    Kernel = {1}
    Server = 2
    Readers = {1}
    Smart = TRUE
    UserMsgs = {"data"}
    Addresses <- MCToSelf
    Restarts = 1
INVARIANTS TypeOK ReleaseHasSlot NoLostWakeup
PROPERTIES OutgoingReturns InterruptsServed
CHECK_DEADLOCK FALSE
