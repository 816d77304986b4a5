SPECIFICATION FairSpec
CONSTANTS
    Devs = {d1, d2}
    Drivers = {b1}
    NEvents = 2
    MINORBITS = 2
    NClasses = 2
    AnswerLost = TRUE
    Signals = TRUE
INVARIANTS TypeOK Unwound WalkSafe MinorsDistinct
PROPERTIES ProbeEnds
CHECK_DEADLOCK FALSE
