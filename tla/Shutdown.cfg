SPECIFICATION FairSpec
CONSTANTS
    Client = FALSE
    MaxWork = 1
INVARIANTS NoSleepOnWork
PROPERTIES StopEnds
CHECK_DEADLOCK FALSE
