SPECIFICATION Spec
CONSTANTS
    MaxId = 2
    MaxSend = 2
    FastGap = 1
INVARIANTS
    NoUseAfterFree
    FreedIsAcked
    TwoCopies
CHECK_DEADLOCK FALSE
