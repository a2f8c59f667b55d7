SPECIFICATION MCSpec
CONSTANTS
    Bits = 3
    W = 3
    MinLen = 2
    MaxLines = 2
    Own = {2}
    Fds = {1, 4, 9}
    MaxRefused = 1
    Plain = {0, 1, 192}
    Odd = {65, 128}
    MaxOdd = 1
    MaxBody = 8
    MaxRecords = 2
INVARIANTS SearchRight SplitAsMeant RestoredAfterStop ParsedIffMessage RightRecord
PROPERTIES SearchEnds
CHECK_DEADLOCK FALSE
