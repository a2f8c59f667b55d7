SPECIFICATION SegmentsFairSpec
CONSTANTS
    Capacity = 3
    MaxSegment = 11
    MaxLen = 3
    MaxSegs = 5
    MaxBad = 1
INVARIANTS InOrder PackageFits
PROPERTIES EveryPacked
CHECK_DEADLOCK FALSE
