CONSTANTS
    RingDwords = 7
    RecSizes <- MCRecSizes
    MaxRecs = 9
SPECIFICATION Spec
INVARIANT TypeOK
PROPERTY
    FifoRefinement
    EveryRecordRead
CHECK_DEADLOCK FALSE
