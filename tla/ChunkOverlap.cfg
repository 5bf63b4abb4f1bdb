SPECIFICATION FairSpec
CONSTANTS
    Transfers = {1, 2}
    TotalChunks <- EqualSizes
    RetryCount = 2
    Concurrent = TRUE
    LoseAcks = TRUE
    MaxLoss = 1
    MaxLate = 1
INVARIANT AckedWasHandled
INVARIANT WholeFiles
PROPERTY TransfersEnd
CHECK_DEADLOCK FALSE
