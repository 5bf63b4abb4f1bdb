SPECIFICATION FairSpec
CONSTANTS
    Transfers = {1, 2, 3}
    TotalChunks <- MixedSizes
    RetryCount = 3
    Concurrent = FALSE
    LoseAcks = FALSE
    MaxLoss = 5
    MaxLate = 0
INVARIANT SequentialInv
PROPERTY DeliversFiles
CHECK_DEADLOCK FALSE
