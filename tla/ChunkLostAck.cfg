SPECIFICATION Spec
CONSTANTS
    Transfers = {1, 2}
    TotalChunks <- EqualSizes
    RetryCount = 2
    Concurrent = FALSE
    LoseAcks = TRUE
    MaxLoss = 1
    MaxLate = 0
INVARIANT AcknowledgedFileArrives
CHECK_DEADLOCK FALSE
