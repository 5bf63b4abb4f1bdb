SPECIFICATION FairSpec
CONSTANTS
    Peers = {1, 2}
    Editors = {1, 2}
    Crashers = {}
    Strategy = "intelligent_merge"
    Overlap = TRUE
    MaxEdits = 2
    MaxOps = 1
    MaxLoss = 1
    MaxDups = 1
    MaxRestarts = 0
INVARIANT OwnClockDominates
INVARIANT RowsBehindClock
PROPERTY WatchResumes
PROPERTY SettledStays
CHECK_DEADLOCK FALSE
