SPECIFICATION Spec
CONSTANTS
    Peers = {1, 2}
    Editors = {1}
    Crashers = {1}
    Strategy = "last_write_wins"
    Overlap = TRUE
    MaxEdits = 2
    MaxOps = 1
    MaxLoss = 0
    MaxDups = 0
    MaxRestarts = 1
INVARIANT CausalInv
PROPERTY ClockMonotone
PROPERTY SettledStays
CHECK_DEADLOCK FALSE
