SPECIFICATION Spec
CONSTANTS
    Peers = {1, 2}
    Editors = {1, 2}
    Crashers = {}
    Strategy = "intelligent_merge"
    Overlap = FALSE
    MaxEdits = 3
    MaxOps = 3
    MaxLoss = 0
    MaxDups = 1
    MaxRestarts = 0
INVARIANT LastEditSurvives
INVARIANT IndexMatchesDisk
INVARIANT LogOrdered
INVARIANT TurnsInv
CHECK_DEADLOCK FALSE
