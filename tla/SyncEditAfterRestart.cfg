SPECIFICATION Spec
CONSTANTS
    Peers = {1, 2}
    Editors = {1}
    Crashers = {1, 2}
    Strategy = "intelligent_merge"
    Overlap = FALSE
    MaxEdits = 3
    MaxOps = 3
    MaxLoss = 0
    MaxDups = 0
    MaxRestarts = 1
INVARIANT LastEditSurvives
CHECK_DEADLOCK FALSE
