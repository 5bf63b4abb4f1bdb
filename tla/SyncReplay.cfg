SPECIFICATION Spec
CONSTANTS
    Peers = {1, 2}
    Editors = {1}
    Crashers = {1}
    Strategy = "intelligent_merge"
    Overlap = TRUE
    MaxEdits = 1
    MaxOps = 1
    MaxLoss = 0
    MaxDups = 0
    MaxRestarts = 1
INVARIANT LoggedEditSurvives
CHECK_DEADLOCK FALSE
