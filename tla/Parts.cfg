SPECIFICATION FairSpec
CONSTANTS
    Processes = {p1, p2}
    MaxLosses = 2
    MaxTicks = 4
    MaxReturns = 1
    Paths = {"a", "b", "c"}
    FirstPath = "a"
    MaxMoves = 3
    Versions = {"old", "new"}
    Length <- ChunksOf
    Lines <- MergedLines
    MaxLines = 3
    MaxBase = 2
    FileIds = {"f", "g"}
    Holders = {h1, h2}
    MaxTransfers = 2
    MaxLoad = 1
    Files = {w}
    Capacity = 1
    MaxChanges = 2
    MaxIgnores = 1
    Calls = {1, 2, 3}
    FileID <- TwoFiles
    Lengths <- MixedLengths
    MaxConcurrent = 2
    Rate = 1
    TicksPerSecond = 2
    MaxCredit = 11
INVARIANT NoPeerMissed
 
INVARIANT AssembledIsOneVersion
INVARIANT OneVersionCompletes
INVARIANT NoLineLost
INVARIANT BothBranchesKept
INVARIANT FilesFit
INVARIANT QuietMeansTold
 
INVARIANT FlowTypeOK
INVARIANT SlotsConserved
INVARIANT BandwidthBound
PROPERTY PeersDiscovered
PROPERTY LostPeerNoticed
PROPERTY ChangesReported
PROPERTY CallsEnd
CHECK_DEADLOCK FALSE
