SPECIFICATION FairSpec
CONSTANTS
    Peers = {1, 2}
    Protocols = {"quic"}
    Faults <- LinkLoss
    MaxFaults = 1
CHECK_DEADLOCK FALSE
PROPERTY KeysRecover
