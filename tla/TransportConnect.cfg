SPECIFICATION FairSpec
CONSTANTS
    Peers = {1, 2}
    Protocols = {"quic", "tcp"}
    Faults <- QuicFaults
    MaxFaults = 1
INVARIANT TypeOK
INVARIANT KeyedPeerIsKnown
PROPERTY StoredConnectionKept
PROPERTY LockGivenBack
PROPERTY KeysEventually
CHECK_DEADLOCK FALSE
