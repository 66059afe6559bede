SPECIFICATION FairCallSpec
CONSTANTS
    Addrs <- MCAddrs
    ListenFd = 4
    MaxFd = 6
    Coroutines <- MCCoroutines
    MaxSeq = 2
INVARIANTS
    CallTypeOK
    ConnectWakesItsWaiter
    WaitersAreEntered
    
PROPERTIES
    
    LiveConnectionsStay
    EveryCallEnds
