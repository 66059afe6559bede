SPECIFICATION FdSpec
CONSTANTS
    Addrs <- MCAddrs
    ListenFd = 4
    MaxFd = 8
INVARIANTS
    FdTypeOK
    EntriesDistinct
    MapIsOrdered
    FindFdSound
    FindAddrExact
    VisibilityExact
