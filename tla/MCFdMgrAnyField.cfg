SPECIFICATION FdSpec
CONSTANTS
    Addrs <- MCAddrs
    ListenFd = 4
    MaxFd = 9
INVARIANTS
    AnyEqualFieldFinds
