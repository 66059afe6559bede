SPECIFICATION CallSpec
CONSTANTS
    Addrs <- MCAddrs
    ListenFd = 4
    MaxFd = 6
    Coroutines <- MCCoroutines
    MaxSeq = 2
PROPERTIES
    UnlistenedHasNoWaiter
