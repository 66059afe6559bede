SPECIFICATION FairServerSpec
CONSTANTS
    IdSpace = 4
    Ids <- MCIds
    IdLimit = 3
    Waits = {1}
    IdleWait = 1000
    MaxNow = 2
    ClockSteps = {}
    ClosedFds <- MCClosedFds
    Addrs <- MCNoAddrs
    ListenFd = 2
    MaxFd = 4
    MemWord = 64
    Clients <- MCClients
    PrefixLen = 2
    Packages <- MCPackages
    DefRecvSize = 4
    ReplyWait = 1
    Window = 1
INVARIANTS
    ServerTypeOK
    EntriesAreClients
    AnswersReachTheirAsker
    RepliesInOrder
    WholeReadsAreExact

    
    
    
