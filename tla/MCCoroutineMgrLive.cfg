SPECIFICATION FairSpec
CONSTANTS
    IdSpace = 4
    Ids <- MCIds
    IdLimit = 4
    Waits = {1, 2}
    IdleWait = 1000
    MaxNow = 3
    ClockSteps = {}
    ClosedFds <- MCClosedFds
INVARIANTS
    WaitersHaveTimers
PROPERTIES
    EveryWaitEnds
    EveryRequestStarts
