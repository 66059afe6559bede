SPECIFICATION Spec
CONSTANTS
    IdSpace = 4
    Ids <- MCIds
    IdLimit = 4
    Waits = {0, 1, 2}
    IdleWait = 1000
    MaxNow = 2
    ClockSteps <- MCClockSteps
    ClosedFds = {2}
INVARIANTS
    TypeOK
    BlocksBelongToOwners
    NobodyLeftBehind
    TimersOwnedByWaiters
    EndedNeverResumed

    
