SPECIFICATION Spec
CONSTANTS
    IdSpace = 7
    Ids <- MCIds
    IdLimit = 6
    Waits = {1}
    IdleWait = 1000
    MaxNow = 1
    ClockSteps = {}
    ClosedFds <- MCClosedFds
INVARIANTS
    NoTimersMeansNobodyWaits
