SPECIFICATION TimerSpec
CONSTANTS
    Ids = {1, 2, 3}
    Callers = {3}
    Waits = {0, 1, 2, 3}
    Spans = {1, 3}
    IdleWait = 2
    MaxNow = 4
    ClockSteps <- MCClockSteps
    MsPerSec = 2
    UsPerMs = 3
    Word = 64
    IntRange = 6
INVARIANTS
    TimerTypeOK
    IndexesAgree
    NextWaitTimeKeepsWord
    TimersTellTime
    SleepsUntilDeadline
PROPERTIES
    ImplementsTimerTable
    WaitsDoNotAddUp
