SPECIFICATION Spec
CONSTANTS
    MaxTimers = 3
    Limits <- MCLimits
    Requests <- MCRequests
    ZeroTimes <- MCZeroTimes
    Threads = 2
    MaxTime = 1
    MaxSettings = 1
INVARIANTS DueAsMeant TimersKept
PROPERTY EveryTimerRuns
CHECK_DEADLOCK FALSE
