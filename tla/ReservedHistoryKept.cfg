\* Two processes, two requests for one proxy each, one fault, one operation.
CONSTANTS
    Workers = {w1, w2}
    MaxJobs = 2
    MaxEntries = 4
    Want = 1
    TargetCount = 1
    ReplenishBelow = 0
    MaxMessages = 1
    MaxFaults = 1
    MaxOps = 1
SPECIFICATION Spec

PROPERTIES ReservedHistoryKept
CHECK_DEADLOCK FALSE
