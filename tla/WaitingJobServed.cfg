\* Two processes, two requests for one proxy each, no fault, no operation.
CONSTANTS
    Workers = {w1, w2}
    MaxJobs = 2
    MaxEntries = 4
    Want = 1
    TargetCount = 1
    ReplenishBelow = 0
    MaxMessages = 2
    MaxFaults = 0
    MaxOps = 0
SPECIFICATION FairSpec
PROPERTIES WaitingJobServed
CHECK_DEADLOCK FALSE
