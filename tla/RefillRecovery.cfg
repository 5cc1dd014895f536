\* The same pool under fairness, with one request and two faults.
CONSTANTS
    Workers = {w1, w2}
    MaxJobs = 1
    MaxEntries = 3
    Want = 2
    TargetCount = 1
    ReplenishBelow = 0
    MaxMessages = 1
    MaxFaults = 2
    MaxOps = 1
SPECIFICATION FairSpec
PROPERTIES AbandonedFlagRecovers
CHECK_DEADLOCK FALSE
