\* Two processes, two requests for two proxies each, a pool that holds one, one
\* fault, one operation.
CONSTANTS
    Workers = {w1, w2}
    MaxJobs = 2
    MaxEntries = 4
    Want = 2
    TargetCount = 1
    ReplenishBelow = 0
    MaxMessages = 1
    MaxFaults = 1
    MaxOps = 1
SYMMETRY Symmetry
SPECIFICATION Spec
INVARIANTS TypeOK IssuedOnce ReadyMeansIssued NoOverfill StockedRequestIsReady
PROPERTIES RotationKeepsReserved
CHECK_DEADLOCK FALSE
