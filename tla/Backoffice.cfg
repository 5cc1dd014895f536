\* YS bridge: two commands and two operators.  Catalog: two runs, a required and
\* an optional key.  Alerts: two requests, windows and recipients.  Reports: three
\* that overlap.  Pools: one country, two states and a city.
CONSTANTS
    Commands = {1, 2}
    Operators = {o1, o2}
    MaxBridgeOps = 3
    Syncers = {s1, s2}
    Keys = {k1, k2}
    Required = {k1}
    MaxEdition = 2
    MaxSyncOps = 3
    Requests = {r1, r2}
    Windows = {1, 2}
    Recipients = {p1, p2}
    AlertRetries = 1
    MaxAlertOps = 3
    Reports = {1, 2, 3}
    Order <- ListedOrder
    MaxReportOps = 4
    us = us
    st1 = st1
    st2 = st2
    la = la
    Country = us
    States = {st1, st2}
    Cities = {la}
    PlannedCount <- PlanCount
    PlannedThreshold <- PlanThreshold
    OfficeCount = 3
    OfficeBelow = 1
    CityCount = 2
    CityBelow = 1
    Touched = {us, st2}
    Resizes = {1}
    Demands = {0, 2}
    BatchSize = 2
    MaxProvisionOps = 1
SPECIFICATION Spec
INVARIANTS BackofficeTypeOK AlertIsTrue ReportNotTorn NoOverstock PrefillReadied
PROPERTIES SuccessIsFinal EffectsInOrder CommandsFinish LeaseOrderKept CatalogNeverRegresses AlertSettles PrefillEnds
CHECK_DEADLOCK FALSE
