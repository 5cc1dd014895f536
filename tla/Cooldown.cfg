\* Both kinds of token while two panels switch the policy.
CONSTANTS
    Workers = {w1, w2}
    Admins = {a1, a2}
    IPs = {ip1}
    Reservations = {r1}
    Sessions = {"legacy", "optix"}
    Cooldown = 1
    MaxClock = 2
    MaxClaims = 3
    MaxRevision = 1
    Null = Null
SYMMETRY Symmetry
SPECIFICATION Spec
INVARIANTS TypeOK RowsGuardWindows EnforcedClaimWaits RetryIsIdempotent CheckAgreesWithClaim
PROPERTIES ExclusiveSpec
CHECK_DEADLOCK FALSE
