\* OPTIX tokens only, the policy may be switched once.
CONSTANTS
    Workers = {w1, w2}
    Admins = {a1}
    IPs = {ip1}
    Reservations = {r1, r2}
    Sessions = {"optix"}
    Cooldown = 2
    MaxClock = 2
    MaxClaims = 3
    MaxRevision = 1
    Null = Null
SYMMETRY Symmetry
SPECIFICATION Spec
INVARIANTS RetryAlwaysIdempotent
CHECK_DEADLOCK FALSE
