\* Two sessions, two desktops, three requests, one event.
CONSTANTS
    Workers = {w1, w2}
    Clients = {c1, c2}
    MaxRows = 3
    MaxEvents = 1
    Null = Null
SYMMETRY Symmetry
SPECIFICATION Spec
INVARIANTS TypeOK LeaseIsActive
PROPERTIES LiveLeaseKept GrantsInOrder AllowedIsBacked
CHECK_DEADLOCK FALSE
