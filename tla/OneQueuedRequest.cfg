\* Two sessions, two desktops, three requests, one fault.
CONSTANTS
    Workers = {w1, w2}
    Clients = {c1, c2}
    MaxRows = 3
    MaxEvents = 1
    Null = Null
SPECIFICATION Spec
INVARIANTS OneQueuedRequest

CHECK_DEADLOCK FALSE
