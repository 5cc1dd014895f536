\* One session at a time, two desktops, three requests, two events.
CONSTANTS
    Workers = {w1}
    Clients = {c1, c2}
    MaxRows = 3
    MaxEvents = 2
    Null = Null
SPECIFICATION FairSpec
PROPERTIES PollingIsAnswered
CHECK_DEADLOCK FALSE
