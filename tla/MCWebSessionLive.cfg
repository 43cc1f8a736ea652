CONSTANTS
    a = a
    b = b
    Tabs = {a, b}
    MaxSessions = 2
    UseLocks = TRUE
    MaxEvents = 2
    MaxFaults = 1
SPECIFICATION FairSpec
CHECK_DEADLOCK FALSE
PROPERTIES
    EveryRequestSettles
