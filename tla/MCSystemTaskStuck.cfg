CONSTANTS
    a = a
    b = b
    c = c
    Runners = {a, b}
    MaxTasks = 1
    TTL = 1
    MaxStall = 2
    MaxFaults = 0
SPECIFICATION FairSpec
PROPERTIES
    ExpiredLeaseFreesType
