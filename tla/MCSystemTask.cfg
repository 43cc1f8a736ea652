CONSTANTS
    a = a
    b = b
    c = c
    Runners = {a, b}
    MaxTasks = 2
    TTL = 1
    MaxStall = 1
    MaxFaults = 1
SPECIFICATION FairSpec
INVARIANTS
    TypeOK
    OneRunnerPerTask
    RunningTaskHasLock
PROPERTIES
    FinishedIsFinal
    EveryTaskFinishes
