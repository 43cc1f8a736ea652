CONSTANTS
    p = p
    q = q
    Procs = {p, q}
    TTL = 3
    MaxStall = 1
    MaxVersion = 3
    MaxFaults = 1
SPECIFICATION Spec
SYMMETRY ProcSymmetry
INVARIANTS
    TypeOK
    NoLateAccept
    BoundedStaleness
    NoOldVersion
    SnapshotsAge
