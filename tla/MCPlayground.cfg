CONSTANTS
    MaxRequests = 2
    Snapshots = {2}
    MaxChunks = 2
    Letter <- MCLetter
    MaxEvents = 3
    MaxStored = 3
    MaxChars = 4
    MaxBytes = 6
SPECIFICATION Spec
CHECK_DEADLOCK FALSE
INVARIANTS
    TypeOK
    OwnText
    NoPendingWhenIdle
    OneStream
    NothingUnsaved
    NotStuck
PROPERTIES
    FinalAnswersStay
