CONSTANTS
    a = a
    b = b
    Tabs = {a, b}
    MaxSessions = 2
    UseLocks = TRUE
    MaxEvents = 3
    MaxFaults = 1
SPECIFICATION Spec
SYMMETRY TabSymmetry
CHECK_DEADLOCK FALSE
INVARIANTS
    TypeOK
    NoFalseReuse
    NoRace
    StaysOut
    TabsAgree
PROPERTIES
    NoOlderToken
