SPECIFICATION PSpec
CONSTANTS
    a = a
    b = b
    c = c
    Snapshots = {a, b, c}
    Policies <- SomePolicies
    DayLength = 3
    DurationLimit = 5
    MaxTime = 6
    MaxRecorded = 4
SYMMETRY Symmetry
INVARIANTS PTypeOK PlanIsReference PromiseKept
PROPERTIES AnnouncedGo
CHECK_DEADLOCK FALSE
