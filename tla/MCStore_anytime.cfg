SPECIFICATION Spec
CONSTANTS
    NumPaths = 1
    c1 = c1
    c2 = c2
    s1 = s1
    g1 = g1
    Skipped = Skipped
    Content = {c1, c2}
    Snappers = {s1}
    Pruners = {g1}
    MaxCommands = 4
    MaxAborts = 0
    MaxIOErrors = 0
SYMMETRY Symmetry
INVARIANTS SafeAtAnyTime
CHECK_DEADLOCK FALSE
