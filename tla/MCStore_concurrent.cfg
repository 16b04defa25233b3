SPECIFICATION Spec
CONSTANTS
    NumPaths = 2
    c1 = c1
    s1 = s1
    s2 = s2
    g1 = g1
    Skipped = Skipped
    Content = {c1}
    Snappers = {s1, s2}
    Pruners = {g1}
    MaxCommands = 4
    MaxAborts = 1
    MaxIOErrors = 1
SYMMETRY Symmetry
PROPERTIES KeptSurvive
CHECK_DEADLOCK FALSE
