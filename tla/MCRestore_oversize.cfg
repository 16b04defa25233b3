SPECIFICATION RSpec
CONSTANTS
    NumPaths = 2
    c1 = c1
    big = big
    r1 = r1
    w1 = w1
    Skipped = Skipped
    Absent = Absent
    Content = {c1, big}
    Oversize = {big}
    Snappers = {r1, w1}
    Restorers = {r1}
    Pruners = {}
    IgnoreRules <- NoRules
    MaxCommands = 2
    MaxAborts = 0
    MaxIOErrors = 0
    MaxEdits = 1
SYMMETRY Symmetry
PROPERTIES NeverDeletesUnsaved
CHECK_DEADLOCK FALSE
