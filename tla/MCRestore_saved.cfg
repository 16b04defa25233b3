SPECIFICATION RSpec
CONSTANTS
    NumPaths = 2
    c1 = c1
    c2 = c2
    r1 = r1
    w1 = w1
    Skipped = Skipped
    Absent = Absent
    Content = {c1, c2}
    Oversize = {}
    Snappers = {r1, w1}
    Restorers = {r1}
    Pruners = {}
    IgnoreRules <- SecondMayBeIgnored
    MaxCommands = 3
    MaxAborts = 1
    MaxIOErrors = 1
    MaxEdits = 1
SYMMETRY Symmetry
INVARIANTS RTypeOK TreeMatches CleanUndoReturns
PROPERTIES OverwrittenIsSaved
CHECK_DEADLOCK FALSE
