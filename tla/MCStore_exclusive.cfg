SPECIFICATION ExclusiveSpec
CONSTANTS
    NumPaths = 2
    c1 = c1
    c2 = c2
    s1 = s1
    s2 = s2
    g1 = g1
    Skipped = Skipped
    Content = {c1, c2}
    Snappers = {s1, s2}
    Pruners = {g1}
    MaxCommands = 4
    MaxAborts = 1
    MaxIOErrors = 1
SYMMETRY Symmetry
INVARIANTS TypeOK ListedIntact NewestStored PruneExact ReturnMeansSaved
INVARIANTS PrunesGoThrough
PROPERTIES ImplementsHistory
CHECK_DEADLOCK FALSE
