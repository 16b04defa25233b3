SPECIFICATION WSpec
CONSTANTS
    root = root
    sub = sub
    deep = deep
    Dirs = {root, sub, deep}
    Muted = {sub}
    Root = root
    Parent <- Chain
    c1 = c1
    c2 = c2
    Content = {c1, c2}
    Gone = Gone
    QueueLimit = 2
    MaxChanges = 3
    MaxFaults = 1
INVARIANTS WTypeOK Covered SettledSaved
PROPERTIES ChangesGetSaved
CHECK_DEADLOCK FALSE
