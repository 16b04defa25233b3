SPECIFICATION DSpec
CONSTANTS
    p1 = p1
    p2 = p2
    p3 = p3
    p4 = p4
    a = a
    b = b
    Pids = {p1, p2, p3, p4}
    Commands = {a, b}
    None = None
    Blank = Blank
    MaxCommands = 6
    MaxFaults = 3
SYMMETRY Symmetry
INVARIANTS DTypeOK OneWatcherNamed
CHECK_DEADLOCK FALSE
