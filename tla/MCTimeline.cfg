SPECIFICATION TSpec
CONSTANTS
    c1 = c1
    c2 = c2
    Absent = Absent
    m1 = m1
    m2 = m2
    None = None
    Path = {p}
    Content = {c1, c2}
    Mode = {m1, m2}
    Heights = {5, 10}
    Frame = 6
    MinRows = 1
    MaxLines = 3
    MaxOthers = 3
    MaxFaults = 1
SYMMETRY Symmetry
INVARIANTS TTypeOK RestoresWhatItNamed PanicOnlyAfterPrune CursorVisible
PROPERTIES PaneExplains SafetyIsListed
CHECK_DEADLOCK FALSE
