SPECIFICATION SuSpec
CONSTANTS
    p1 = p1
    p2 = p2
    small = small
    large = large
    Process = {p1, p2}
    File = {small, large}
    Size <- Bytes
    Settings <- Numbers
    Default = 5
    Beginnings = {1}
    Megabyte = 4
    MaxInt = 31
    Missing = Missing
    Blank = Blank
    Broken = Broken
    MaxCommands = 3
    MaxEdits = 2
    MaxFaults = 1
SYMMETRY Symmetry
INVARIANTS SuTypeOK ReportedIsListed CompleteAfterInit
PROPERTIES EditsStay TakesWhatFits
CHECK_DEADLOCK FALSE
