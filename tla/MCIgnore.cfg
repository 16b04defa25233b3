SPECIFICATION ISpec
CONSTANTS
    x = x
    d = d
    Alphabet = {x, d}
    Star = Star
    One = One
    Slash = Slash
    Bang = Bang
    Hash = Hash
    Blank = Blank
    Undo <- DotUndo
    Names <- SomeNames
    Lines <- SomeLines
    MaxDepth = 3
    MaxRules = 3
    MaxText = 4
INVARIANTS ITypeOK MatchIsReference BeneathIgnored StoreStaysOut
INVARIANTS MutedByReinclusion SegmentIsReference LinesAreRead
CHECK_DEADLOCK FALSE
