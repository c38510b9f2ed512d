CONSTANTS
    nl = nl
    sp = sp
    ch = ch
    def = def
    Char <- Chars
    NL <- nl
    Space <- sp
    DefColor <- def
    Colors <- OneColor
    ColorOf <- DefIs3
    Values <- TwoValues
    Message <- LastLine
    MaxParams = 2
    YSize = 2
    MaxLen = 3
    MaxUndo = 1
SPECIFICATION Spec
INVARIANTS ColorsInSync
PROPERTIES LinesKept
