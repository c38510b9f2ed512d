CONSTANTS
    a = a
    nl = nl
    Byte <- Bytes
    NL <- nl
    w1 = w1
    w2 = w2
    Window <- TwoWindows
    Commands <- EditCommands
    NbLogsMax = 2
    MaxLen = 2
    MaxOffset = 3
SPECIFICATION Spec
INVARIANTS OffsetsInRange NoOverrun
PROPERTIES MovedWithText
SYMMETRY WindowSymmetry
