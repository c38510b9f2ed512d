CONSTANTS
    a = a
    nl = nl
    Byte <- Bytes
    NL <- nl
    w1 = w1
    w2 = w2
    Window <- OneWindow
    Commands <- UndoCommands
    NbLogsMax = 4
    MaxLen = 2
    MaxOffset = 3
SPECIFICATION Spec
INVARIANTS TypeOK LogSound ChainSound CleanMeansSaved
