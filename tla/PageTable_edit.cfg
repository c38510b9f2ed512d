CONSTANTS
    a = a
    nl = nl
    lead = lead
    cont = cont
    Byte <- Bytes4
    NL <- nl
    Lead <- lead
    Cont <- cont
    Charset <- Latin
    Operations <- EditOperations
    Data <- EditData
    Files <- EditFiles
    MaxPageSize = 2
    MaxLen = 5
SPECIFICATION Spec
INVARIANTS ReadCorrect PositionsCorrect
PROPERTIES ImplementsByteBuffer
