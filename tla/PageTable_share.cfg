CONSTANTS
    a = a
    nl = nl
    lead = lead
    cont = cont
    Byte <- Bytes4
    NL <- nl
    Lead <- lead
    Cont <- cont
    Charset <- Utf8
    Operations <- ShareOperations
    Data <- ShareData
    Files <- ShareFiles
    MaxPageSize = 2
    MaxLen = 4
SPECIFICATION Spec
INVARIANTS TypeOK MappedIntact CharOffsetsInverse
PROPERTIES ImplementsByteBuffer
