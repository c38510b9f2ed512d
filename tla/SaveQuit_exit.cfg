CONSTANTS
    x1 = x1
    x2 = x2
    n1 = n1
    n2 = n2
    Buf <- TwoBuffers
    Order <- TwoOrder
    BackupName <- TwoNames
    BackupOf <- OwnBackup
    Mapped <- FirstMapped
    RenameFails = FALSE
    WriteFails = TRUE
    Killed = FALSE
    SaveAs = FALSE
    MaxVersion = 2
SPECIFICATION Spec
INVARIANTS ExitSavesOrAsks
