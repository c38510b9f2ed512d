CONSTANTS
    x1 = x1
    x2 = x2
    n1 = n1
    n2 = n2
    Buf <- TwoBuffers
    Order <- TwoOrder
    BackupName <- OneName
    BackupOf <- SharedBackup
    Mapped <- FirstMapped
    RenameFails = TRUE
    WriteFails = TRUE
    Killed = TRUE
    SaveAs = TRUE
    MaxVersion = 2
SPECIFICATION FairSpec
INVARIANTS TypeOK ExitLosesOnlyFailed Recoverable 
PROPERTIES QuitEnds
