CONSTANTS
    f = f
    MaxWins = 3
    MaxBufs = 4
    MaxTiled = 3
    MaxLists = 1
    MaxItems = 5
    Files <- OneFile
    Base = "x"
    NoFile = NoFile
    FileMode <- OneMode
    Sizes <- TwoSizes
    Slips <- Careful
    None = None
    Gone = Gone
SPECIFICATION Spec
INVARIANTS NoDangling TilesScreen NamesUnique ModeKept
