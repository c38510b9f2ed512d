SPECIFICATION Spec
CONSTANTS
    v1 = v1
    v2 = v2
    Windows <- TwoWindows
    Edits <- TwoOrOne
    Typed <- Lexemes
    indent_size = 1
    tab_size = 2
    indent_tabs_mode = TRUE
    MAX_STACK_SIZE = 3
    MAX_BUF_SIZE = 20
    COLORED_MAX_LINE_SIZE = 20
SYMMETRY WindowsAlike
INVARIANTS
    LineStateCorrect
    NestingIndented
CHECK_DEADLOCK FALSE
