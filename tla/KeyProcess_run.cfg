CONSTANTS
    InputOf <- Inputs
    Tables <- TwoTables
    Special <- Specials
    DigitOf <- TwoIsADigit
    Modes = {"text", "minibuffer"}
    Switching = {"switch"}
    MaxMacro = 4
    MaxTyped = 3
    MaxPending = 2
SPECIFICATION Spec
INVARIANTS KeyAsSent ArgumentAsTyped ReplayFaithful
PROPERTIES MacrosEnd
