CONSTANTS
    a = a
    A = A
    sp = sp
    Byte <- Bytes3
    Lower <- LowerA
    Upper <- UpperA
    Word <- Letters
    toupper <- UpperCase
    Files <- TwoFiles
    Replacements <- TwoReplacements
    SearchLength = 2
    PollSize = 2
    MaxLen = 3
SPECIFICATION Spec
INVARIANTS TypeOK FoundIsMatch ReplacedInOrder AllReplaced
PROPERTIES RepeatAdvances
