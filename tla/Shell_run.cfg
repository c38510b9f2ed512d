CONSTANTS
    p1 = p1
    p2 = p2
    Pid <- TwoPids
    MaxShells = 2
    MaxFd = 2
    ReadSize = 1
    PtySize = 2
    MaxOutput = 2
    PtyFails = FALSE
    KillWhenReady = FALSE
SPECIFICATION Spec
INVARIANTS NoDanglingCall PidOwned OutputInOrder
PROPERTIES ExitReported
