SPECIFICATION SelectionFairSpec
CONSTANTS
    r1 = r1
    r2 = r2
    a1 = a1
    a2 = a2
    NoAttempt = NoAttempt
    Res <- MCRes
    Attempt <- MCAttempt
PROPERTY
    CloseReachesAll
INVARIANTS
    ClosesCleanly
CHECK_DEADLOCK FALSE
