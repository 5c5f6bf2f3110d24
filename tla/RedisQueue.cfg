SPECIFICATION Spec
CONSTANTS
    a = a
    b = b
    notice = notice
    s = s
    t = t
    Hello = Hello
    Rec <- MCRec
    Kept <- MCKept
    Sub <- MCSub
    Buffer = 2
    Retention = 0
    Batch = 2
    MaxTime = 1
    MaxToggles = 2
INVARIANTS
    AccountedOnce
    SubscriptionSound
SYMMETRY MCSymmetry
CHECK_DEADLOCK FALSE
