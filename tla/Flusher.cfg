CONSTANTS
    Group = {g1, g2}
    MaxSeq = 2
    FlushCall = {f1}
    MaxLifetimes = 2
CONSTRAINT Cast
SPECIFICATION FlusherFairSpec
INVARIANTS TicketsTrue NothingForgotten FlushTrue
PROPERTY TicketsComplete
CHECK_DEADLOCK FALSE
