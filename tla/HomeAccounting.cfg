\* Two dispatches compete for the one slot of a group; one Drain, one Flush and two
\* Home lifetimes.
CONSTANTS
    Request = {d1, d2}
    Group = {g1}
    Unaccounted = Unaccounted
    Sink = {flusher}
    NoSink = NoSink
    Drainer = {r1}
    Settler = {}
    Closer = {}
    Limit = 1
    NotAdmitted = NotAdmitted
    MaxSeq = 2
    FlushCall = {f1}
    MaxLifetimes = 2
SYMMETRY Symmetry
SPECIFICATION AcctSpec
INVARIANT GracefulEndReturnsSlots
PROPERTY KeepsLedger
CHECK_DEADLOCK FALSE
