\* Two dispatches against calls of Drain, WaitPending and Close, or two sinks,
\* or two barriers and two snapshots (see Cast).
CONSTANTS
    Request = {d1, d2}
    Group = {g1}
    Unaccounted = Unaccounted
    Sink = {k1, k2}
    NoSink = NoSink
    Drainer = {r1}
    Settler = {w1}
    Closer = {x1, x2}
    MaxBarrier = 2
    MaxRevision = 2
CONSTRAINT Cast
SPECIFICATION ObsFairSpec
INVARIANTS
    ReleaseAfterClose
    DrainedStaysEmpty
    DrainCancelsAll
    CloseClosesAll
    ReleaseCount
    SinkKnowsLatest
    SnapshotCoversBarrier
PROPERTIES ClosesOnce CallsReturn
CHECK_DEADLOCK FALSE
