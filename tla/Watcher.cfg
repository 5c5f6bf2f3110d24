CONSTANTS
    Absent = Absent
    Torn = Torn
    Nobody = Nobody
    QueueCap = 1
    MaxEdits = 2
    MaxSaves = 1
    MaxHooks = 1
    MaxScans = 1
CONSTRAINT Cast
SPECIFICATION FairSpec
INVARIANTS Converged
PROPERTIES RemovalJustified Settles
CHECK_DEADLOCK FALSE
