CONSTANTS
    Auth = {a1, a2}
    Route = {r1, r2}
    Sel = {1, 2}
    RetryLimits = {0, 1}
    LocalRetry = 0
    MaxRetryCredentials = 1
    MaxCalls = 2
    None = None
SPECIFICATION Spec
SYMMETRY AuthSymmetry
INVARIANTS
    NoOrphan
    DispatchHoldsNoSlot
CHECK_DEADLOCK FALSE
