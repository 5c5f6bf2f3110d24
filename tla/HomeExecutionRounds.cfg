CONSTANTS
    Auth = {a1, a2, a3}
    Route = {r1}
    Sel = {1, 2}
    RetryLimits = {0, 1}
    LocalRetry = 1
    MaxRetryCredentials = 2
    MaxCalls = 1
    None = None
SPECIFICATION Spec
SYMMETRY AuthSymmetry
INVARIANT RoundBounded
CHECK_DEADLOCK FALSE
