CONSTANTS
    Auth = {a1, a2}
    Route = {r1}
    Sel = {1, 2}
    RetryLimits = {0, 1}
    LocalRetry = 1
    MaxRetryCredentials = 1
    MaxCalls = 2
    None = None
CONSTRAINT Cast
SPECIFICATION FairSpec
INVARIANTS
    SlotsInHand
    RoundBounded
PROPERTIES
    CallsAndSessionEnd
CHECK_DEADLOCK FALSE
