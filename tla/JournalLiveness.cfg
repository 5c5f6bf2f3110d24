\* Two tokens are enough for receipts in a circle.
CONSTANTS
    Caller = {p1, p2}
    Token = {t0, t1}
    First = t0
    NoToken = NoToken
    MaxChain = 3
SPECIFICATION FairSpec
PROPERTY CallReturns
