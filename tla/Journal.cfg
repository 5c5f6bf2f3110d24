\* Two processes, rotations through three tokens, circles and repeated tokens included.
CONSTANTS
    Caller = {p1, p2}
    Token = {t0, t1, t2}
    First = t0
    NoToken = NoToken
    MaxChain = 3
SYMMETRY Symmetry
SPECIFICATION Spec
INVARIANTS SubmittedOnce OwnerRecorded AnswersSound
PROPERTIES KeepsGrantLedger CallAdvances
