SPECIFICATION FairSpec
CONSTANTS
    a = a
    b = b
    Req <- MCReq
    Streaming <- MCStreaming
    Cap = 1
    MaxChunks <- MCChunks
CONSTRAINT Cast
INVARIANTS
    AnswersHonest
    NoOrphan
PROPERTIES
    NoSendOnClosed
    ReaderGoesOn
    CallsEnd
