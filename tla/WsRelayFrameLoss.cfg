SPECIFICATION Spec
CONSTANTS
    a = a
    b = b
    Req <- MCReq
    Streaming <- MCStreaming
    Cap = 1
    MaxChunks <- MCChunks
INVARIANT
    NoSilentFrameLoss
