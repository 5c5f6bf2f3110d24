----------------------------- MODULE MCWsRelay -----------------------------
EXTENDS WsRelay, FiniteSets, TLC

CONSTANTS a, b

\* A NonStream and a Stream.
MCReq == {a, b}
MCStreaming == {b}
MCChunks == a :> 2 @@ b :> 2

\* One call with chunks that fill the channel twice, or both calls at once when the
\* first gets one chunk and the second only a terminal message and is not cancelled.
Cast ==
    \/ Cardinality({r \in Req : pc[r] # "new"}) <= 1
    \/ sent[a] <= 1 /\ sent[b] = 0 /\ b \notin ctxDone
=============================================================================
