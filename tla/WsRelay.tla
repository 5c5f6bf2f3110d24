------------------------------ MODULE WsRelay ------------------------------
(***************************************************************************)
(* One session of the websocket relay (internal/wsrelay).  A connected     *)
(* client answers HTTP requests sent over its websocket.  request() stores *)
(* a pendingRequest, writes the message and hands the channel to NonStream *)
(* or Stream; the session's reader delivers the answers; cleanup(),        *)
(* started by whoever finds the connection broken, fails what is left; the *)
(* AfterFunc of a request's context withdraws it.                          *)
(*                                                                         *)
(* deliver waits for room holding the request's mutex: every other user of *)
(* the request waits for it.  An entry is removed by LoadAndDelete first   *)
(* and closed afterwards: `taken' says who is between the two.             *)
(*                                                                         *)
(* Request ids and provider names are random, so the duplicate id and the  *)
(* replaced session do not arise.  A chunk is known by its position.       *)
(***************************************************************************)
EXTENDS Naturals, Sequences

CONSTANTS
    Req,         \* calls of NonStream and Stream
    Streaming,   \* those that are calls of Stream
    Cap,         \* pendingChannelBuffer
    MaxChunks    \* bound, per request, on the chunks the peer sends

ASSUME WsRelayAssumption ==
    Streaming \subseteq Req /\ Cap \in Nat \ {0} /\ MaxChunks \in [Req -> Nat]

VARIABLES
    registered,  \* the manager's map holds the session
    closed,      \* session.closed is closed
    cleaning,    \* where cleanup is: "no", "range", "unregister" or "done"
    toVisit,     \* requests Range still has to visit
    pending,     \* keys of session.pending
    pc,          \* where a call is
    ctxDone,     \* calls whose context is cancelled
    armed,       \* calls whose AfterFunc has not run
    taken,       \* who took the entry out of pending and has not closed it yet
    ch,          \* pr.ch
    chClosed,    \* pr.closed: the channel is closed
    terminal,    \* pr.terminal
    disp,        \* the reader: [pc, r, msg, ok]
    written,     \* requests the peer received
    sent,        \* chunks the peer sent for a request
    ended,       \* requests the peer sent its terminal message for
    got,         \* chunks the call took from its channel, in order
    result       \* what the call returned: "none", "ok" or "err"

reqVars == <<ch, chClosed, terminal>>
peerVars == <<written, sent, ended>>
callVars == <<pc, got, result>>
sessVars == <<registered, closed, cleaning, toVisit>>
vars == <<sessVars, pending, ctxDone, armed, taken, disp, reqVars, peerVars, callVars>>

Idle == [pc |-> "idle"]
Chunk(n) == [type |-> "chunk", n |-> n]
End == [type |-> "end"]      \* stream_end, or the one-message http_response
Error == [type |-> "error"]
Msg(r) == {Chunk(n) : n \in 1..MaxChunks[r]} \cup {End, Error}
IsTerminal(msg) == msg \in {End, Error}

Init ==
    /\ registered = TRUE /\ closed = FALSE /\ cleaning = "no" /\ toVisit = {}
    /\ pending = {} /\ ctxDone = {} /\ armed = {} /\ disp = Idle
    /\ pc = [r \in Req |-> "new"] /\ taken = [r \in Req |-> "nobody"]
    /\ ch = [r \in Req |-> <<>>] /\ chClosed = {} /\ terminal = {}
    /\ written = {} /\ sent = [r \in Req |-> 0] /\ ended = {}
    /\ got = [r \in Req |-> <<>>] /\ result = [r \in Req |-> "none"]

\* Mutant: deliver waits without the mutex.
MutexAlwaysFree(r) == TRUE

MutexFree(r) == ~(disp.pc = "held" /\ disp.r = r)

-----------------------------------------------------------------------------
(* The call: Manager.Send, session.request, session.send.                  *)

Return(r, res) == pc' = [pc EXCEPT ![r] = "returned"] /\ result' = [result EXCEPT ![r] = res]

Lookup(r) ==
    /\ pc[r] = "new"
    /\ IF registered THEN pc' = [pc EXCEPT ![r] = "have"] /\ UNCHANGED result
                     ELSE Return(r, "err")
    /\ UNCHANGED <<sessVars, pending, ctxDone, armed, taken, disp, reqVars, peerVars, got>>

\* LoadOrStore and the AfterFunc on the caller's context.
Store(r) ==
    /\ pc[r] = "have"
    /\ pc' = [pc EXCEPT ![r] = "stored"]
    /\ pending' = pending \cup {r} /\ armed' = armed \cup {r}
    /\ UNCHANGED <<sessVars, ctxDone, taken, disp, reqVars, peerVars, got, result>>

\* send looks at closed, takes the write mutex and writes.
CheckOpen(r) ==
    /\ pc[r] = "stored"
    /\ pc' = [pc EXCEPT ![r] = IF closed THEN "undo" ELSE "write"]
    /\ UNCHANGED <<sessVars, pending, ctxDone, armed, taken, disp, reqVars, peerVars, got, result>>

\* The write reaches the peer, or fails: always once the connection is closed.
Write(r, arrives) ==
    /\ pc[r] = "write" /\ (arrives => cleaning \in {"no", "range"})
    /\ pc' = [pc EXCEPT ![r] = IF arrives THEN "reading" ELSE "undo"]
    /\ written' = IF arrives THEN written \cup {r} ELSE written
    /\ UNCHANGED <<sessVars, pending, ctxDone, armed, taken, disp, reqVars, sent, ended, got, result>>

Take(r, who) ==
    /\ pending' = pending \ {r}
    /\ taken' = [taken EXCEPT ![r] = IF r \in pending THEN who ELSE @]

\* request withdraws its entry and returns the error of send.
Undo(r) ==
    /\ pc[r] = "undo"
    /\ Take(r, "call") /\ Return(r, "err")
    /\ UNCHANGED <<sessVars, ctxDone, armed, disp, reqVars, peerVars, got>>

-----------------------------------------------------------------------------
(* The loops of NonStream and Stream over the channel.  Stream's goroutine *)
(* forwards each message on a channel without a buffer and reads no other  *)
(* before its consumer has taken it.                                       *)

\* Stream's goroutine in send, with a chunk, the end or an error.
Sending == {"sendChunk", "sendEnd", "sendError"}
Event(msg) == IF msg = End THEN "sendEnd" ELSE IF msg = Error THEN "sendError" ELSE "sendChunk"
Offer(r, ev) == pc' = [pc EXCEPT ![r] = ev] /\ UNCHANGED result

Receive(r) ==
    /\ pc[r] = "reading" /\ ch[r] # <<>>
    /\ ch' = [ch EXCEPT ![r] = Tail(@)]
    /\ got' = IF IsTerminal(Head(ch[r])) THEN got ELSE [got EXCEPT ![r] = Append(@, Head(ch[r]).n)]
    /\ IF r \in Streaming THEN Offer(r, Event(Head(ch[r])))
       ELSE IF IsTerminal(Head(ch[r])) THEN Return(r, IF Head(ch[r]) = End THEN "ok" ELSE "err")
       ELSE UNCHANGED <<pc, result>>
    /\ UNCHANGED <<sessVars, pending, ctxDone, armed, taken, disp, chClosed, terminal, peerVars>>

\* Stream reports a closed channel; NonStream takes it for the end of the body
\* when it has seen a part of one.
ReceiveClosed(r) ==
    /\ pc[r] = "reading" /\ ch[r] = <<>> /\ r \in chClosed
    /\ IF r \in Streaming THEN Offer(r, "sendError")
                          ELSE Return(r, IF got[r] # <<>> THEN "ok" ELSE "err")
    /\ UNCHANGED <<sessVars, pending, ctxDone, armed, taken, disp, reqVars, peerVars, got>>

\* The consumer of a Stream takes the event it is offered.
Forward(r) ==
    /\ pc[r] \in Sending
    /\ IF pc[r] = "sendChunk" THEN Offer(r, "reading")
                              ELSE Return(r, IF pc[r] = "sendEnd" THEN "ok" ELSE "err")
    /\ UNCHANGED <<sessVars, pending, ctxDone, armed, taken, disp, reqVars, peerVars, got>>

\* Both loops, and send, watch the context.
ReceiveCancelled(r) ==
    /\ pc[r] \in {"reading"} \cup Sending /\ r \in ctxDone
    /\ Return(r, "err")
    /\ UNCHANGED <<sessVars, pending, ctxDone, armed, taken, disp, reqVars, peerVars, got>>

\* The caller's context ends: client gone, deadline, or the executor leaving the stream.
CancelCtx(r) ==
    /\ r \notin ctxDone /\ pc[r] # "returned"
    /\ ctxDone' = ctxDone \cup {r}
    /\ UNCHANGED <<sessVars, pending, armed, taken, disp, reqVars, peerVars, callVars>>

AfterFunc(r) ==
    /\ r \in armed /\ r \in ctxDone
    /\ armed' = armed \ {r} /\ Take(r, "ctx")
    /\ UNCHANGED <<sessVars, ctxDone, disp, reqVars, peerVars, callVars>>

-----------------------------------------------------------------------------
(* The reader: session.run and dispatch.                                   *)

\* A message arrives.  The peer numbers its chunks and ends with one terminal message.
Dispatch(r, msg) ==
    /\ disp = Idle /\ r \in written \ ended
    /\ IF IsTerminal(msg)
         THEN ended' = ended \cup {r} /\ UNCHANGED sent
         ELSE msg = Chunk(sent[r] + 1) /\ sent' = [sent EXCEPT ![r] = @ + 1] /\ UNCHANGED ended
    /\ disp' = IF r \in pending THEN [pc |-> "lock", r |-> r, msg |-> msg, ok |-> FALSE] ELSE Idle
    /\ UNCHANGED <<sessVars, pending, ctxDone, armed, taken, reqVars, written, callVars>>

AfterDeliver(ok) ==
    IF IsTerminal(disp.msg) THEN [disp EXCEPT !.pc = "settle", !.ok = ok] ELSE Idle

\* deliver and deliverTerminal take the mutex; a finished request takes no message.
Lock ==
    /\ disp.pc = "lock"
    /\ disp' = IF disp.r \in chClosed \cup terminal THEN AfterDeliver(FALSE)
                                                    ELSE [disp EXCEPT !.pc = "held"]
    /\ UNCHANGED <<sessVars, pending, ctxDone, armed, taken, reqVars, peerVars, callVars>>

\* Mutant: a chunk that finds the channel full is dropped.
PutDropsChunk ==
    /\ disp.pc = "held" /\ (Len(ch[disp.r]) < Cap \/ ~IsTerminal(disp.msg))
    /\ ch' = [ch EXCEPT ![disp.r] = IF Len(@) < Cap THEN Append(@, disp.msg) ELSE @]
    /\ terminal' = IF IsTerminal(disp.msg) THEN terminal \cup {disp.r} ELSE terminal
    /\ disp' = AfterDeliver(TRUE)
    /\ UNCHANGED <<sessVars, pending, ctxDone, armed, taken, chClosed, peerVars, callVars>>

\* The select of deliver: room in the channel ...
Put ==
    /\ disp.pc = "held" /\ Len(ch[disp.r]) < Cap
    /\ ch' = [ch EXCEPT ![disp.r] = Append(@, disp.msg)]
    /\ terminal' = IF IsTerminal(disp.msg) THEN terminal \cup {disp.r} ELSE terminal
    /\ disp' = AfterDeliver(TRUE)
    /\ UNCHANGED <<sessVars, pending, ctxDone, armed, taken, chClosed, peerVars, callVars>>

\* Mutant: deliver does not watch the request's context.
GiveUpOnlyClosed ==
    /\ disp.pc = "held" /\ closed
    /\ disp' = AfterDeliver(FALSE)
    /\ UNCHANGED <<sessVars, pending, ctxDone, armed, taken, reqVars, peerVars, callVars>>

\* ... or the session closed, or the request's context done.
GiveUp ==
    /\ disp.pc = "held" /\ (closed \/ disp.r \in ctxDone)
    /\ disp' = AfterDeliver(FALSE)
    /\ UNCHANGED <<sessVars, pending, ctxDone, armed, taken, reqVars, peerVars, callVars>>

\* dispatch takes the entry of an answered request.
Settle ==
    /\ disp.pc = "settle"
    /\ Take(disp.r, "reader")
    /\ disp' = IF disp.r \in pending THEN [disp EXCEPT !.pc = "finish"] ELSE Idle
    /\ UNCHANGED <<sessVars, ctxDone, armed, reqVars, peerVars, callVars>>

-----------------------------------------------------------------------------
(* Closing a request that was taken: cancel, cancelWithError, close.       *)

\* The entry was taken to be failed with an error: by cleanup, or by the
\* reader when it could not deliver a terminal message and knows a cause.
WithError(r) ==
    \/ taken[r] = "cleanup"
    \/ taken[r] = "reader" /\ ~disp.ok /\ (closed \/ r \in ctxDone \/ disp.msg = Error)

\* Mutant: the error gives way to a full channel.
PutErrorIfRoom(s) == IF Len(s) < Cap THEN Append(s, Error) ELSE s

\* cancelWithError makes room by dropping the oldest message.
PutError(s) == Append(IF Len(s) < Cap THEN s ELSE Tail(s), Error)

Finish(r) ==
    /\ taken[r] # "nobody" /\ MutexFree(r)
    /\ taken' = [taken EXCEPT ![r] = "nobody"]
    /\ chClosed' = chClosed \cup {r}
    /\ ch' = IF r \notin chClosed \cup terminal /\ WithError(r)
               THEN [ch EXCEPT ![r] = PutError(@)] ELSE ch
    /\ disp' = IF taken[r] = "reader" THEN Idle ELSE disp
    /\ UNCHANGED <<sessVars, pending, ctxDone, armed, terminal, peerVars, callVars>>

-----------------------------------------------------------------------------
(* session.cleanup, under closeOnce, and Manager.Stop.                     *)

\* Stop empties the manager's map before it cleans the sessions up.
Stop ==
    /\ registered /\ registered' = FALSE
    /\ UNCHANGED <<closed, cleaning, toVisit, pending, ctxDone, armed, taken, disp, reqVars, peerVars, callVars>>

\* Mutant: closed is not closed before the sweep.
CleanupUnmarked ==
    /\ cleaning = "no"
    /\ cleaning' = "range" /\ toVisit' = pending
    /\ UNCHANGED <<closed, registered, pending, ctxDone, armed, taken, disp, reqVars, peerVars, callVars>>

\* Mutant: cleanup does not sweep.
CleanupNoSweep ==
    /\ cleaning = "no"
    /\ closed' = TRUE /\ cleaning' = "range" /\ toVisit' = {}
    /\ UNCHANGED <<registered, pending, ctxDone, armed, taken, disp, reqVars, peerVars, callVars>>

\* Read error, failed heartbeat or Stop.
Cleanup ==
    /\ cleaning = "no"
    /\ closed' = TRUE /\ cleaning' = "range" /\ toVisit' = pending
    /\ UNCHANGED <<registered, pending, ctxDone, armed, taken, disp, reqVars, peerVars, callVars>>

\* Range visits every entry that was there when it began and may visit later ones.
Visit(r) ==
    /\ cleaning = "range" /\ r \in toVisit \cup pending
    /\ \A q \in Req : taken[q] # "cleanup"
    /\ toVisit' = toVisit \ {r} /\ Take(r, "cleanup")
    /\ UNCHANGED <<registered, closed, cleaning, ctxDone, armed, disp, reqVars, peerVars, callVars>>

\* The connection is closed, then handleSessionClosed forgets the session.
CloseConn ==
    /\ cleaning = "range" /\ toVisit = {} /\ \A q \in Req : taken[q] # "cleanup"
    /\ cleaning' = "unregister"
    /\ UNCHANGED <<registered, closed, toVisit, pending, ctxDone, armed, taken, disp, reqVars, peerVars, callVars>>

HandleSessionClosed ==
    /\ cleaning = "unregister"
    /\ cleaning' = "done" /\ registered' = FALSE
    /\ UNCHANGED <<closed, toVisit, pending, ctxDone, armed, taken, disp, reqVars, peerVars, callVars>>

-----------------------------------------------------------------------------
CallStep(r) ==
    \/ Lookup(r) \/ Store(r) \/ CheckOpen(r) \/ Undo(r)
    \/ \E arrives \in BOOLEAN : Write(r, arrives)
Consume(r) == Receive(r) \/ ReceiveClosed(r) \/ ReceiveCancelled(r)
Deliver == Lock \/ Put \/ GiveUp \/ Settle
CleanupStep == (\E r \in Req : Visit(r)) \/ CloseConn \/ HandleSessionClosed

\* No call goes on and nobody has work left: the session may be idle for ever.
Quiet ==
    /\ \A r \in Req : pc[r] \in {"new", "returned"} /\ taken[r] = "nobody"
    /\ disp = Idle /\ cleaning \in {"no", "done"}
    /\ UNCHANGED vars

Next ==
    \/ \E r \in Req : CallStep(r) \/ Consume(r) \/ Forward(r) \/ CancelCtx(r) \/ AfterFunc(r) \/ Finish(r)
    \/ \E r \in Req : \E msg \in Msg(r) : Dispatch(r, msg)
    \/ Deliver \/ Stop \/ Cleanup \/ CleanupStep \/ Quiet

\* Every goroutine that has begun and can go on does; callers, contexts, the peer,
\* failures and the consumers of the streams owe nothing.
Fairness ==
    /\ \A r \in Req : /\ WF_vars(pc[r] # "new" /\ CallStep(r)) /\ WF_vars(Consume(r))
                      /\ WF_vars(AfterFunc(r)) /\ WF_vars(Finish(r))
    /\ WF_vars(Deliver) /\ WF_vars(CleanupStep)

Spec == Init /\ [][Next]_vars
FairSpec == Spec /\ Fairness

-----------------------------------------------------------------------------
(* Properties.                                                             *)

\* Types, and the shape of the reader's state.
TypeOK ==
    /\ registered \in BOOLEAN /\ closed \in BOOLEAN
    /\ cleaning \in {"no", "range", "unregister", "done"} /\ toVisit \subseteq Req
    /\ pending \subseteq Req /\ ctxDone \subseteq Req /\ armed \subseteq Req
    /\ pc \in [Req -> {"new", "have", "stored", "write", "reading", "undo", "returned"} \cup Sending]
    /\ taken \in [Req -> {"nobody", "call", "ctx", "reader", "cleanup"}]
    /\ (\A r \in Req : ch[r] \in Seq(Msg(r))) /\ chClosed \subseteq Req /\ terminal \subseteq Req
    /\ disp # Idle => disp.pc \in {"lock", "held", "settle", "finish"} /\ disp.msg \in Msg(disp.r)
    /\ \A r \in Req : Len(ch[r]) <= Cap

\* An answer reported complete is complete: unless its own context was cancelled,
\* a call that returns without error was given the peer's terminal message, and,
\* if the session is still open, every chunk before it, in order.  NonStream takes
\* a closed channel for the end of the body, so this rests on nobody closing the
\* channel of a live call silently.
AnsweredWhole ==
    \A r \in Req : result[r] = "ok" /\ r \notin ctxDone =>
        /\ r \in terminal \cap ended
        /\ closed \/ got[r] = [i \in 1..sent[r] |-> i]

\* A call that is still reading a closed channel finds a terminal message at its
\* end, also when the channel was full: cancelWithError displaces a message for it.
EndTold ==
    \A r \in chClosed : pc[r] \in {"reading", "sendChunk"} /\ r \notin ctxDone =>
        ch[r] # <<>> /\ IsTerminal(ch[r][Len(ch[r])])

\* What NonStream and Stream rely on when they read a request's channel: success
\* is never reported for half an answer, and a lost one is reported as an error.
AnswersHonest == AnsweredWhole /\ EndTold

\* What TestSession_Dispatch_NoSilentFrameLoss says of dispatch, for a session
\* that may be closing: a call that is answered without error got every chunk.
\* deliver's select may drop a chunk because the session is closed and then
\* deliver the end message all the same.
NoSilentFrameLoss ==
    \A r \in Req : result[r] = "ok" /\ r \notin ctxDone =>
        got[r] = [i \in 1..sent[r] |-> i]

\* No request is left behind by cleanup: an entry still in the map afterwards
\* belongs to a call that has yet to look at closed, or to withdraw the entry.
NoOrphan ==
    cleaning \in {"unregister", "done"} =>
        \A r \in pending : pc[r] \in {"stored", "write", "undo"}

\* A channel is never written after it was closed, which would panic: deliver keeps
\* the mutex from its look at pr.closed until its message is in.
NoSendOnClosed == [][\A r \in chClosed : Len(ch'[r]) <= Len(ch[r])]_vars

\* A Stream whose consumer does not take its event, and whose context goes on.
Stalled(r) == pc[r] \in Sending /\ r \notin ctxDone

\* The reader is never stuck for good behind one request: the message it is
\* delivering is delivered or given up, unless the request is a Stream whose consumer
\* has stopped reading while its context goes on and the session is open.  A NonStream,
\* a consumer that reads, a cancellation (TestSession_SlowConsumer_UnblocksOnContextCancel)
\* and the end of the session (..._UnblocksOnSessionClose) all set the reader free.
ReaderGoesOn ==
    \/ []<>(disp = Idle)
    \/ <>[](disp # Idle /\ Stalled(disp.r) /\ ~closed)

\* A call whose session closes, or whose context ends, returns.  Only a Stream whose
\* consumer has stopped reading, with its context going on, outlives its session.
CallsEnd ==
    \A r \in Req :
        \/ (pc[r] # "new" /\ (closed \/ r \in ctxDone)) ~> (pc[r] = "returned")
        \/ <>[]Stalled(r)
=============================================================================
