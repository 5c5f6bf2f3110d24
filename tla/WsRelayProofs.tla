---------------------------- MODULE WsRelayProofs ----------------------------
(***************************************************************************)
(* Proofs about WsRelay, for any number of calls, any channel capacity and *)
(* any number of chunks.                                                   *)
(***************************************************************************)
EXTENDS WsRelay, TLAPS

\* A chunk is known by its number and is never taken for a terminal message.
LEMMA MsgFacts ==
    /\ \A n : ~IsTerminal(Chunk(n)) /\ Chunk(n).n = n
    /\ IsTerminal(End) /\ IsTerminal(Error) /\ End # Error
    /\ \A r \in Req : End \in Msg(r) /\ Error \in Msg(r)
    /\ \A r \in Req : \A m \in Msg(r) : ~IsTerminal(m) => \E n \in Nat : m = Chunk(n)
<1>1. \A n : Chunk(n).n = n /\ Chunk(n).type = "chunk"
  BY DEF Chunk
<1>2. End.type = "end" /\ Error.type = "error"
  BY DEF End, Error
<1>3. \A n : ~IsTerminal(Chunk(n))
  BY <1>1, <1>2 DEF IsTerminal
<1>4. \A r \in Req : \A m \in Msg(r) : ~IsTerminal(m) => \E n \in Nat : m = Chunk(n)
  BY WsRelayAssumption DEF Msg, IsTerminal
<1> QED BY <1>1, <1>2, <1>3, <1>4 DEF IsTerminal, Msg

(***************************************************************************)
(* The shape of the state: types, and what the reader can be doing.  The   *)
(* reader is with one message of a request the peer has received; it has a *)
(* terminal one exactly when the peer has ended the answer.                *)
(***************************************************************************)
DispOK ==
    disp # Idle =>
        /\ disp \in [pc : {"lock", "held", "settle", "finish"}, r : Req,
                     msg : UNION {Msg(r) : r \in Req}, ok : BOOLEAN]
        /\ disp.msg \in Msg(disp.r)
        /\ disp.r \in written
        /\ disp.r \in ended <=> IsTerminal(disp.msg)
        /\ disp.pc \in {"settle", "finish"} => IsTerminal(disp.msg)

Shape ==
    /\ TypeOK
    /\ ch = [r \in Req |-> ch[r]]
    /\ written \subseteq Req /\ ended \subseteq written /\ terminal \subseteq ended
    /\ sent \in [Req -> Nat] /\ got \in [Req -> Seq(Nat)]
    /\ result \in [Req -> {"none", "ok", "err"}]
    /\ DispOK

\* What the sequence operators of the module do to a channel.
LEMMA SeqFacts ==
  ASSUME NEW S, NEW s \in Seq(S), NEW m \in S
  PROVE  /\ Append(s, m) \in Seq(S) /\ Len(Append(s, m)) = Len(s) + 1
         /\ s # <<>> => Tail(s) \in Seq(S) /\ Len(Tail(s)) = Len(s) - 1 /\ Head(s) \in S
         /\ s # <<>> <=> Len(s) > 0
         /\ Len(s) \in Nat
  OBVIOUS

\* An error always finds room: it displaces a message of a full channel.
LEMMA PutErrorFacts ==
  ASSUME NEW r \in Req, NEW s \in Seq(Msg(r)), Len(s) <= Cap
  PROVE  /\ PutError(s) \in Seq(Msg(r)) /\ Len(PutError(s)) <= Cap
         /\ PutError(s) # <<>> /\ PutError(s)[Len(PutError(s))] = Error
<1>1. Error \in Msg(r)
  BY MsgFacts
<1>2. CASE Len(s) < Cap
  BY <1>1, <1>2, WsRelayAssumption DEF PutError
<1>3. CASE ~(Len(s) < Cap)
  <2>1. Tail(s) \in Seq(Msg(r)) /\ Len(Tail(s)) = Len(s) - 1
    BY <1>3, WsRelayAssumption
  <2>2. PutError(s) = Append(Tail(s), Error)
    BY <1>3 DEF PutError
  <2> QED BY <1>1, <2>1, <2>2, WsRelayAssumption
<1> QED BY <1>2, <1>3

\* Every step keeps the shape.
LEMMA ShapeStep == Shape /\ [Next]_vars => Shape'
<1> SUFFICES ASSUME Shape, [Next]_vars PROVE Shape'
  OBVIOUS
<1> USE DEF Shape, TypeOK, Sending
<1>D. ASSUME UNCHANGED <<disp, written, ended>> PROVE DispOK'
  BY <1>D DEF DispOK
<1>I. disp # Idle => disp.pc # "idle"
  BY DEF DispOK
<1>J. Idle.pc = "idle"
  BY DEF Idle
<1>1. ASSUME NEW r \in Req, CallStep(r) PROVE Shape'
  <2>1. CASE Lookup(r) \/ Store(r) \/ CheckOpen(r)
    BY <1>D, <2>1 DEF Lookup, Store, CheckOpen, Return, sessVars, reqVars, peerVars
  <2>2. ASSUME NEW arrives \in BOOLEAN, Write(r, arrives) PROVE Shape'
    <3>1. DispOK'
      BY <2>2 DEF Write, DispOK
    <3> QED BY <2>2, <3>1 DEF Write, sessVars, reqVars
  <2>3. CASE Undo(r)
    BY <1>D, <2>3 DEF Undo, Take, Return, sessVars, reqVars, peerVars
  <2> QED BY <1>1, <2>1, <2>2, <2>3 DEF CallStep
<1>2. ASSUME NEW r \in Req, Receive(r) PROVE Shape'
  <2>0. ch[r] \in Seq(Msg(r)) /\ ch[r] # <<>> /\ ch' = [ch EXCEPT ![r] = Tail(@)]
    BY <1>2 DEF Receive
  <2>1. Tail(ch[r]) \in Seq(Msg(r)) /\ Len(Tail(ch[r])) <= Cap /\ Head(ch[r]) \in Msg(r)
    BY <2>0, WsRelayAssumption
  <2>2. ch' = [q \in Req |-> ch'[q]] /\ \A q \in Req : ch'[q] \in Seq(Msg(q)) /\ Len(ch'[q]) <= Cap
    BY <2>0, <2>1
  <2>3. /\ pc' \in [Req -> {"new", "have", "stored", "write", "reading", "undo", "returned"} \cup Sending]
        /\ result' \in [Req -> {"none", "ok", "err"}]
    BY <1>2 DEF Receive, Return, Offer, Event
  <2>4. got' \in [Req -> Seq(Nat)]
    <3>1. CASE IsTerminal(Head(ch[r]))
      BY <1>2, <3>1 DEF Receive
    <3>2. CASE ~IsTerminal(Head(ch[r]))
      <4>1. Head(ch[r]).n \in Nat
        BY <2>1, <3>2, MsgFacts
      <4>2. Append(got[r], Head(ch[r]).n) \in Seq(Nat)
        BY <4>1
      <4> QED BY <1>2, <3>2, <4>2 DEF Receive
    <3> QED BY <3>1, <3>2
  <2> QED BY <1>2, <1>D, <2>2, <2>3, <2>4 DEF Receive, sessVars, peerVars
<1>3. ASSUME NEW r \in Req, ReceiveClosed(r) \/ ReceiveCancelled(r) \/ Forward(r) PROVE Shape'
  BY <1>3, <1>D DEF ReceiveClosed, ReceiveCancelled, Forward, Return, Offer, Event, sessVars, reqVars, peerVars
<1>4. ASSUME NEW r \in Req, CancelCtx(r) \/ AfterFunc(r) PROVE Shape'
  BY <1>4, <1>D DEF CancelCtx, AfterFunc, Take, sessVars, reqVars, peerVars, callVars
<1>5. ASSUME NEW r \in Req, Finish(r) PROVE Shape'
  <2>1. DispOK'
    BY <1>5 DEF Finish, DispOK, peerVars
  <2>2. ch' = [q \in Req |-> ch'[q]] /\ \A q \in Req : ch'[q] \in Seq(Msg(q)) /\ Len(ch'[q]) <= Cap
    BY <1>5, PutErrorFacts DEF Finish
  <2> QED BY <1>5, <2>1, <2>2 DEF Finish, sessVars, peerVars, callVars
<1>6. ASSUME NEW r \in Req, NEW msg \in Msg(r), Dispatch(r, msg) PROVE Shape'
  <2>1. UNCHANGED <<sessVars, pending, ctxDone, armed, taken, reqVars, written, callVars>>
    BY <1>6 DEF Dispatch
  <2>2. sent' \in [Req -> Nat] /\ ended' \subseteq written' /\ terminal' \subseteq ended'
    BY <1>6 DEF Dispatch, reqVars
  <2>3. r \in ended' <=> IsTerminal(msg)
    BY <1>6 DEF Dispatch
  <2>4. disp' = Idle \/ disp' = [pc |-> "lock", r |-> r, msg |-> msg, ok |-> FALSE]
    BY <1>6 DEF Dispatch
  <2>5. r \in written'
    BY <1>6 DEF Dispatch
  <2>6. DispOK'
    <3>1. CASE disp' = Idle
      BY <3>1 DEF DispOK
    <3>2. CASE disp' = [pc |-> "lock", r |-> r, msg |-> msg, ok |-> FALSE]
      <4>1. /\ disp'.pc = "lock" /\ disp'.r = r /\ disp'.msg = msg
            /\ msg \in UNION {Msg(q) : q \in Req}
        BY <3>2
      <4>2. disp' \in [pc : {"lock", "held", "settle", "finish"}, r : Req,
                       msg : UNION {Msg(q) : q \in Req}, ok : BOOLEAN]
        BY <3>2, <4>1
      <4> QED BY <2>3, <2>5, <4>1, <4>2 DEF DispOK
    <3> QED BY <2>4, <3>1, <3>2
  <2>7. disp' # Idle => disp'.pc \in {"lock", "held", "settle", "finish"} /\ disp'.msg \in Msg(disp'.r)
    BY <2>4
  <2> QED BY <2>1, <2>2, <2>6, <2>7 DEF sessVars, reqVars, callVars
<1>7. CASE Lock \/ GiveUp \/ Settle
  <2>1. disp # Idle
    BY <1>7, <1>J DEF Lock, GiveUp, Settle
  <2>2. \/ disp' = Idle
        \/ disp' = [disp EXCEPT !.pc = "held"]
        \/ disp' = [disp EXCEPT !.pc = "settle", !.ok = FALSE] /\ IsTerminal(disp.msg)
        \/ disp' = [disp EXCEPT !.pc = "finish"] /\ disp.pc = "settle"
    BY <1>7 DEF Lock, GiveUp, Settle, AfterDeliver
  <2>3. UNCHANGED <<sessVars, ctxDone, armed, reqVars, peerVars, callVars>>
    BY <1>7 DEF Lock, GiveUp, Settle
  <2>4. DispOK'
    BY <2>1, <2>2, <2>3 DEF DispOK, peerVars
  <2>5. pending' \subseteq Req /\ taken' \in [Req -> {"nobody", "call", "ctx", "reader", "cleanup"}]
    BY <1>7, <2>1 DEF Lock, GiveUp, Settle, Take, DispOK
  <2> QED BY <2>3, <2>4, <2>5 DEF sessVars, reqVars, peerVars, callVars, DispOK
<1>8. CASE Put
  <2>1. disp # Idle /\ disp.pc = "held" /\ Len(ch[disp.r]) < Cap
    BY <1>8, <1>J DEF Put
  <2>2. disp.r \in Req /\ disp.msg \in Msg(disp.r)
    BY <2>1 DEF DispOK
  <2>3. ch' = [q \in Req |-> ch'[q]] /\ \A q \in Req : ch'[q] \in Seq(Msg(q)) /\ Len(ch'[q]) <= Cap
    <3>1. ch[disp.r] \in Seq(Msg(disp.r)) /\ Cap \in Nat
      BY <2>2, WsRelayAssumption
    <3>2. /\ Append(ch[disp.r], disp.msg) \in Seq(Msg(disp.r))
          /\ Len(Append(ch[disp.r], disp.msg)) <= Cap
      BY <2>1, <2>2, <3>1, SeqFacts
    <3>3. ch' = [ch EXCEPT ![disp.r] = Append(ch[disp.r], disp.msg)]
      BY <1>8 DEF Put
    <3>4. ch'[disp.r] = Append(ch[disp.r], disp.msg) /\ \A q \in Req : q # disp.r => ch'[q] = ch[q]
      BY <2>2, <3>3
    <3> QED BY <2>2, <3>2, <3>3, <3>4
  <2>4. disp' = Idle \/ (disp' = [disp EXCEPT !.pc = "settle", !.ok = TRUE] /\ IsTerminal(disp.msg))
    BY <1>8 DEF Put, AfterDeliver
  <2>5. UNCHANGED <<sessVars, pending, ctxDone, armed, taken, chClosed, peerVars, callVars>>
    BY <1>8 DEF Put
  <2>6. DispOK'
    BY <2>1, <2>4, <2>5 DEF DispOK, peerVars
  <2>7. terminal' \subseteq ended'
    BY <1>8, <2>1, <2>5 DEF Put, DispOK, peerVars
  <2> QED BY <2>3, <2>5, <2>6, <2>7 DEF sessVars, peerVars, callVars, DispOK
<1>9. CASE Stop \/ Cleanup \/ CloseConn \/ HandleSessionClosed
  BY <1>9, <1>D DEF Stop, Cleanup, CloseConn, HandleSessionClosed, reqVars, peerVars, callVars
<1>10. ASSUME NEW r \in Req, Visit(r) PROVE Shape'
  BY <1>10, <1>D DEF Visit, Take, reqVars, peerVars, callVars
<1>11. CASE UNCHANGED vars
  BY <1>11, <1>D DEF vars, sessVars, reqVars, peerVars, callVars
<1> QED BY <1>1, <1>2, <1>3, <1>4, <1>5, <1>6, <1>7, <1>8, <1>9, <1>10, <1>11
        DEF Next, Consume, Deliver, CleanupStep, Quiet

LEMMA ShapeInit == Init => Shape
<1> SUFFICES ASSUME Init PROVE Shape
  OBVIOUS
<1>1. \A r \in Req : <<>> \in Seq(Msg(r)) /\ Len(<<>>) <= Cap
  BY WsRelayAssumption
<1>2. got \in [Req -> Seq(Nat)] /\ sent \in [Req -> Nat]
  BY DEF Init
<1>3. DispOK
  BY DEF Init, DispOK
<1> QED BY <1>1, <1>2, <1>3 DEF Init, Shape, TypeOK

\* Types, for every instance: no channel ever holds more than its capacity.
THEOREM RelayTypes == Spec => []TypeOK
<1>1. Shape => TypeOK
  BY DEF Shape
<1> QED BY <1>1, ShapeInit, ShapeStep, PTL DEF Spec

-----------------------------------------------------------------------------
(***************************************************************************)
(* cleanup against request.  NoOrphan is not inductive: it says nothing    *)
(* while Range is running.  Once closed is set no call gets past its check *)
(* of closed, so what is in the map and not on Range's list belongs to a   *)
(* call that stored its entry and will find closed, or has found it.       *)
(***************************************************************************)
SweepInv ==
    /\ cleaning # "no" => closed
    /\ cleaning # "no" => \A r \in pending \ toVisit : pc[r] \in {"stored", "undo"}
    /\ cleaning \in {"unregister", "done"} => toVisit = {}

LEMMA SweepStep == Shape /\ SweepInv /\ [Next]_vars => SweepInv'
<1> SUFFICES ASSUME Shape, SweepInv, [Next]_vars PROVE SweepInv'
  OBVIOUS
<1> USE DEF SweepInv
<1>0. /\ pc \in [Req -> {"new", "have", "stored", "write", "reading", "undo", "returned"} \cup Sending]
      /\ pending \subseteq Req
  BY DEF Shape, TypeOK
<1>1. ASSUME NEW r \in Req, CallStep(r) PROVE SweepInv'
  <2>1. CASE Lookup(r) \/ Store(r) \/ CheckOpen(r)
    BY <1>0, <2>1 DEF Lookup, Store, CheckOpen, Return, sessVars
  <2>2. CASE Undo(r) \/ \E arrives \in BOOLEAN : Write(r, arrives)
    BY <1>0, <2>2 DEF Undo, Take, Return, Write, sessVars
  <2> QED BY <1>1, <2>1, <2>2 DEF CallStep
<1>2. ASSUME NEW r \in Req, Consume(r) \/ Forward(r) PROVE SweepInv'
  BY <1>0, <1>2 DEF Consume, Receive, ReceiveClosed, ReceiveCancelled, Forward, Return, Offer, Event, Sending, sessVars
<1>3. ASSUME NEW r \in Req, CancelCtx(r) \/ AfterFunc(r) \/ Finish(r) PROVE SweepInv'
  BY <1>3 DEF CancelCtx, AfterFunc, Take, Finish, sessVars, callVars
<1>4. ASSUME NEW r \in Req, NEW msg \in Msg(r), Dispatch(r, msg) PROVE SweepInv'
  BY <1>4 DEF Dispatch, sessVars, callVars
<1>5. CASE Deliver
  BY <1>5 DEF Deliver, Lock, Put, GiveUp, Settle, Take, sessVars, callVars
<1>6. CASE Stop \/ Cleanup \/ CloseConn \/ HandleSessionClosed
  BY <1>6 DEF Stop, Cleanup, CloseConn, HandleSessionClosed, callVars
<1>7. ASSUME NEW r \in Req, Visit(r) PROVE SweepInv'
  BY <1>7 DEF Visit, Take, callVars
<1>8. CASE UNCHANGED vars
  BY <1>8 DEF vars, sessVars, callVars
<1> QED BY <1>1, <1>2, <1>3, <1>4, <1>5, <1>6, <1>7, <1>8 DEF Next, CleanupStep, Quiet

\* cleanup leaves no request behind: an entry still in the map when the session is
\* forgotten belongs to a call that will withdraw it itself.
THEOREM RelayNoOrphan == Spec => []NoOrphan
<1>1. Init => SweepInv
  BY DEF Init, SweepInv
<1>2. SweepInv => NoOrphan
  BY DEF SweepInv, NoOrphan
<1> QED BY <1>1, <1>2, ShapeInit, ShapeStep, SweepStep, PTL DEF Spec

-----------------------------------------------------------------------------
(***************************************************************************)
(* The request's mutex.  While deliver waits for room it holds the mutex,  *)
(* so nobody closes the channel it is about to write to.                   *)
(***************************************************************************)
HeldInv == disp.pc = "held" => disp.r \notin chClosed \cup terminal

LEMMA HeldStep == Shape /\ HeldInv /\ [Next]_vars => HeldInv'
<1> SUFFICES ASSUME Shape, HeldInv, [Next]_vars PROVE HeldInv'
  OBVIOUS
<1> USE DEF HeldInv
<1>0. Idle.pc = "idle"
  BY DEF Idle
<1>D. DispOK
  BY DEF Shape
<1>1. ASSUME NEW r \in Req, CallStep(r) PROVE HeldInv'
  BY <1>1 DEF CallStep, Lookup, Store, CheckOpen, Write, Undo, reqVars
<1>2. ASSUME NEW r \in Req, Consume(r) \/ Forward(r) PROVE HeldInv'
  BY <1>2 DEF Consume, Receive, ReceiveClosed, ReceiveCancelled, Forward, reqVars
<1>3. ASSUME NEW r \in Req, CancelCtx(r) \/ AfterFunc(r) PROVE HeldInv'
  BY <1>3 DEF CancelCtx, AfterFunc, reqVars
<1>4. ASSUME NEW r \in Req, Finish(r) PROVE HeldInv'
  BY <1>0, <1>4 DEF Finish, MutexFree
<1>5. ASSUME NEW r \in Req, NEW msg \in Msg(r), Dispatch(r, msg) PROVE HeldInv'
  <2>1. disp'.pc # "held"
    BY <1>0, <1>5 DEF Dispatch
  <2> QED BY <2>1
<1>6. CASE Lock
  <2>1. disp # Idle
    BY <1>0, <1>6 DEF Lock
  <2>2. CASE disp.r \in chClosed \cup terminal
    BY <1>0, <1>6, <1>D, <2>1, <2>2 DEF Lock, AfterDeliver, DispOK
  <2>3. CASE disp.r \notin chClosed \cup terminal
    BY <1>6, <1>D, <2>1, <2>3 DEF Lock, DispOK, reqVars
  <2> QED BY <2>2, <2>3
<1>7. CASE Put \/ GiveUp \/ Settle
  <2>1. disp # Idle
    BY <1>0, <1>7 DEF Put, GiveUp, Settle
  <2>2. disp'.pc # "held"
    BY <1>0, <1>7, <1>D, <2>1 DEF Put, GiveUp, Settle, AfterDeliver, DispOK
  <2> QED BY <2>2
<1>8. CASE Stop \/ Cleanup \/ CleanupStep
  BY <1>8 DEF Stop, Cleanup, CleanupStep, Visit, CloseConn, HandleSessionClosed, reqVars
<1>9. CASE UNCHANGED vars
  BY <1>9 DEF vars, reqVars
<1> QED BY <1>1, <1>2, <1>3, <1>4, <1>5, <1>6, <1>7, <1>8, <1>9 DEF Next, Deliver, Quiet

\* No message is written to a closed channel, whoever closes it and however the
\* reader is interleaved with cleanup, the context's AfterFunc and the call.
THEOREM RelayNoSendOnClosed == Spec => NoSendOnClosed
<1>1. ASSUME Shape, HeldInv, [Next]_vars, NEW r \in chClosed PROVE Len(ch'[r]) <= Len(ch[r])
  <2> USE <1>1
  <2>0. /\ r \in Req /\ ch[r] \in Seq(Msg(r)) /\ Len(ch[r]) \in Nat
        /\ ch = [q \in Req |-> ch[q]]
    BY DEF Shape, TypeOK
  <2>1. ASSUME ch' = ch PROVE Len(ch'[r]) <= Len(ch[r])
    BY <2>0, <2>1
  <2>2. ASSUME NEW q \in Req, CallStep(q) \/ CancelCtx(q) \/ AfterFunc(q) PROVE ch' = ch
    BY <2>2 DEF CallStep, Lookup, Store, CheckOpen, Write, Undo, CancelCtx, AfterFunc, reqVars
  <2>3. ASSUME NEW q \in Req, Receive(q) PROVE Len(ch'[r]) <= Len(ch[r])
    <3>1. /\ ch[q] \in Seq(Msg(q)) /\ ch[q] # <<>> /\ ch' = [ch EXCEPT ![q] = Tail(ch[q])]
      BY <2>3 DEF Receive, Shape, TypeOK
    <3>2. Len(Tail(ch[q])) = Len(ch[q]) - 1
      BY <3>1
    <3> QED BY <2>0, <3>1, <3>2
  <2>4. ASSUME NEW q \in Req, ReceiveClosed(q) \/ ReceiveCancelled(q) \/ Forward(q) PROVE ch' = ch
    BY <2>4 DEF ReceiveClosed, ReceiveCancelled, Forward, reqVars
  <2>5. ASSUME NEW q \in Req, Finish(q) PROVE Len(ch'[r]) <= Len(ch[r])
    BY <2>0, <2>5 DEF Finish
  <2>6. ASSUME NEW q \in Req, NEW msg \in Msg(q), Dispatch(q, msg) PROVE ch' = ch
    BY <2>6 DEF Dispatch, reqVars
  <2>7. CASE Put
    BY <2>0, <2>7 DEF Put, HeldInv
  <2>8. CASE Lock \/ GiveUp \/ Settle \/ Stop \/ Cleanup \/ CleanupStep \/ UNCHANGED vars
    BY <2>1, <2>8 DEF Lock, GiveUp, Settle, Stop, Cleanup, CleanupStep, Visit, CloseConn,
                      HandleSessionClosed, vars, reqVars
  <2> QED BY <2>1, <2>2, <2>3, <2>4, <2>5, <2>6, <2>7, <2>8 DEF Next, Consume, Deliver, Quiet
<1>2. Shape /\ HeldInv /\ [Next]_vars => [\A r \in chClosed : Len(ch'[r]) <= Len(ch[r])]_vars
  BY <1>1
<1>3. Init => HeldInv
  BY DEF Init, HeldInv
<1> QED BY <1>2, <1>3, ShapeInit, ShapeStep, HeldStep, PTL DEF Spec, NoSendOnClosed

-----------------------------------------------------------------------------
(***************************************************************************)
(* What a call is told.  Five facts, each inductive with the ones before.  *)
(***************************************************************************)
\* A call whose session is open and whose context is not done.
Live(r) == ~closed /\ r \notin ctxDone

\* Who takes an entry out of the map has a reason, and the reader is at it.
TakerInv ==
    \A r \in Req :
        /\ taken[r] = "call" => pc[r] = "returned"
        /\ taken[r] = "ctx" => r \in ctxDone
        /\ taken[r] = "cleanup" => closed
        /\ taken[r] = "reader" => disp.pc = "finish" /\ disp.r = r

\* A reader that is past deliverTerminal delivered the message, or knows why not.
SettleInv ==
    disp.pc \in {"settle", "finish"} =>
        /\ disp.ok => disp.r \in terminal
        /\ ~disp.ok => closed \/ disp.r \in ctxDone \/ disp.r \in chClosed \cup terminal

\* A call that has returned or, a Stream, is offering its last event.
Over == {"sendEnd", "sendError", "returned"}

\* A closed channel ends with a terminal message, and End is never made up.
Told(r) ==
    /\ r \in chClosed \cup terminal /\ pc[r] \notin Over /\ r \notin ctxDone =>
           ch[r] # <<>> /\ IsTerminal(ch[r][Len(ch[r])])
    /\ \A i \in 1..Len(ch[r]) : ch[r][i] = End => r \in terminal
ToldInv == \A r \in Req : Told(r)

\* A live call keeps its entry, and its channel open, until the peer has ended.
EntryInv ==
    \A r \in Req :
        /\ r \in written => pc[r] \in {"reading", "returned"} \cup Sending
        /\ Live(r) /\ pc[r] \in {"stored", "write", "undo", "reading"} \cup Sending => r \in pending \cup ended
        /\ Live(r) /\ pc[r] # "returned" /\ r \in chClosed => r \in ended

\* The reader has a chunk of request r in hand.
HasChunk(r) == disp # Idle /\ disp.r = r /\ ~IsTerminal(disp.msg)

\* The chunks of a live call, from the peer to the consumer: those consumed, those
\* in the channel and the one in the reader's hand are 1, 2, ... sent[r], in order,
\* and a terminal message comes after all of them.
Flow(r) ==
    LET n == Len(got[r])
        L == Len(ch[r])
    IN  /\ got[r] = [i \in 1..n |-> i]
        /\ r \notin terminal =>
              /\ \A i \in 1..L : ch[r][i] = Chunk(n + i)
              /\ HasChunk(r) => disp.msg = Chunk(sent[r]) /\ sent[r] = n + L + 1
              /\ ~HasChunk(r) => sent[r] = n + L
        /\ r \in terminal =>
              /\ L >= 1 /\ sent[r] = n + L - 1
              /\ \A i \in 1..(L - 1) : ch[r][i] = Chunk(n + i)

FlowInv == \A r \in Req : Live(r) /\ pc[r] \notin Over => Flow(r)

\* What the reader's record is, step by step.
LEMMA ReaderSteps ==
  ASSUME Shape
  PROVE  /\ Idle.pc = "idle"
         /\ disp.pc \in {"lock", "held", "settle", "finish"} => disp # Idle
         /\ disp # Idle => /\ disp.r \in Req /\ disp.ok \in BOOLEAN /\ disp.msg \in Msg(disp.r)
                           /\ disp.r \in written /\ disp.pc # "idle"
         /\ Lock /\ disp' # Idle => disp'.r = disp.r /\ disp'.msg = disp.msg
         /\ Put /\ disp' # Idle => disp'.r = disp.r /\ disp'.msg = disp.msg
         /\ GiveUp /\ disp' # Idle => disp'.r = disp.r /\ disp'.msg = disp.msg
         /\ Settle /\ disp' # Idle => /\ disp'.r = disp.r /\ disp'.msg = disp.msg
                                      /\ disp'.ok = disp.ok /\ disp'.pc = "finish"
<1>1. Idle.pc = "idle"
  BY DEF Idle
<1>2. disp.pc \in {"lock", "held", "settle", "finish"} => disp # Idle
  BY <1>1
<1>3. disp # Idle => /\ disp.r \in Req /\ disp.ok \in BOOLEAN /\ disp.msg \in Msg(disp.r)
                     /\ disp.r \in written /\ disp.pc # "idle"
  BY DEF Shape, DispOK
<1>4. ASSUME disp # Idle, NEW p, NEW b
      PROVE  /\ [disp EXCEPT !.pc = p].r = disp.r /\ [disp EXCEPT !.pc = p].msg = disp.msg
             /\ [disp EXCEPT !.pc = p].ok = disp.ok /\ [disp EXCEPT !.pc = p].pc = p
             /\ [disp EXCEPT !.pc = p, !.ok = b].r = disp.r
             /\ [disp EXCEPT !.pc = p, !.ok = b].msg = disp.msg
  BY <1>4 DEF Shape, DispOK
<1>5. Lock /\ disp' # Idle => disp'.r = disp.r /\ disp'.msg = disp.msg
  BY <1>2, <1>4 DEF Lock, AfterDeliver
<1>6. Put /\ disp' # Idle => disp'.r = disp.r /\ disp'.msg = disp.msg
  BY <1>2, <1>4 DEF Put, AfterDeliver
<1>7. GiveUp /\ disp' # Idle => disp'.r = disp.r /\ disp'.msg = disp.msg
  BY <1>2, <1>4 DEF GiveUp, AfterDeliver
<1>8. Settle /\ disp' # Idle => /\ disp'.r = disp.r /\ disp'.msg = disp.msg
                                /\ disp'.ok = disp.ok /\ disp'.pc = "finish"
  BY <1>2, <1>4 DEF Settle
<1> QED BY <1>1, <1>2, <1>3, <1>5, <1>6, <1>7, <1>8

LEMMA TakerStep == Shape /\ SweepInv /\ TakerInv /\ [Next]_vars => TakerInv'
<1> SUFFICES ASSUME Shape, SweepInv, TakerInv, [Next]_vars PROVE TakerInv'
  OBVIOUS
<1> USE DEF TakerInv
<1>0. /\ pc \in [Req -> {"new", "have", "stored", "write", "reading", "undo", "returned"} \cup Sending]
      /\ taken \in [Req -> {"nobody", "call", "ctx", "reader", "cleanup"}]
  BY DEF Shape, TypeOK
<1>1. ASSUME NEW r \in Req, CallStep(r) PROVE TakerInv'
  <2>1. CASE Lookup(r) \/ Store(r) \/ CheckOpen(r)
    BY <1>0, <2>1 DEF Lookup, Store, CheckOpen, Return, sessVars
  <2>2. CASE Undo(r) \/ \E arrives \in BOOLEAN : Write(r, arrives)
    BY <1>0, <2>2 DEF Undo, Take, Return, Write, sessVars
  <2> QED BY <1>1, <2>1, <2>2 DEF CallStep
<1>2. ASSUME NEW r \in Req, Consume(r) \/ Forward(r) PROVE TakerInv'
  BY <1>0, <1>2 DEF Consume, Receive, ReceiveClosed, ReceiveCancelled, Forward, Return, Offer, Event, Sending, sessVars
<1>3. ASSUME NEW r \in Req, CancelCtx(r) \/ AfterFunc(r) PROVE TakerInv'
  BY <1>0, <1>3 DEF CancelCtx, AfterFunc, Take, sessVars, callVars
<1>4. ASSUME NEW r \in Req, Finish(r) PROVE TakerInv'
  BY <1>0, <1>4 DEF Finish, sessVars, callVars
<1>5. ASSUME NEW r \in Req, NEW msg \in Msg(r), Dispatch(r, msg) PROVE TakerInv'
  BY <1>0, <1>5, ReaderSteps DEF Dispatch, sessVars, callVars
<1>6. CASE Lock \/ Put \/ GiveUp
  <2>1. disp.pc # "finish" /\ UNCHANGED <<closed, ctxDone, taken, pc>>
    BY <1>6 DEF Lock, Put, GiveUp, sessVars, callVars
  <2> QED BY <2>1
<1>7. CASE Settle
  BY <1>0, <1>7, ReaderSteps DEF Settle, Take, sessVars, callVars
<1>8. CASE Stop \/ Cleanup \/ CloseConn \/ HandleSessionClosed
  BY <1>8 DEF Stop, Cleanup, CloseConn, HandleSessionClosed, callVars
<1>9. ASSUME NEW r \in Req, Visit(r) PROVE TakerInv'
  BY <1>0, <1>9 DEF Visit, Take, SweepInv, callVars
<1>10. CASE UNCHANGED vars
  BY <1>10 DEF vars, sessVars, callVars
<1> QED BY <1>1, <1>2, <1>3, <1>4, <1>5, <1>6, <1>7, <1>8, <1>9, <1>10
        DEF Next, CleanupStep, Deliver, Quiet

LEMMA SettleStep == Shape /\ SettleInv /\ [Next]_vars => SettleInv'
<1> SUFFICES ASSUME Shape, SettleInv, [Next]_vars PROVE SettleInv'
  OBVIOUS
<1> USE DEF SettleInv
<1>D. DispOK
  BY DEF Shape
<1>1. ASSUME NEW r \in Req, CallStep(r) PROVE SettleInv'
  BY <1>1 DEF CallStep, Lookup, Store, CheckOpen, Undo, Write, Take, sessVars, reqVars
<1>2. ASSUME NEW r \in Req, Consume(r) \/ Forward(r) PROVE SettleInv'
  BY <1>2 DEF Consume, Receive, ReceiveClosed, ReceiveCancelled, Forward, sessVars, reqVars
<1>3. ASSUME NEW r \in Req, CancelCtx(r) \/ AfterFunc(r) PROVE SettleInv'
  BY <1>3 DEF CancelCtx, AfterFunc, sessVars, reqVars
<1>4. ASSUME NEW r \in Req, Finish(r) PROVE SettleInv'
  BY <1>4, ReaderSteps DEF Finish, sessVars
<1>5. ASSUME NEW r \in Req, NEW msg \in Msg(r), Dispatch(r, msg) PROVE SettleInv'
  <2>1. disp'.pc \notin {"settle", "finish"}
    BY <1>5, ReaderSteps DEF Dispatch
  <2> QED BY <2>1
<1>6. ASSUME NEW ok \in BOOLEAN, disp # Idle, disp' = AfterDeliver(ok)
      PROVE  disp' = Idle \/ (disp'.r = disp.r /\ disp'.ok = ok /\ IsTerminal(disp.msg))
  BY <1>6, <1>D DEF AfterDeliver, DispOK
<1>7. CASE Lock
  <2>1. CASE disp.r \in chClosed \cup terminal
    BY <1>6, <1>7, <2>1, ReaderSteps DEF Lock, reqVars
  <2>2. CASE disp.r \notin chClosed \cup terminal
    <3>1. disp'.pc = "held"
      BY <1>7, <2>2, <1>D, ReaderSteps DEF Lock, DispOK
    <3> QED BY <3>1
  <2> QED BY <2>1, <2>2
<1>8. CASE Put
  BY <1>6, <1>8, ReaderSteps DEF Put
<1>9. CASE GiveUp
  BY <1>6, <1>9, ReaderSteps DEF GiveUp, sessVars
<1>10. CASE Settle
  BY <1>10, ReaderSteps DEF Settle, sessVars, reqVars
<1>11. CASE Stop \/ Cleanup \/ CleanupStep
  BY <1>11 DEF Stop, Cleanup, CleanupStep, Visit, CloseConn, HandleSessionClosed, reqVars
<1>12. CASE UNCHANGED vars
  BY <1>12 DEF vars, sessVars, reqVars
<1> QED BY <1>1, <1>2, <1>3, <1>4, <1>5, <1>7, <1>8, <1>9, <1>10, <1>11, <1>12
        DEF Next, Deliver, Quiet

LEMMA EntryStep == Shape /\ TakerInv /\ EntryInv /\ SweepInv /\ [Next]_vars => EntryInv'
<1> SUFFICES ASSUME Shape, TakerInv, EntryInv, SweepInv, [Next]_vars PROVE EntryInv'
  OBVIOUS
<1> USE DEF EntryInv, Live, Sending
<1>0. /\ pc \in [Req -> {"new", "have", "stored", "write", "reading", "undo", "returned"} \cup Sending]
      /\ ended \subseteq written /\ DispOK
  BY DEF Shape, TypeOK
<1>1. ASSUME NEW r \in Req, CallStep(r) PROVE EntryInv'
  <2>1. CASE Lookup(r) \/ Store(r) \/ CheckOpen(r)
    BY <1>0, <2>1 DEF Lookup, Store, CheckOpen, Return, sessVars, reqVars, peerVars
  <2>2. CASE Undo(r) \/ \E arrives \in BOOLEAN : Write(r, arrives)
    BY <1>0, <2>2 DEF Undo, Take, Return, Write, sessVars, reqVars, peerVars
  <2> QED BY <1>1, <2>1, <2>2 DEF CallStep
<1>2. ASSUME NEW r \in Req, Consume(r) \/ Forward(r) PROVE EntryInv'
  BY <1>0, <1>2 DEF Consume, Receive, ReceiveClosed, ReceiveCancelled, Forward, Return, Offer, Event, Sending, sessVars, reqVars,
                    peerVars
<1>3. ASSUME NEW r \in Req, CancelCtx(r) \/ AfterFunc(r) PROVE EntryInv'
  BY <1>0, <1>3 DEF CancelCtx, AfterFunc, Take, sessVars, reqVars, peerVars, callVars
<1>4. ASSUME NEW r \in Req, Finish(r) PROVE EntryInv'
  <2>1. taken[r] = "reader" => r \in ended
    BY <1>0, ReaderSteps DEF TakerInv, DispOK
  <2>2. Live(r) /\ pc[r] # "returned" => r \in ended
    BY <1>4, <2>1 DEF Finish, TakerInv, Shape, TypeOK
  <2> QED BY <1>4, <2>2 DEF Finish, sessVars, peerVars, callVars
<1>5. ASSUME NEW r \in Req, NEW msg \in Msg(r), Dispatch(r, msg) PROVE EntryInv'
  BY <1>0, <1>5 DEF Dispatch, sessVars, reqVars, callVars
<1>6. CASE Lock \/ Put \/ GiveUp
  <2>1. UNCHANGED <<closed, ctxDone, pending, pc, chClosed, written, ended>>
    BY <1>6 DEF Lock, Put, GiveUp, sessVars, reqVars, peerVars, callVars
  <2> QED BY <2>1
<1>7. CASE Settle
  <2>1. disp.r \in ended
    BY <1>0, <1>7, ReaderSteps DEF Settle, DispOK
  <2> QED BY <1>7, <2>1 DEF Settle, Take, sessVars, reqVars, peerVars, callVars
<1>8. CASE Stop \/ Cleanup \/ CloseConn \/ HandleSessionClosed
  BY <1>8 DEF Stop, Cleanup, CloseConn, HandleSessionClosed, reqVars, peerVars, callVars
<1>9. ASSUME NEW r \in Req, Visit(r) PROVE EntryInv'
  BY <1>9 DEF Visit, Take, SweepInv, reqVars, peerVars, callVars
<1>10. CASE UNCHANGED vars
  BY <1>10 DEF vars, sessVars, reqVars, peerVars, callVars
<1> QED BY <1>1, <1>2, <1>3, <1>4, <1>5, <1>6, <1>7, <1>8, <1>9, <1>10
        DEF Next, CleanupStep, Deliver, Quiet

\* Where the elements of a channel come from.
LEMMA SeqElems ==
  ASSUME NEW S, NEW s \in Seq(S), NEW m \in S
  PROVE  /\ Append(s, m)[Len(s) + 1] = m
         /\ \A i \in 1..Len(s) : Append(s, m)[i] = s[i]
         /\ s # <<>> => Head(s) = s[1] /\ \A i \in 1..(Len(s) - 1) : Tail(s)[i] = s[i + 1]
  OBVIOUS

\* The error is the only new element of a channel that is failed.
LEMMA PutErrorElems ==
  ASSUME NEW r \in Req, NEW s \in Seq(Msg(r)), Len(s) <= Cap
  PROVE  \A i \in 1..Len(PutError(s)) :
             PutError(s)[i] = End => \E j \in 1..Len(s) : s[j] = End
<1>1. Error \in Msg(r) /\ End # Error
  BY MsgFacts
<1>2. CASE Len(s) < Cap
  <2>1. PutError(s) = Append(s, Error)
    BY <1>2 DEF PutError
  <2> QED BY <1>1, <2>1, SeqFacts, SeqElems
<1>3. CASE ~(Len(s) < Cap)
  <2>1. PutError(s) = Append(Tail(s), Error)
    BY <1>3 DEF PutError
  <2>2. s # <<>> /\ Tail(s) \in Seq(Msg(r)) /\ Len(Tail(s)) = Len(s) - 1 /\ Len(Tail(s)) \in Nat
    BY <1>3, WsRelayAssumption
  <2>3. /\ Len(Append(Tail(s), Error)) = Len(Tail(s)) + 1
        /\ Append(Tail(s), Error)[Len(Tail(s)) + 1] = Error
    BY <1>1, <2>2, SeqFacts, SeqElems
  <2>4. ASSUME NEW i \in 1..Len(PutError(s)), PutError(s)[i] = End
        PROVE \E j \in 1..Len(s) : s[j] = End
    <3>1. i \in 1..(Len(Tail(s)) + 1) /\ i # Len(Tail(s)) + 1
      BY <1>1, <2>1, <2>3, <2>4
    <3>2. i \in 1..Len(Tail(s))
      <4>1. ASSUME NEW k \in Nat, i \in 1..(k + 1), i # k + 1 PROVE i \in 1..k
        BY <4>1
      <4> QED BY <2>2, <3>1, <4>1
    <3>3. Append(Tail(s), Error)[i] = Tail(s)[i]
      BY <1>1, <2>2, <3>2, SeqElems
    <3>4. Tail(s)[i] = s[i + 1]
      BY <1>1, <2>2, <3>2, SeqElems
    <3>5. s[i + 1] = End /\ i + 1 \in 1..Len(s)
      BY <2>1, <2>2, <2>4, <3>2, <3>3, <3>4
    <3> QED BY <3>5
  <2> QED BY <2>4
<1> QED BY <1>2, <1>3

\* A step that keeps a request's channel and flags, and reopens no call, keeps Told.
LEMMA ToldFrame ==
  ASSUME NEW r \in Req, Told(r), ch'[r] = ch[r], ctxDone \subseteq ctxDone',
         r \in chClosed' => r \in chClosed \cup terminal, r \in terminal' <=> r \in terminal,
         pc'[r] \notin Over => pc[r] \notin Over
  PROVE  Told(r)'
  BY DEF Told

LEMMA ToldStep == Shape /\ HeldInv /\ TakerInv /\ SettleInv /\ ToldInv /\ [Next]_vars => ToldInv'
<1> SUFFICES ASSUME Shape, HeldInv, TakerInv, SettleInv, ToldInv, [Next]_vars, NEW q \in Req
             PROVE Told(q)'
  BY DEF ToldInv
<1> USE DEF Over, Sending
<1>0. /\ pc \in [Req -> {"new", "have", "stored", "write", "reading", "undo", "returned"} \cup Sending]
      /\ taken \in [Req -> {"nobody", "call", "ctx", "reader", "cleanup"}]
      /\ ch = [r \in Req |-> ch[r]]
      /\ \A r \in Req : ch[r] \in Seq(Msg(r)) /\ Len(ch[r]) \in Nat /\ Len(ch[r]) <= Cap
  BY DEF Shape, TypeOK
<1>T. Told(q)
  BY DEF ToldInv
<1>1. ASSUME NEW r \in Req, CallStep(r) PROVE Told(q)'
  <2>1. UNCHANGED <<ctxDone, reqVars>> /\ (pc'[q] \notin Over => pc[q] \notin Over)
    BY <1>0, <1>1 DEF CallStep, Lookup, Store, CheckOpen, Write, Undo, Return
  <2> QED BY <1>T, <2>1, ToldFrame DEF reqVars
<1>2. ASSUME NEW r \in Req, Receive(r) PROVE Told(q)'
  <2>0. /\ UNCHANGED <<ctxDone, chClosed, terminal>> /\ pc[r] = "reading" /\ ch[r] # <<>>
        /\ ch' = [ch EXCEPT ![r] = Tail(ch[r])] /\ pc[r] \notin Over
        /\ \A p \in Req : p # r => pc'[p] = pc[p]
        /\ IsTerminal(Head(ch[r])) => pc'[r] \in Over
    BY <1>0, <1>2 DEF Receive, Return, Offer, Event, IsTerminal
  <2>1. CASE q # r
    <3>1. ch'[q] = ch[q] /\ pc'[q] = pc[q]
      BY <1>0, <2>0, <2>1
    <3> QED BY <1>T, <2>0, <3>1, ToldFrame
  <2>2. CASE q = r
    <3> DEFINE s == ch[r]
               t == Tail(ch[r])
    <3>1. ch'[q] = t
      BY <1>0, <2>0, <2>2
    <3>2. /\ s \in Seq(Msg(r)) /\ s # <<>> /\ Len(s) \in Nat /\ Len(s) >= 1
          /\ t \in Seq(Msg(r)) /\ Len(t) = Len(s) - 1 /\ Head(s) = s[1]
          /\ \A i \in 1..(Len(s) - 1) : t[i] = s[i + 1]
      BY <1>0, <2>0, SeqFacts, SeqElems
    <3>5. s = ch[q] /\ Head(ch[r]) = s[1]
      BY <2>2, <3>2
    <3> HIDE DEF s, t
    <3>3. ASSUME NEW i \in 1..Len(t), t[i] = End PROVE r \in terminal
      <4>1. i + 1 \in 1..Len(s) /\ s[i + 1] = End
        BY <3>2, <3>3
      <4> QED BY <1>T, <2>2, <3>5, <4>1 DEF Told
    <3>4. ASSUME r \in chClosed \cup terminal, pc'[r] \notin Over, r \notin ctxDone
          PROVE  t # <<>> /\ IsTerminal(t[Len(t)])
      <4>1. s # <<>> /\ IsTerminal(s[Len(s)]) /\ ~IsTerminal(s[1])
        BY <1>T, <2>0, <2>2, <3>4, <3>5 DEF Told
      <4>2. Len(s) # 1
        BY <4>1
      <4>3. Len(t) >= 1 /\ Len(t) \in 1..(Len(s) - 1) /\ Len(t) + 1 = Len(s)
        BY <3>2, <4>2
      <4>4. t[Len(t)] = s[Len(s)]
        BY <3>2, <4>3
      <4>5. Len(<<>>) = 0
        OBVIOUS
      <4> QED BY <4>1, <4>3, <4>4, <4>5
    <3> QED BY <2>0, <2>2, <3>1, <3>3, <3>4 DEF Told
  <2> QED BY <2>1, <2>2
<1>3. ASSUME NEW r \in Req, ReceiveClosed(r) \/ ReceiveCancelled(r) \/ Forward(r) PROVE Told(q)'
  <2>1. UNCHANGED <<ctxDone, reqVars>> /\ (pc'[q] \notin Over => pc[q] \notin Over)
    BY <1>0, <1>3 DEF ReceiveClosed, ReceiveCancelled, Forward, Return, Offer, Event
  <2> QED BY <1>T, <2>1, ToldFrame DEF reqVars
<1>4. ASSUME NEW r \in Req, CancelCtx(r) \/ AfterFunc(r) PROVE Told(q)'
  <2>1. UNCHANGED <<reqVars, pc>> /\ ctxDone \subseteq ctxDone'
    BY <1>4 DEF CancelCtx, AfterFunc, callVars
  <2> QED BY <1>T, <2>1, ToldFrame DEF reqVars
<1>5. ASSUME NEW r \in Req, Finish(r) PROVE Told(q)'
  <2>0. UNCHANGED <<ctxDone, terminal, pc>> /\ chClosed' = chClosed \cup {r} /\ taken[r] # "nobody"
    BY <1>5 DEF Finish, callVars
  <2>1. CASE q # r
    <3>1. ch'[q] = ch[q]
      BY <1>0, <1>5, <2>1 DEF Finish
    <3> QED BY <1>T, <2>0, <2>1, <3>1, ToldFrame
  <2>2. CASE q = r /\ r \in chClosed \cup terminal
    <3>1. ch' = ch
      BY <1>5, <2>2 DEF Finish
    <3> QED BY <1>T, <2>0, <2>2, <3>1, ToldFrame
  <2>3. CASE q = r /\ r \notin chClosed \cup terminal /\ WithError(r)
    <3>1. ch'[q] = PutError(ch[q])
      BY <1>0, <1>5, <2>3 DEF Finish
    <3>2. ch'[q] # <<>> /\ IsTerminal(ch'[q][Len(ch'[q])])
      BY <1>0, <3>1, PutErrorFacts, MsgFacts
    <3>3. \A i \in 1..Len(ch'[q]) : ch'[q][i] = End => q \in terminal
      BY <1>0, <1>T, <3>1, PutErrorElems DEF Told
    <3> QED BY <2>0, <3>2, <3>3 DEF Told
  <2>4. CASE q = r /\ r \notin chClosed \cup terminal /\ ~WithError(r)
    <3>1. ch' = ch
      BY <1>5, <2>4 DEF Finish
    <3>2. taken[r] \in {"call", "ctx", "reader"}
      BY <1>0, <2>0, <2>4 DEF WithError
    <3>3. taken[r] # "reader"
      BY <2>4 DEF TakerInv, SettleInv, WithError
    <3>4. pc[r] \in Over \/ r \in ctxDone
      BY <3>2, <3>3 DEF TakerInv
    <3> QED BY <1>T, <2>0, <2>4, <3>1, <3>4 DEF Told
  <2> QED BY <2>1, <2>2, <2>3, <2>4
<1>6. ASSUME NEW r \in Req, NEW msg \in Msg(r), Dispatch(r, msg) PROVE Told(q)'
  <2>1. UNCHANGED <<ctxDone, reqVars, pc>>
    BY <1>6 DEF Dispatch, callVars
  <2> QED BY <1>T, <2>1, ToldFrame DEF reqVars
<1>7. CASE Put
  <2>0. /\ UNCHANGED <<ctxDone, chClosed, pc>> /\ disp # Idle /\ disp.r \in Req
        /\ disp.msg \in Msg(disp.r) /\ disp.r \notin chClosed \cup terminal
        /\ terminal' = IF IsTerminal(disp.msg) THEN terminal \cup {disp.r} ELSE terminal
        /\ ch' = [ch EXCEPT ![disp.r] = Append(ch[disp.r], disp.msg)]
    BY <1>7, ReaderSteps DEF Put, HeldInv, callVars
  <2>1. CASE q # disp.r
    <3>1. ch'[q] = ch[q] /\ (q \in terminal' <=> q \in terminal)
      BY <1>0, <2>0, <2>1
    <3> QED BY <1>T, <2>0, <3>1, ToldFrame
  <2>2. CASE q = disp.r
    <3>1. ch'[q] = Append(ch[q], disp.msg)
      BY <1>0, <2>0, <2>2
    <3>2. /\ Append(ch[q], disp.msg) # <<>>
          /\ Len(Append(ch[q], disp.msg)) = Len(ch[q]) + 1
          /\ Append(ch[q], disp.msg)[Len(ch[q]) + 1] = disp.msg
          /\ \A i \in 1..Len(ch[q]) : Append(ch[q], disp.msg)[i] = ch[q][i]
      <4>1. Len(Append(ch[q], disp.msg)) = Len(ch[q]) + 1
        BY <1>0, <2>0, <2>2, SeqFacts
      <4>2. /\ Append(ch[q], disp.msg)[Len(ch[q]) + 1] = disp.msg
            /\ \A i \in 1..Len(ch[q]) : Append(ch[q], disp.msg)[i] = ch[q][i]
        BY <1>0, <2>0, <2>2, SeqElems
      <4>3. Len(<<>>) = 0
        OBVIOUS
      <4> QED BY <1>0, <4>1, <4>2, <4>3
    <3>3. q \in chClosed' \cup terminal' => IsTerminal(disp.msg)
      BY <2>0, <2>2
    <3>4. ASSUME NEW i \in 1..Len(ch'[q]), ch'[q][i] = End PROVE q \in terminal'
      <4>1. i \in 1..Len(ch[q]) \/ i = Len(ch[q]) + 1
        BY <1>0, <3>1, <3>2
      <4>2. CASE i = Len(ch[q]) + 1
        BY <2>0, <2>2, <3>1, <3>2, <3>4, <4>2, MsgFacts
      <4>3. CASE i \in 1..Len(ch[q])
        BY <1>T, <2>0, <3>1, <3>2, <3>4, <4>3 DEF Told
      <4> QED BY <4>1, <4>2, <4>3
    <3> QED BY <3>1, <3>2, <3>3, <3>4 DEF Told
  <2> QED BY <2>1, <2>2
<1>8. CASE Lock \/ GiveUp \/ Settle \/ Stop \/ Cleanup \/ CleanupStep \/ UNCHANGED vars
  <2>1. UNCHANGED <<ctxDone, reqVars, pc>>
    BY <1>8 DEF Lock, GiveUp, Settle, Stop, Cleanup, CleanupStep, Visit, CloseConn,
                HandleSessionClosed, callVars, vars
  <2> QED BY <1>T, <2>1, ToldFrame DEF reqVars
<1> QED BY <1>1, <1>2, <1>3, <1>4, <1>5, <1>6, <1>7, <1>8 DEF Next, Consume, Deliver, Quiet

\* The sequence 1, 2, ..., n grown by n + 1.
LEMMA CountOn ==
  ASSUME NEW s \in Seq(Nat), s = [i \in 1..Len(s) |-> i]
  PROVE  LET t == Append(s, Len(s) + 1) IN Len(t) = Len(s) + 1 /\ t = [i \in 1..Len(t) |-> i]
<1> DEFINE t == Append(s, Len(s) + 1)
<1>1. Len(s) \in Nat /\ t \in Seq(Nat) /\ Len(t) = Len(s) + 1
  OBVIOUS
<1>2. \A i \in 1..Len(s) : t[i] = s[i]
  BY <1>1, SeqElems
<1>3. t[Len(s) + 1] = Len(s) + 1
  BY <1>1, SeqElems
<1>4. t = [i \in 1..Len(t) |-> t[i]]
  BY <1>1
<1>5. ASSUME NEW i \in 1..Len(t) PROVE t[i] = i
  <2>1. i \in 1..Len(s) \/ i = Len(s) + 1
    BY <1>1
  <2> QED BY <1>2, <1>3, <2>1
<1> QED BY <1>1, <1>4, <1>5

\* A step that moves no message of a request keeps its flow.
LEMMA FlowFrame ==
  ASSUME NEW r \in Req, Flow(r), got'[r] = got[r], ch'[r] = ch[r], sent'[r] = sent[r],
         r \in terminal' <=> r \in terminal,
         HasChunk(r)' <=> HasChunk(r), HasChunk(r) => disp'.msg = disp.msg
  PROVE  Flow(r)'
<1>1. HasChunk(r)' => disp'.msg = disp.msg
  OBVIOUS
<1> QED BY <1>1 DEF Flow

LEMMA FlowStep ==
    Shape /\ HeldInv /\ TakerInv /\ SettleInv /\ ToldInv /\ EntryInv /\ FlowInv /\ [Next]_vars
        => FlowInv'
<1> SUFFICES ASSUME Shape, HeldInv, TakerInv, SettleInv, ToldInv, EntryInv, FlowInv, [Next]_vars,
                    NEW q \in Req, Live(q)', pc'[q] \notin Over
             PROVE Flow(q)'
  BY DEF FlowInv
<1> USE DEF Over, Sending
<1>0. /\ pc \in [Req -> {"new", "have", "stored", "write", "reading", "undo", "returned"} \cup Sending]
      /\ taken \in [Req -> {"nobody", "call", "ctx", "reader", "cleanup"}]
      /\ ch = [r \in Req |-> ch[r]]
      /\ \A r \in Req : ch[r] \in Seq(Msg(r)) /\ Len(ch[r]) \in Nat /\ Len(ch[r]) <= Cap
      /\ got \in [Req -> Seq(Nat)] /\ sent \in [Req -> Nat]
      /\ Len(got[q]) \in Nat /\ sent[q] \in Nat
      /\ terminal \subseteq ended /\ DispOK
  BY DEF Shape, TypeOK
<1>F. ASSUME closed => closed', ctxDone \subseteq ctxDone', pc[q] \in Over => pc'[q] \in Over
      PROVE  Live(q) /\ pc[q] \notin Over /\ Flow(q)
  BY <1>F DEF FlowInv, Live
<1>S. ASSUME UNCHANGED <<got, ch, sent, terminal, disp>>, Flow(q) PROVE Flow(q)'
  BY <1>S, FlowFrame DEF HasChunk
<1>1. ASSUME NEW r \in Req, CallStep(r) PROVE Flow(q)'
  <2>1. UNCHANGED <<closed, ctxDone, got, ch, sent, terminal, disp>>
    BY <1>1 DEF CallStep, Lookup, Store, CheckOpen, Write, Undo, sessVars, reqVars, peerVars
  <2>2. pc[q] \in Over => pc'[q] \in Over
    BY <1>0, <1>1 DEF CallStep, Lookup, Store, CheckOpen, Write, Undo, Return
  <2> QED BY <1>F, <1>S, <2>1, <2>2
<1>2. ASSUME NEW r \in Req, Receive(r) PROVE Flow(q)'
  <2>0. /\ UNCHANGED <<closed, ctxDone, sent, terminal, disp>> /\ pc[r] = "reading" /\ ch[r] # <<>>
        /\ ch' = [ch EXCEPT ![r] = Tail(ch[r])] /\ pc[r] \notin Over
        /\ \A p \in Req : p # r => pc'[p] = pc[p]
        /\ IsTerminal(Head(ch[r])) => pc'[r] \in Over
        /\ ~IsTerminal(Head(ch[r])) => got' = [got EXCEPT ![r] = Append(got[r], Head(ch[r]).n)]
        /\ IsTerminal(Head(ch[r])) => got' = got
    BY <1>0, <1>2 DEF Receive, Return, Offer, Event, IsTerminal, sessVars, peerVars
  <2>F. Flow(q)
    BY <1>F, <2>0
  <2>1. CASE q # r
    <3>1. ch'[q] = ch[q] /\ got'[q] = got[q]
      BY <1>0, <2>0, <2>1
    <3> QED BY <2>0, <2>F, <3>1, FlowFrame DEF HasChunk
  <2>2. CASE q = r
    <3> DEFINE s == ch[r]
               t == Tail(ch[r])
               n == Len(got[q])
    <3>1. ~IsTerminal(s[1]) /\ got'[q] = Append(got[q], s[1].n) /\ ch'[q] = t /\ s = ch[q]
      <4>1. Head(s) = s[1]
        BY <1>0, <2>0, SeqElems, MsgFacts
      <4> QED BY <1>0, <2>0, <2>2, <4>1
    <3>2. /\ s \in Seq(Msg(r)) /\ Len(s) \in Nat /\ Len(s) >= 1 /\ Len(t) = Len(s) - 1
          /\ \A i \in 1..(Len(s) - 1) : t[i] = s[i + 1]
      BY <1>0, <2>0, MsgFacts, SeqFacts, SeqElems
    <3>3. got[q] = [i \in 1..n |-> i] /\ n \in Nat /\ sent'[q] = sent[q] /\ sent[q] \in Nat
      BY <1>0, <2>0, <2>F DEF Flow
    <3>4. HasChunk(q)' <=> HasChunk(q)
      BY <2>0 DEF HasChunk
    <3>5. s[1] = Chunk(n + 1)
      <4>1. CASE q \notin terminal
        BY <2>F, <3>1, <3>2, <4>1 DEF Flow
      <4>2. CASE q \in terminal
        <5>1. IsTerminal(s[Len(s)])
          BY <1>F, <2>0, <2>2, <3>1, <4>2 DEF ToldInv, Told, Live
        <5>2. 1 \in 1..(Len(s) - 1)
          BY <3>1, <3>2, <5>1
        <5> QED BY <2>F, <3>1, <4>2, <5>2 DEF Flow
      <4> QED BY <4>1, <4>2
    <3>6. Len(got'[q]) = n + 1 /\ got'[q] = [i \in 1..Len(got'[q]) |-> i]
      <4>1. got'[q] = Append(got[q], n + 1)
        BY <3>1, <3>5, MsgFacts
      <4> QED BY <1>0, <3>3, <4>1, CountOn
    <3> HIDE DEF s, t, n
    <3>7. CASE q \notin terminal
      <4>1. /\ \A i \in 1..Len(s) : s[i] = Chunk(n + i)
            /\ HasChunk(q) => disp.msg = Chunk(sent[q]) /\ sent[q] = n + Len(s) + 1
            /\ ~HasChunk(q) => sent[q] = n + Len(s)
        BY <2>F, <3>1, <3>7 DEF Flow, n
      <4>2. \A i \in 1..Len(t) : t[i] = Chunk((n + 1) + i)
        <5> SUFFICES ASSUME NEW i \in 1..Len(t) PROVE t[i] = Chunk((n + 1) + i)
          OBVIOUS
        <5>1. i \in 1..(Len(s) - 1) /\ i + 1 \in 1..Len(s) /\ n + (i + 1) = (n + 1) + i
          BY <3>2, <3>3
        <5> QED BY <3>2, <4>1, <5>1
      <4>3. (n + 1) + Len(t) = n + Len(s)
        BY <3>2, <3>3
      <4> QED BY <2>0, <3>1, <3>3, <3>4, <3>6, <3>7, <4>1, <4>2, <4>3 DEF Flow
    <3>8. CASE q \in terminal
      <4>1. sent[q] = n + Len(s) - 1 /\ \A i \in 1..(Len(s) - 1) : s[i] = Chunk(n + i)
        BY <2>F, <3>1, <3>8 DEF Flow, n
      <4>2. Len(s) # 1
        BY <1>F, <2>0, <2>2, <3>1, <3>8 DEF ToldInv, Told, Live
      <4>3. /\ Len(t) >= 1 /\ sent[q] = (n + 1) + Len(t) - 1
        BY <3>2, <3>3, <4>1, <4>2
      <4>4. \A i \in 1..(Len(t) - 1) : t[i] = Chunk((n + 1) + i)
        <5> SUFFICES ASSUME NEW i \in 1..(Len(t) - 1) PROVE t[i] = Chunk((n + 1) + i)
          OBVIOUS
        <5>1. /\ i \in 1..(Len(s) - 1) /\ i + 1 \in 1..(Len(s) - 1)
              /\ n + (i + 1) = (n + 1) + i
          BY <3>2, <3>3
        <5> QED BY <3>2, <4>1, <5>1
      <4> QED BY <2>0, <3>1, <3>3, <3>6, <3>8, <4>3, <4>4 DEF Flow
    <3> QED BY <3>7, <3>8
  <2> QED BY <2>1, <2>2
<1>3. ASSUME NEW r \in Req, ReceiveClosed(r) \/ ReceiveCancelled(r) \/ Forward(r) PROVE Flow(q)'
  <2>1. UNCHANGED <<closed, ctxDone, got, ch, sent, terminal, disp>>
    BY <1>3 DEF ReceiveClosed, ReceiveCancelled, Forward, sessVars, reqVars, peerVars
  <2>2. pc[q] \in Over => pc'[q] \in Over
    BY <1>0, <1>3 DEF ReceiveClosed, ReceiveCancelled, Forward, Return, Offer, Event
  <2> QED BY <1>F, <1>S, <2>1, <2>2
<1>4. ASSUME NEW r \in Req, CancelCtx(r) \/ AfterFunc(r) PROVE Flow(q)'
  <2>1. UNCHANGED <<closed, pc, got, ch, sent, terminal, disp>> /\ ctxDone \subseteq ctxDone'
    BY <1>4 DEF CancelCtx, AfterFunc, sessVars, reqVars, peerVars, callVars
  <2> QED BY <1>F, <1>S, <2>1
<1>5. ASSUME NEW r \in Req, Finish(r) PROVE Flow(q)'
  <2>0. /\ UNCHANGED <<closed, ctxDone, pc, got, sent, terminal>> /\ taken[r] # "nobody"
        /\ disp' = IF taken[r] = "reader" THEN Idle ELSE disp
    BY <1>5 DEF Finish, sessVars, peerVars, callVars
  <2>F. Live(q) /\ pc[q] \notin Over /\ Flow(q)
    BY <1>F, <2>0
  <2>1. ch'[q] = ch[q]
    <3>1. CASE q # r
      BY <1>0, <1>5, <3>1 DEF Finish
    <3>2. CASE q = r
      <4>1. taken[r] = "reader" /\ disp.pc = "finish" /\ disp.r = r
        BY <1>0, <2>0, <2>F, <3>2 DEF TakerInv, Live
      <4>2. r \in chClosed \cup terminal
        BY <2>F, <3>2, <4>1, ReaderSteps DEF SettleInv, Live
      <4> QED BY <1>5, <4>2 DEF Finish
    <3> QED BY <3>1, <3>2
  <2>2. /\ HasChunk(q)' <=> HasChunk(q)
        /\ HasChunk(q) => disp'.msg = disp.msg
    <3>1. CASE taken[r] = "reader"
      <4>1. disp' = Idle /\ IsTerminal(disp.msg)
        BY <1>0, <2>0, <3>1, ReaderSteps DEF TakerInv, DispOK
      <4> QED BY <4>1 DEF HasChunk
    <3>2. CASE taken[r] # "reader"
      BY <2>0, <3>2 DEF HasChunk
    <3> QED BY <3>1, <3>2
  <2> QED BY <2>0, <2>1, <2>2, <2>F, FlowFrame
<1>6. ASSUME NEW r \in Req, NEW msg \in Msg(r), Dispatch(r, msg) PROVE Flow(q)'
  <2>0. /\ UNCHANGED <<closed, ctxDone, pc, got, ch, terminal>> /\ disp = Idle
        /\ r \in written \ ended
        /\ IsTerminal(msg) => sent' = sent
        /\ ~IsTerminal(msg) => msg = Chunk(sent[r] + 1) /\ sent' = [sent EXCEPT ![r] = sent[r] + 1]
        /\ disp' = IF r \in pending THEN [pc |-> "lock", r |-> r, msg |-> msg, ok |-> FALSE] ELSE Idle
    BY <1>6 DEF Dispatch, sessVars, reqVars, callVars
  <2>F. Live(q) /\ pc[q] \notin Over /\ Flow(q)
    BY <1>F, <2>0
  <2>1. ~HasChunk(q) /\ (disp' # Idle => disp'.r = r /\ disp'.msg = msg)
    BY <2>0 DEF HasChunk
  <2>2. CASE IsTerminal(msg)
    BY <2>0, <2>1, <2>2, <2>F, FlowFrame DEF HasChunk
  <2>3. CASE ~IsTerminal(msg) /\ q # r
    <3>1. sent'[q] = sent[q]
      BY <1>0, <2>0, <2>3
    <3> QED BY <2>0, <2>1, <2>3, <2>F, <3>1, FlowFrame DEF HasChunk
  <2>4. CASE ~IsTerminal(msg) /\ q = r
    <3>1. r \in pending
      BY <1>0, <2>0, <2>4, <2>F DEF EntryInv
    <3>2. q \notin terminal /\ sent'[q] = sent[q] + 1
      BY <1>0, <2>0, <2>4
    <3>3. disp' # Idle
      BY <2>0, <3>1, ReaderSteps
    <3>4. HasChunk(q)' /\ disp'.msg = Chunk(sent'[q])
      BY <2>0, <2>1, <2>4, <3>2, <3>3 DEF HasChunk
    <3> QED BY <2>0, <2>1, <2>F, <3>2, <3>4 DEF Flow
  <2> QED BY <2>2, <2>3, <2>4
<1>7. CASE Put
  <2>0. /\ UNCHANGED <<closed, ctxDone, pc, got, sent>> /\ disp # Idle /\ disp.r \in Req
        /\ disp.msg \in Msg(disp.r) /\ disp.r \notin chClosed \cup terminal
        /\ terminal' = IF IsTerminal(disp.msg) THEN terminal \cup {disp.r} ELSE terminal
        /\ ch' = [ch EXCEPT ![disp.r] = Append(ch[disp.r], disp.msg)]
    BY <1>7, ReaderSteps DEF Put, HeldInv, sessVars, peerVars, callVars
  <2>F. Flow(q)
    BY <1>F, <2>0
  <2>1. ~HasChunk(q)'
    BY <1>7, ReaderSteps DEF Put, AfterDeliver, HasChunk
  <2>2. CASE q # disp.r
    <3>1. ch'[q] = ch[q] /\ (q \in terminal' <=> q \in terminal) /\ ~HasChunk(q)
      BY <1>0, <2>0, <2>2 DEF HasChunk
    <3> QED BY <2>0, <2>1, <2>F, <3>1, FlowFrame
  <2>3. CASE q = disp.r
    <3> DEFINE s == ch[q]
               t == Append(ch[q], disp.msg)
               n == Len(got[q])
    <3>1. ch'[q] = t /\ got'[q] = got[q] /\ sent'[q] = sent[q]
      BY <1>0, <2>0, <2>3
    <3>2. /\ Len(s) \in Nat /\ Len(t) = Len(s) + 1
          /\ t[Len(s) + 1] = disp.msg /\ \A i \in 1..Len(s) : t[i] = s[i]
      <4>1. Len(t) = Len(s) + 1
        BY <1>0, <2>0, <2>3, SeqFacts
      <4>2. t[Len(s) + 1] = disp.msg /\ \A i \in 1..Len(s) : t[i] = s[i]
        BY <1>0, <2>0, <2>3, SeqElems
      <4> QED BY <1>0, <4>1, <4>2
    <3>3. /\ n \in Nat /\ q \notin terminal /\ got[q] = [i \in 1..n |-> i]
          /\ \A i \in 1..Len(s) : s[i] = Chunk(n + i)
          /\ HasChunk(q) => disp.msg = Chunk(sent[q]) /\ sent[q] = n + Len(s) + 1
          /\ ~HasChunk(q) => sent[q] = n + Len(s)
      BY <1>0, <2>0, <2>3, <2>F DEF Flow
    <3> HIDE DEF s, t
    <3>4. \A i \in 1..Len(s) : t[i] = Chunk(n + i)
      BY <3>2, <3>3
    <3>5. CASE IsTerminal(disp.msg)
      <4>1. q \in terminal' /\ ~HasChunk(q)
        BY <2>0, <2>3, <3>5 DEF HasChunk
      <4>2. Len(t) >= 1 /\ sent[q] = n + Len(t) - 1 /\ Len(t) - 1 = Len(s)
        BY <3>2, <3>3, <4>1
      <4> QED BY <3>1, <3>3, <3>4, <4>1, <4>2 DEF Flow
    <3>6. CASE ~IsTerminal(disp.msg)
      <4>1. q \notin terminal' /\ HasChunk(q)
        BY <2>0, <2>3, <3>3, <3>6 DEF HasChunk
      <4>2. sent[q] = n + Len(t)
        <5>1. sent[q] = n + Len(s) + 1
          BY <3>3, <4>1
        <5>2. n \in Nat
          BY <3>3
        <5> HIDE DEF n
        <5> QED BY <3>2, <5>1, <5>2
      <4>3. \A i \in 1..Len(t) : t[i] = Chunk(n + i)
        <5> SUFFICES ASSUME NEW i \in 1..Len(t) PROVE t[i] = Chunk(n + i)
          OBVIOUS
        <5>1. i \in 1..Len(s) \/ i = Len(t)
          BY <3>2
        <5>2. t[Len(t)] = disp.msg /\ disp.msg = Chunk(sent[q])
          BY <3>2, <3>3, <4>1
        <5> QED BY <3>4, <4>2, <5>1, <5>2
      <4> QED BY <2>1, <3>1, <3>3, <4>1, <4>2, <4>3 DEF Flow
    <3> QED BY <3>5, <3>6
  <2> QED BY <2>2, <2>3
<1>8. CASE Lock \/ GiveUp \/ Settle
  <2>0. /\ UNCHANGED <<closed, ctxDone, pc, got, ch, sent, terminal, chClosed>> /\ disp # Idle
        /\ disp' # Idle => disp'.r = disp.r /\ disp'.msg = disp.msg
    BY <1>8, ReaderSteps DEF Lock, GiveUp, Settle, sessVars, reqVars, peerVars, callVars
  <2>F. Live(q) /\ pc[q] \notin Over /\ Flow(q)
    BY <1>F, <2>0
  <2>1. HasChunk(q) => disp' # Idle
    <3> SUFFICES ASSUME HasChunk(q) PROVE disp' # Idle
      OBVIOUS
    <3>1. disp.r = q /\ ~IsTerminal(disp.msg) /\ q \notin ended
      BY <1>0 DEF HasChunk, DispOK
    <3>2. q \notin chClosed \cup terminal
      BY <1>0, <2>F, <3>1 DEF EntryInv
    <3>3. disp' = [disp EXCEPT !.pc = "held"]
      BY <1>0, <1>8, <2>0, <2>F, <3>1, <3>2 DEF Lock, GiveUp, Settle, DispOK, Live
    <3>4. disp'.pc = "held"
      BY <1>0, <2>0, <3>3 DEF DispOK
    <3> QED BY <3>4, ReaderSteps
  <2>2. (HasChunk(q)' <=> HasChunk(q)) /\ (HasChunk(q) => disp'.msg = disp.msg)
    BY <2>0, <2>1 DEF HasChunk
  <2> QED BY <2>0, <2>2, <2>F, FlowFrame
<1>9. CASE Stop \/ Cleanup \/ CleanupStep \/ UNCHANGED vars
  <2>1. UNCHANGED <<ctxDone, pc, got, ch, sent, terminal, disp>> /\ (closed => closed')
    BY <1>9 DEF Stop, Cleanup, CleanupStep, Visit, CloseConn, HandleSessionClosed, vars, sessVars,
                reqVars, peerVars, callVars
  <2> QED BY <1>F, <1>S, <2>1
<1> QED BY <1>1, <1>2, <1>3, <1>4, <1>5, <1>6, <1>7, <1>8, <1>9 DEF Next, Consume, Deliver, Quiet

\* What is true of a call that returned without error, or is about to, and stays true
\* of it.
Answered(r) == result[r] = "ok" \/ pc[r] = "sendEnd"
AnsweredInv ==
    \A r \in Req :
        /\ result[r] = "ok" => pc[r] = "returned"
        /\ Answered(r) /\ r \notin ctxDone =>
               /\ r \in terminal \cap ended
               /\ closed \/ got[r] = [i \in 1..sent[r] |-> i]

LEMMA AnsweredStep == Shape /\ ToldInv /\ FlowInv /\ AnsweredInv /\ [Next]_vars => AnsweredInv'
<1> SUFFICES ASSUME Shape, ToldInv, FlowInv, AnsweredInv, [Next]_vars, NEW q \in Req, Answered(q)'
             PROVE  /\ result'[q] = "ok" => pc'[q] = "returned"
                    /\ q \notin ctxDone' => /\ q \in terminal' \cap ended'
                                            /\ closed' \/ got'[q] = [i \in 1..sent'[q] |-> i]
  BY DEF AnsweredInv, Answered
<1> USE DEF Answered, Over, Sending
<1>0. /\ pc \in [Req -> {"new", "have", "stored", "write", "reading", "undo", "returned"} \cup Sending]
      /\ result \in [Req -> {"none", "ok", "err"}] /\ got \in [Req -> Seq(Nat)]
      /\ sent \in [Req -> Nat] /\ terminal \subseteq ended /\ DispOK
      /\ ch[q] \in Seq(Msg(q)) /\ Len(ch[q]) \in Nat
  BY DEF Shape, TypeOK
<1> DEFINE Goal == /\ result'[q] = "ok" => pc'[q] = "returned"
                   /\ q \notin ctxDone' => /\ q \in terminal' \cap ended'
                                           /\ closed' \/ got'[q] = [i \in 1..sent'[q] |-> i]
<1>F. ASSUME Answered(q), result'[q] = "ok" => pc'[q] = "returned", got'[q] = got[q],
             q \in ended => sent'[q] = sent[q],
             closed => closed', ctxDone \subseteq ctxDone', terminal \subseteq terminal',
             ended \subseteq ended'
      PROVE  Goal
  BY <1>F DEF AnsweredInv
<1>1. ASSUME NEW r \in Req, CallStep(r) PROVE Goal
  <2>1. UNCHANGED <<closed, ctxDone, got, sent, terminal, ended>>
    BY <1>1 DEF CallStep, Lookup, Store, CheckOpen, Write, Undo, sessVars, reqVars, peerVars
  <2>2. Answered(q) /\ (result'[q] = "ok" => pc'[q] = "returned")
    BY <1>0, <1>1 DEF CallStep, Lookup, Store, CheckOpen, Write, Undo, Return, AnsweredInv
  <2> QED BY <1>F, <2>1, <2>2
<1>K. result[q] = "ok" => pc[q] = "returned"
  BY DEF AnsweredInv
<1>2. ASSUME NEW r \in Req, Receive(r) PROVE Goal
  <2>0. UNCHANGED <<closed, ctxDone, sent, ended, terminal>> /\ pc[r] = "reading" /\ ch[r] # <<>>
    BY <1>2 DEF Receive, sessVars, peerVars
  <2>1. CASE q # r
    <3>1. result'[q] = result[q] /\ pc'[q] = pc[q] /\ got'[q] = got[q]
      BY <1>0, <1>2, <2>1 DEF Receive, Return, Offer, Event
    <3> QED BY <1>F, <1>K, <2>0, <3>1
  <2>2. CASE q = r
    <3>0. result[q] # "ok"
      BY <1>K, <2>0, <2>2
    <3>1. Head(ch[q]) = End /\ (result'[q] = "ok" => pc'[q] = "returned") /\ got' = got
      BY <1>0, <1>2, <2>0, <2>2, <3>0 DEF Receive, Return, Offer, Event, IsTerminal
    <3>2. Head(ch[q]) = ch[q][1] /\ Len(ch[q]) >= 1
      BY <1>0, <2>0, <2>2, MsgFacts, SeqElems, SeqFacts
    <3>3. q \in terminal /\ q \in ended
      BY <1>0, <3>1, <3>2 DEF ToldInv, Told
    <3>4. ASSUME q \notin ctxDone, ~closed PROVE got[q] = [i \in 1..sent[q] |-> i]
      <4>1. Flow(q)
        BY <2>0, <2>2, <3>4 DEF FlowInv, Live
      <4>2. /\ got[q] = [i \in 1..Len(got[q]) |-> i] /\ Len(got[q]) \in Nat
            /\ sent[q] = Len(got[q]) + Len(ch[q]) - 1
            /\ \A i \in 1..(Len(ch[q]) - 1) : ch[q][i] = Chunk(Len(got[q]) + i)
        BY <1>0, <3>3, <4>1 DEF Flow
      <4>3. IsTerminal(ch[q][1])
        BY <3>1, <3>2, MsgFacts
      <4>4. Len(ch[q]) = 1
        <5>1. 1 \notin 1..(Len(ch[q]) - 1)
          BY <4>2, <4>3, MsgFacts
        <5>2. ASSUME NEW k \in Nat, k >= 1, 1 \notin 1..(k - 1) PROVE k = 1
          BY <5>2
        <5> QED BY <1>0, <3>2, <5>1, <5>2
      <4>5. sent[q] = Len(got[q])
        BY <4>2, <4>4
      <4> QED BY <4>2, <4>5
    <3> QED BY <2>0, <3>1, <3>3, <3>4
  <2> QED BY <2>1, <2>2
<1>3. ASSUME NEW r \in Req, ReceiveClosed(r) PROVE Goal
  <2>0. /\ UNCHANGED <<closed, ctxDone, got, sent, terminal, ended>>
        /\ pc[r] = "reading" /\ ch[r] = <<>> /\ r \in chClosed
    BY <1>3 DEF ReceiveClosed, sessVars, reqVars, peerVars
  <2>1. CASE q # r
    <3>1. result'[q] = result[q] /\ pc'[q] = pc[q]
      BY <1>0, <1>3, <2>1 DEF ReceiveClosed, Return, Offer, Event
    <3> QED BY <1>F, <1>K, <2>0, <3>1
  <2>2. CASE q = r
    <3>1. q \in ctxDone'
      BY <2>0, <2>2 DEF ToldInv, Told
    <3>2. result'[q] = "ok" => pc'[q] = "returned"
      BY <1>0, <1>3, <1>K, <2>0, <2>2 DEF ReceiveClosed, Return, Offer, Event
    <3> QED BY <3>1, <3>2
  <2> QED BY <2>1, <2>2
<1>4. ASSUME NEW r \in Req, ReceiveCancelled(r) \/ Forward(r) PROVE Goal
  <2>1. UNCHANGED <<closed, ctxDone, got, sent, terminal, ended>>
    BY <1>4 DEF ReceiveCancelled, Forward, sessVars, reqVars, peerVars
  <2>2. Answered(q) /\ (result'[q] = "ok" => pc'[q] = "returned")
    BY <1>0, <1>4, <1>K DEF ReceiveCancelled, Forward, Return, Offer, Event
  <2> QED BY <1>F, <2>1, <2>2
<1>5. ASSUME NEW r \in Req, CancelCtx(r) \/ AfterFunc(r) PROVE Goal
  <2>1. UNCHANGED <<closed, pc, result, got, sent, terminal, ended>> /\ ctxDone \subseteq ctxDone'
    BY <1>5 DEF CancelCtx, AfterFunc, sessVars, reqVars, peerVars, callVars
  <2> QED BY <1>F, <1>K, <2>1
<1>6. ASSUME NEW r \in Req, Finish(r) PROVE Goal
  <2>1. UNCHANGED <<closed, ctxDone, pc, result, got, sent, terminal, ended>>
    BY <1>6 DEF Finish, sessVars, peerVars, callVars
  <2> QED BY <1>F, <1>K, <2>1
<1>7. ASSUME NEW r \in Req, NEW msg \in Msg(r), Dispatch(r, msg) PROVE Goal
  <2>1. UNCHANGED <<closed, ctxDone, pc, result, got, terminal>> /\ ended \subseteq ended'
    BY <1>7 DEF Dispatch, sessVars, reqVars, callVars
  <2>2. q \in ended => sent'[q] = sent[q]
    BY <1>0, <1>7 DEF Dispatch
  <2> QED BY <1>F, <1>K, <2>1, <2>2
<1>8. CASE Deliver
  <2>1. UNCHANGED <<closed, ctxDone, pc, result, got, sent, ended>> /\ terminal \subseteq terminal'
    BY <1>8 DEF Deliver, Lock, Put, GiveUp, Settle, sessVars, reqVars, peerVars, callVars
  <2> QED BY <1>F, <1>K, <2>1
<1>9. CASE Stop \/ Cleanup \/ CleanupStep \/ UNCHANGED vars
  <2>1. UNCHANGED <<ctxDone, pc, result, got, sent, terminal, ended>> /\ (closed => closed')
    BY <1>9 DEF Stop, Cleanup, CleanupStep, Visit, CloseConn, HandleSessionClosed, vars, sessVars,
                reqVars, peerVars, callVars
  <2> QED BY <1>F, <1>K, <2>1
<1> QED BY <1>1, <1>2, <1>3, <1>4, <1>5, <1>6, <1>7, <1>8, <1>9 DEF Next, Consume, Quiet

\* The facts with the shape of the state.
RelayInv ==
    /\ Shape /\ SweepInv /\ HeldInv /\ TakerInv /\ SettleInv /\ ToldInv /\ EntryInv /\ FlowInv
    /\ AnsweredInv

LEMMA RelayInvInit == Init => RelayInv
<1> SUFFICES ASSUME Init PROVE RelayInv
  OBVIOUS
<1>0. \A r \in Req : ch[r] = <<>> /\ got[r] = <<>> /\ sent[r] = 0 /\ r \notin terminal
  BY DEF Init
<1>1. Len(<<>>) = 0 /\ <<>> = [i \in 1..0 |-> i] /\ \A i : i \notin 1..0
  OBVIOUS
<1>2. SweepInv /\ HeldInv /\ TakerInv /\ SettleInv /\ EntryInv
  BY DEF Init, Idle, SweepInv, HeldInv, TakerInv, SettleInv, EntryInv, Sending
<1>3. ToldInv
  <2>1. \A r \in Req : r \notin chClosed \cup terminal
    BY DEF Init
  <2> QED BY <1>0, <1>1, <2>1 DEF ToldInv, Told
<1>4. FlowInv
  <2>1. \A r \in Req : ~HasChunk(r)
    BY DEF Init, HasChunk
  <2>2. ASSUME NEW r \in Req PROVE Flow(r)
    <3>1. Len(got[r]) = 0 /\ Len(ch[r]) = 0 /\ got[r] = [i \in 1..Len(got[r]) |-> i]
      BY <1>0, <1>1
    <3> QED BY <1>0, <1>1, <2>1, <3>1 DEF Flow
  <2> QED BY <2>2 DEF FlowInv
<1>5. AnsweredInv
  BY DEF Init, AnsweredInv, Answered
<1> QED BY <1>2, <1>3, <1>4, <1>5, ShapeInit DEF RelayInv

\* What NonStream and Stream report is true: no call returns success for a part of an
\* answer, and a call whose channel was closed under it finds the error that says so.
\* For any number of calls, any buffer and answers of any length.
THEOREM RelayAnswersHonest == Spec => []AnswersHonest
<1>1. RelayInv /\ [Next]_vars => RelayInv'
  BY ShapeStep, SweepStep, HeldStep, TakerStep, SettleStep, ToldStep, EntryStep, FlowStep,
     AnsweredStep DEF RelayInv
<1>2. RelayInv => AnswersHonest
  <2> SUFFICES ASSUME RelayInv PROVE EndTold
    BY DEF RelayInv, AnswersHonest, AnsweredInv, AnsweredWhole, Answered
  <2>1. chClosed \subseteq Req
    BY DEF RelayInv, Shape, TypeOK
  <2> QED BY <2>1 DEF RelayInv, ToldInv, Told, EndTold, Over
<1> QED BY <1>1, <1>2, RelayInvInit, PTL DEF Spec
=============================================================================
