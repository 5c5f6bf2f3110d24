------------------------- MODULE ExecutionRegistry -------------------------
(***************************************************************************)
(* The registry of one Home subscriber lifetime                            *)
(* (sdk/cliproxy/executionregistry/registry.go).  A dispatch is begun      *)
(* (BeginDispatch), turned into a scope (Install), given the resource that *)
(* carries it (Bind) and ended (Scope.End), while other goroutines drain,  *)
(* close or wait on the registry and replace its release sink.             *)
(*                                                                         *)
(* What makes the code delicate is that r.state is an atomic which Drain   *)
(* and Close change without r.mu, whereas BeginDispatch, Install and Bind  *)
(* test it and then commit inside one r.mu section.  Those three sections  *)
(* are therefore two steps here (Lock: mutex taken and state seen          *)
(* accepting; Commit: maps changed, mutex given back).  Every other r.mu   *)
(* section reads or writes nothing that changes outside r.mu, and is one   *)
(* step that needs the mutex free.                                         *)
(***************************************************************************)
EXTENDS Naturals, FiniteSets, ReleaseGroups

CONSTANTS
    Request,      \* dispatches that may be begun; each has one owner goroutine
    Unaccounted,  \* stands for a ScopeSpec with Accounted = false
    Sink,         \* release sinks given to SetReleaseSink
    NoSink,       \* the nil sink
    Drainer,      \* calls of Drain
    Settler,      \* calls of WaitPending
    Closer        \* calls of Close

ASSUME ConstantsAssumption ==
    /\ IsFiniteSet(Request)
    /\ Unaccounted \notin Group
    /\ NoSink \notin Sink
    /\ Drainer \cap Settler = {}
    /\ Closer \cap (Drainer \cup Settler) = {}

Waiter == Drainer \cup Settler          \* callers that wait on r.changed
Caller == Waiter \cup Closer

VARIABLES
    state,      \* r.state
    next,       \* r.next
    pending,    \* keys of r.pending
    scopes,     \* keys of r.scopes
    pc,         \* where the owner of a dispatch is
    id,         \* the id BeginDispatch gave the dispatch
    group,      \* scope.spec: the release group, or Unaccounted
    resource,   \* closeFn / closeDone of the scope
    endPc,      \* where the body of scope.ended.Do is ("none": not called yet)
    releaseSeq, \* r.releaseSequences
    sink,       \* r.releaseSink
    captured,   \* what markReleasedLocked returned to the ending goroutine
    told,       \* told[k]: the (group, sequence) pairs sink k was called with
    replay,     \* the pairs SetReleaseSink still has to replay
    callPc,     \* where a call of Drain, WaitPending or Close is
    sweep,      \* scopes copied by Drain or Close and not visited yet
    awaiting,   \* the scope whose closeDone Close is blocked on, if any
    waiting,    \* waiters blocked on the channel r.changed now holds
    closePhase  \* closeStarted / closeDone of the registry

lifeVars == <<state, next, pending, scopes>>
dispVars == <<pc, id, group>>
relVars  == <<releaseSeq, sink, captured, told, replay>>
callVars == <<callPc, sweep, awaiting, closePhase>>
vars == <<lifeVars, dispVars, relVars, callVars, resource, endPc, waiting>>

TypeOK ==
    /\ state \in {"accepting", "draining", "closed"}
    /\ next \in Nat
    /\ pending \subseteq Request
    /\ scopes \subseteq Request
    /\ pc \in [Request -> {"new", "beginning", "pending", "installing", "installed",
                           "binding", "running", "unbound", "rejected", "ended"}]
    /\ id \in [Request -> Nat]
    /\ group \in [Request -> Group \cup {Unaccounted}]
    /\ resource \in [Request -> {"none", "bound", "closing", "closed"}]
    /\ endPc \in [Request -> {"none", "close", "await", "mark", "sink", "delete", "done"}]
    /\ releaseSeq \in [Group -> Nat]
    /\ sink \in Sink \cup {NoSink}
    /\ captured \in [Request -> [sink : Sink \cup {NoSink}, seq : Nat]]
    /\ told \in [Sink -> SUBSET ((Group \cup {Unaccounted}) \X Nat)]
    /\ replay \subseteq Group \X Nat
    /\ callPc \in [Caller -> {"idle", "swap", "collect", "sweep", "await", "join",
                              "check", "wait", "ok", "refused", "timedOut"}]
    /\ sweep \in [Caller -> SUBSET Request]
    /\ awaiting \in [Closer -> SUBSET Request]
    /\ waiting \subseteq Waiter
    /\ closePhase \in {"open", "started", "done"}

(***************************************************************************)
(* Shared pieces                                                           *)
(***************************************************************************)

\* r.mu is held across two steps only by the sections that test r.state.
MuFree == \A d \in Request : pc[d] \notin {"beginning", "installing", "binding"}

\* signalLocked: closing r.changed wakes every waiter that holds it.
Signal == waiting' = {}

\* Mutant: closeDone is not consulted, so a second caller runs closeFn again.
StartCloseAgain(d) ==
    resource' = IF resource[d] # "none" THEN [resource EXCEPT ![d] = "closing"] ELSE resource

\* startBoundResourceClose: takes scope.mu only.  The first caller that finds a
\* bound resource starts the goroutine that runs closeFn.
StartClose(d) ==
    resource' = IF resource[d] = "bound" THEN [resource EXCEPT ![d] = "closing"]
                                         ELSE resource

\* startBoundResourceClose returns a channel, so the caller waits for it.
MustAwait(d) == resource[d] \in {"bound", "closing", "closed"}

Goto(d, l)     == pc' = [pc EXCEPT ![d] = l]
GotoEnd(d, l)  == endPc' = [endPc EXCEPT ![d] = l]
GotoCall(c, l) == callPc' = [callPc EXCEPT ![c] = l]

Init ==
    /\ state = "accepting"
    /\ next = 0
    /\ pending = {}
    /\ scopes = {}
    /\ pc = [d \in Request |-> "new"]
    /\ id = [d \in Request |-> 0]
    /\ group = [d \in Request |-> Unaccounted]
    /\ resource = [d \in Request |-> "none"]
    /\ endPc = [d \in Request |-> "none"]
    /\ releaseSeq = [g \in Group |-> 0]
    /\ sink = NoSink
    /\ captured = [d \in Request |-> [sink |-> NoSink, seq |-> 0]]
    /\ told = [k \in Sink |-> {}]
    /\ replay = {}
    /\ callPc = [c \in Caller |-> "idle"]
    /\ sweep = [c \in Caller |-> {}]
    /\ awaiting = [c \in Closer |-> {}]
    /\ waiting = {}
    /\ closePhase = "open"

(***************************************************************************)
(* The owner of a dispatch                                                 *)
(***************************************************************************)

\* BeginDispatch refused: by the test before the lock or the one under it.
BeginReject(d) ==
    /\ pc[d] = "new"
    /\ state # "accepting"
    /\ Goto(d, "rejected")
    /\ UNCHANGED <<lifeVars, id, group, relVars, callVars, resource, endPc, waiting>>

BeginLock(d) ==
    /\ pc[d] = "new"
    /\ MuFree
    /\ state = "accepting"
    /\ Goto(d, "beginning")
    /\ UNCHANGED <<lifeVars, id, group, relVars, callVars, resource, endPc, waiting>>

BeginCommit(d) ==
    /\ pc[d] = "beginning"
    /\ next' = next + 1
    /\ id' = [id EXCEPT ![d] = next + 1]
    /\ pending' = pending \cup {d}
    /\ Goto(d, "pending")
    /\ UNCHANGED <<state, scopes, group, relVars, callVars, resource, endPc, waiting>>

\* Mutant: the token is removed but nobody is woken.
PendingEndSilent(d) ==
    /\ pc[d] = "pending"
    /\ MuFree
    /\ pending' = pending \ {d}
    /\ Goto(d, "ended")
    /\ UNCHANGED <<state, next, scopes, id, group, relVars, callVars, resource, endPc,
                   waiting>>

\* PendingDispatch.End on a dispatch that was not installed.
PendingEnd(d) ==
    /\ pc[d] = "pending"
    /\ MuFree
    /\ pending' = pending \ {d}
    /\ Signal
    /\ Goto(d, "ended")
    /\ UNCHANGED <<state, next, scopes, id, group, relVars, callVars, resource, endPc>>

\* Install on a registry that no longer accepts consumes the token.
InstallReject(d) ==
    /\ pc[d] = "pending"
    /\ MuFree
    /\ state # "accepting"
    /\ pending' = pending \ {d}
    /\ Signal
    /\ Goto(d, "rejected")
    /\ UNCHANGED <<state, next, scopes, id, group, relVars, callVars, resource, endPc>>

InstallLock(d, g) ==
    /\ pc[d] = "pending"
    /\ MuFree
    /\ state = "accepting"
    /\ group' = [group EXCEPT ![d] = g]
    /\ Goto(d, "installing")
    /\ UNCHANGED <<lifeVars, id, relVars, callVars, resource, endPc, waiting>>

InstallCommit(d) ==
    /\ pc[d] = "installing"
    /\ pending' = pending \ {d}
    /\ scopes' = scopes \cup {d}
    /\ Signal
    /\ Goto(d, "installed")
    /\ UNCHANGED <<state, next, id, group, relVars, callVars, resource, endPc>>

\* scope.active: set by Install, cleared by the first step of End.
Active(d) == endPc[d] = "none"

BindReject(d) ==
    /\ pc[d] = "installed"
    /\ MuFree
    /\ state # "accepting" \/ ~Active(d)
    /\ Goto(d, "unbound")
    /\ UNCHANGED <<lifeVars, id, group, relVars, callVars, resource, endPc, waiting>>

\* Mutant: Bind does not test scope.active.
BindLockAfterEnd(d) ==
    /\ pc[d] = "installed"
    /\ MuFree
    /\ state = "accepting"
    /\ Goto(d, "binding")
    /\ UNCHANGED <<lifeVars, id, group, relVars, callVars, resource, endPc, waiting>>

\* Mutant: Bind does not test r.state.
BindLockAnyState(d) ==
    /\ pc[d] = "installed"
    /\ MuFree
    /\ Active(d)
    /\ Goto(d, "binding")
    /\ UNCHANGED <<lifeVars, id, group, relVars, callVars, resource, endPc, waiting>>

BindLock(d) ==
    /\ pc[d] = "installed"
    /\ MuFree
    /\ state = "accepting"
    /\ Active(d)
    /\ Goto(d, "binding")
    /\ UNCHANGED <<lifeVars, id, group, relVars, callVars, resource, endPc, waiting>>

BindCommit(d) ==
    /\ pc[d] = "binding"
    /\ resource' = [resource EXCEPT ![d] = "bound"]
    /\ Goto(d, "running")
    /\ UNCHANGED <<lifeVars, id, group, relVars, callVars, endPc, waiting>>

(***************************************************************************)
(* Scope.End: any goroutine holding the scope may call it, before, during  *)
(* or after Bind.  sync.Once lets one call run the body; the others only   *)
(* wait for it.                                                            *)
(***************************************************************************)

\* Mutant: the body of End is not guarded by sync.Once.
EndStartTwice(d) ==
    /\ endPc[d] \in {"none", "done"}
    /\ pc[d] \in {"installed", "running", "unbound"}
    /\ MuFree
    /\ GotoEnd(d, "close")
    /\ UNCHANGED <<lifeVars, dispVars, relVars, callVars, resource, waiting>>

EndStart(d) ==
    /\ d \in scopes
    /\ endPc[d] = "none"
    /\ MuFree
    /\ GotoEnd(d, "close")
    /\ UNCHANGED <<lifeVars, dispVars, relVars, callVars, resource, waiting>>

\* Mutant: End starts the close of its resource and does not wait for it.
EndCloseNoWait(d) ==
    /\ endPc[d] = "close"
    /\ StartClose(d)
    /\ GotoEnd(d, "mark")
    /\ UNCHANGED <<lifeVars, dispVars, relVars, callVars, waiting>>

\* waitForBoundResourceClose, first half: start the close, or find none needed.
EndClose(d) ==
    /\ endPc[d] = "close"
    /\ StartClose(d)
    /\ GotoEnd(d, IF MustAwait(d) THEN "await" ELSE "mark")
    /\ UNCHANGED <<lifeVars, dispVars, relVars, callVars, waiting>>

EndAwait(d) ==
    /\ endPc[d] = "await"
    /\ resource[d] = "closed"
    /\ GotoEnd(d, "mark")
    /\ UNCHANGED <<lifeVars, dispVars, relVars, callVars, resource, waiting>>

\* Mutant: the scope leaves the registry before its sink is told.
EndMarkDeletes(d) ==
    /\ endPc[d] = "mark"
    /\ MuFree
    /\ group[d] \in Group
    /\ releaseSeq' = [releaseSeq EXCEPT ![group[d]] = @ + 1]
    /\ captured' = [captured EXCEPT ![d] = [sink |-> sink, seq |-> releaseSeq[group[d]] + 1]]
    /\ scopes' = scopes \ {d}
    /\ Signal
    /\ GotoEnd(d, "sink")
    /\ UNCHANGED <<state, next, pending, dispVars, sink, told, replay, callVars, resource>>

\* markReleasedLocked for an accounted scope.
EndMark(d) ==
    /\ endPc[d] = "mark"
    /\ MuFree
    /\ group[d] \in Group
    /\ releaseSeq' = [releaseSeq EXCEPT ![group[d]] = @ + 1]
    /\ captured' = [captured EXCEPT ![d] = [sink |-> sink, seq |-> releaseSeq[group[d]] + 1]]
    /\ GotoEnd(d, "sink")
    /\ UNCHANGED <<lifeVars, dispVars, sink, told, replay, callVars, resource, waiting>>

\* markReleasedLocked for a scope that is not accounted.
EndUnmarked(d) ==
    /\ endPc[d] = "mark"
    /\ MuFree
    /\ group[d] \notin Group
    /\ GotoEnd(d, "delete")
    /\ UNCHANGED <<lifeVars, dispVars, relVars, callVars, resource, waiting>>

\* The captured sink, if any, is called without r.mu.
EndSink(d) ==
    /\ endPc[d] = "sink"
    /\ told' = [k \in Sink |-> IF k = captured[d].sink
                               THEN told[k] \cup {<<group[d], captured[d].seq>>}
                               ELSE told[k]]
    /\ GotoEnd(d, "delete")
    /\ UNCHANGED <<lifeVars, dispVars, releaseSeq, sink, captured, replay, callVars,
                   resource, waiting>>

EndDelete(d) ==
    /\ endPc[d] = "delete"
    /\ MuFree
    /\ scopes' = scopes \ {d}
    /\ Signal
    /\ GotoEnd(d, "done")
    /\ UNCHANGED <<state, next, pending, dispVars, relVars, callVars, resource>>

\* The goroutine of startBoundResourceClose: closeFn returned, with or without error.
ResourceClosed(d) ==
    /\ resource[d] = "closing"
    /\ resource' = [resource EXCEPT ![d] = "closed"]
    /\ UNCHANGED <<lifeVars, dispVars, relVars, callVars, endPc, waiting>>

(***************************************************************************)
(* SetReleaseSink: called by the subscriber lifetime's own goroutine, so   *)
(* one call ends before the next.                                          *)
(***************************************************************************)

KnownSequences == {<<g, releaseSeq[g]>> : g \in {h \in Group : releaseSeq[h] > 0}}

\* Mutant: a new sink is not told the sequences already reached.
SetReleaseSinkNoReplay(k) ==
    /\ MuFree
    /\ replay = {}
    /\ sink' = k
    /\ UNCHANGED <<lifeVars, dispVars, releaseSeq, captured, told, replay, callVars,
                   resource, endPc, waiting>>

SetReleaseSink(k) ==
    /\ MuFree
    /\ replay = {}
    /\ sink' = k
    /\ replay' = IF k = NoSink THEN {} ELSE KnownSequences
    /\ UNCHANGED <<lifeVars, dispVars, releaseSeq, captured, told, callVars, resource,
                   endPc, waiting>>

ReplaySink ==
    /\ sink \in Sink
    /\ \E p \in replay :
         /\ told' = [told EXCEPT ![sink] = @ \cup {p}]
         /\ replay' = replay \ {p}
    /\ UNCHANGED <<lifeVars, dispVars, releaseSeq, sink, captured, callVars, resource,
                   endPc, waiting>>

(***************************************************************************)
(* Drain                                                                   *)
(***************************************************************************)

\* The compare-and-swap, or finding the registry already draining.
DrainStart(c) ==
    /\ callPc[c] = "idle"
    /\ state # "closed"
    /\ state' = "draining"
    /\ GotoCall(c, "collect")
    /\ UNCHANGED <<next, pending, scopes, dispVars, relVars, sweep, awaiting, closePhase,
                   resource, endPc, waiting>>

DrainRefused(c) ==
    /\ callPc[c] = "idle"
    /\ state = "closed"
    /\ GotoCall(c, "refused")
    /\ UNCHANGED <<lifeVars, dispVars, relVars, sweep, awaiting, closePhase, resource,
                   endPc, waiting>>

\* Drain and Close both copy the scopes under r.mu and visit them without it.
CollectScopes(c) ==
    /\ callPc[c] = "collect"
    /\ MuFree
    /\ sweep' = [sweep EXCEPT ![c] = scopes]
    /\ GotoCall(c, "sweep")
    /\ UNCHANGED <<lifeVars, dispVars, relVars, awaiting, closePhase, resource, endPc,
                   waiting>>

DrainVisit(c, d) ==
    /\ callPc[c] = "sweep"
    /\ d \in sweep[c]
    /\ StartClose(d)
    /\ sweep' = [sweep EXCEPT ![c] = @ \ {d}]
    /\ UNCHANGED <<lifeVars, dispVars, relVars, callPc, awaiting, closePhase, endPc,
                   waiting>>

DrainSwept(c) ==
    /\ callPc[c] = "sweep"
    /\ sweep[c] = {}
    /\ GotoCall(c, "check")
    /\ UNCHANGED <<lifeVars, dispVars, relVars, sweep, awaiting, closePhase, resource,
                   endPc, waiting>>

\* A caller in its wait loop that is not blocked on the current r.changed.
Awake(c) == callPc[c] \in {"check", "wait"} /\ c \notin waiting

\* Mutant: Drain waits for the scopes only.
DrainDoneIgnoresPending(c) ==
    /\ Awake(c)
    /\ MuFree
    /\ scopes = {}
    /\ state' = "closed"
    /\ GotoCall(c, "ok")
    /\ UNCHANGED <<next, pending, scopes, dispVars, relVars, sweep, awaiting, closePhase,
                   resource, endPc, waiting>>

DrainDone(c) ==
    /\ Awake(c)
    /\ MuFree
    /\ pending = {} /\ scopes = {}
    /\ state' = "closed"
    /\ GotoCall(c, "ok")
    /\ UNCHANGED <<next, pending, scopes, dispVars, relVars, sweep, awaiting, closePhase,
                   resource, endPc, waiting>>

DrainWait(c) ==
    /\ Awake(c)
    /\ MuFree
    /\ pending # {} \/ scopes # {}
    /\ waiting' = waiting \cup {c}
    /\ GotoCall(c, "wait")
    /\ UNCHANGED <<lifeVars, dispVars, relVars, sweep, awaiting, closePhase, resource,
                   endPc>>

\* ctx.Done() chosen by the select of Drain or WaitPending.
WaitTimeout(c) ==
    /\ callPc[c] = "wait"
    /\ waiting' = waiting \ {c}
    /\ GotoCall(c, "timedOut")
    /\ UNCHANGED <<lifeVars, dispVars, relVars, sweep, awaiting, closePhase, resource,
                   endPc>>

(***************************************************************************)
(* WaitPending                                                             *)
(***************************************************************************)

SettleStart(c) ==
    /\ callPc[c] = "idle"
    /\ GotoCall(c, "check")
    /\ UNCHANGED <<lifeVars, dispVars, relVars, sweep, awaiting, closePhase, resource,
                   endPc, waiting>>

SettleDone(c) ==
    /\ Awake(c)
    /\ MuFree
    /\ pending = {}
    /\ GotoCall(c, "ok")
    /\ UNCHANGED <<lifeVars, dispVars, relVars, sweep, awaiting, closePhase, resource,
                   endPc, waiting>>

SettleWait(c) ==
    /\ Awake(c)
    /\ MuFree
    /\ pending # {}
    /\ waiting' = waiting \cup {c}
    /\ GotoCall(c, "wait")
    /\ UNCHANGED <<lifeVars, dispVars, relVars, sweep, awaiting, closePhase, resource,
                   endPc>>

(***************************************************************************)
(* Close                                                                   *)
(***************************************************************************)

\* The first closeMu section: this call does the work.
CloseStart(c) ==
    /\ callPc[c] = "idle"
    /\ closePhase = "open"
    /\ state # "closed"
    /\ closePhase' = "started"
    /\ GotoCall(c, "swap")
    /\ UNCHANGED <<lifeVars, dispVars, relVars, sweep, awaiting, resource, endPc, waiting>>

\* ... or a Drain closed the registry already ...
CloseNothing(c) ==
    /\ callPc[c] = "idle"
    /\ closePhase = "open"
    /\ state = "closed"
    /\ GotoCall(c, "ok")
    /\ UNCHANGED <<lifeVars, dispVars, relVars, sweep, awaiting, closePhase, resource,
                   endPc, waiting>>

\* ... or another Close is, or was, at work.
CloseJoin(c) ==
    /\ callPc[c] = "idle"
    /\ closePhase # "open"
    /\ GotoCall(c, "join")
    /\ UNCHANGED <<lifeVars, dispVars, relVars, sweep, awaiting, closePhase, resource,
                   endPc, waiting>>

CloseJoined(c) ==
    /\ callPc[c] = "join"
    /\ closePhase = "done"
    /\ GotoCall(c, "ok")
    /\ UNCHANGED <<lifeVars, dispVars, relVars, sweep, awaiting, closePhase, resource,
                   endPc, waiting>>

\* The load / compare-and-swap loop.
CloseSwap(c) ==
    /\ callPc[c] = "swap"
    /\ state' = "closed"
    /\ GotoCall(c, "collect")
    /\ UNCHANGED <<next, pending, scopes, dispVars, relVars, sweep, awaiting, closePhase,
                   resource, endPc, waiting>>

\* Mutant: Close starts the closes and does not wait for them.
CloseVisitNoWait(c, d) ==
    /\ callPc[c] = "sweep"
    /\ d \in sweep[c]
    /\ StartClose(d)
    /\ sweep' = [sweep EXCEPT ![c] = @ \ {d}]
    /\ UNCHANGED <<lifeVars, dispVars, relVars, callPc, awaiting, closePhase, endPc,
                   waiting>>

\* waitForBoundResourceClose for one scope: started, then waited for, in turn.
CloseVisit(c, d) ==
    /\ callPc[c] = "sweep"
    /\ d \in sweep[c]
    /\ StartClose(d)
    /\ sweep' = [sweep EXCEPT ![c] = @ \ {d}]
    /\ awaiting' = [awaiting EXCEPT ![c] = {e \in {d} : MustAwait(e)}]
    /\ GotoCall(c, IF MustAwait(d) THEN "await" ELSE "sweep")
    /\ UNCHANGED <<lifeVars, dispVars, relVars, closePhase, endPc, waiting>>

CloseAwait(c) ==
    /\ callPc[c] = "await"
    /\ \A d \in awaiting[c] : resource[d] = "closed"
    /\ awaiting' = [awaiting EXCEPT ![c] = {}]
    /\ GotoCall(c, "sweep")
    /\ UNCHANGED <<lifeVars, dispVars, relVars, sweep, closePhase, resource, endPc,
                   waiting>>

CloseFinish(c) ==
    /\ callPc[c] = "sweep"
    /\ sweep[c] = {}
    /\ closePhase' = "done"
    /\ GotoCall(c, "ok")
    /\ UNCHANGED <<lifeVars, dispVars, relVars, sweep, awaiting, resource, endPc, waiting>>

-----------------------------------------------------------------------------
OwnerStep(d) ==
    \/ BeginReject(d) \/ BeginLock(d) \/ BeginCommit(d)
    \/ PendingEnd(d) \/ InstallReject(d) \/ InstallCommit(d)
    \/ \E g \in Group \cup {Unaccounted} : InstallLock(d, g)
    \/ BindReject(d) \/ BindLock(d) \/ BindCommit(d)

EndBody(d) ==
    \/ EndClose(d) \/ EndAwait(d) \/ EndMark(d) \/ EndUnmarked(d)
    \/ EndSink(d) \/ EndDelete(d)

\* What a call does once made, short of its context expiring.
DrainWork(c) ==
    \/ CollectScopes(c) \/ DrainSwept(c) \/ DrainDone(c) \/ DrainWait(c)
    \/ \E d \in Request : DrainVisit(c, d)

SettleWork(c) == SettleDone(c) \/ SettleWait(c)

CloseWork(c) ==
    \/ CloseJoined(c) \/ CloseSwap(c) \/ CollectScopes(c)
    \/ CloseAwait(c) \/ CloseFinish(c)
    \/ \E d \in Request : CloseVisit(c, d)

DrainStep(c)  == DrainStart(c) \/ DrainRefused(c) \/ DrainWork(c) \/ WaitTimeout(c)
SettleStep(c) == SettleStart(c) \/ SettleWork(c) \/ WaitTimeout(c)
CloseStep(c)  == CloseStart(c) \/ CloseNothing(c) \/ CloseJoin(c) \/ CloseWork(c)

SinkStep == ReplaySink \/ \E k \in Sink \cup {NoSink} : SetReleaseSink(k)

Next ==
    \/ \E d \in Request : OwnerStep(d) \/ EndStart(d) \/ EndBody(d) \/ ResourceClosed(d)
    \/ SinkStep
    \/ \E c \in Drainer : DrainStep(c)
    \/ \E c \in Settler : SettleStep(c)
    \/ \E c \in Closer : CloseStep(c)

Spec == Init /\ [][Next]_vars

(***************************************************************************)
(* Fairness.  A goroutine that has begun a call keeps running, closeFn     *)
(* returns, and a pending dispatch gets an answer or an error (its context *)
(* bounds it).  A running request may last for ever: its owner is sure to  *)
(* call End only once the resource was closed under it or Bind was         *)
(* refused.  Nothing is assumed of contexts expiring.                      *)
(***************************************************************************)
Fairness ==
    /\ \A d \in Request :
         /\ WF_vars(pc[d] # "new" /\ OwnerStep(d))
         /\ WF_vars(EndStart(d) /\ (pc[d] = "unbound" \/ resource[d] = "closed"))
         /\ WF_vars(EndBody(d))
         /\ WF_vars(ResourceClosed(d))
    /\ \A c \in Drainer : WF_vars(DrainWork(c))
    /\ \A c \in Settler : WF_vars(SettleWork(c))
    /\ \A c \in Closer : WF_vars(CloseWork(c))

FairSpec == Spec /\ Fairness

(***************************************************************************)
(* Properties                                                              *)
(***************************************************************************)

Open(d) == resource[d] \in {"bound", "closing"}

\* The release of scope d has been marked: its slot is given back to Home.
Released(d) == endPc[d] \in {"sink", "delete", "done"}

\* EndWithRelease gives a slot back only when the resource that used it is
\* closed, and none can be bound later: however Bind, End, Drain and Close
\* interleave, a released scope never holds an open resource.
ReleaseAfterClose == \A d \in Request : Released(d) => ~Open(d)

\* When Drain has returned nil the registry is empty, and stays so: no dispatch
\* that saw the registry accepting commits after the drain has finished.
DrainedStaysEmpty ==
    \A c \in Drainer : callPc[c] = "ok" =>
        pending = {} /\ scopes = {} /\ \A d \in Request : ~Open(d)

\* After Drain has visited the scopes it copied, no resource is left uncancelled:
\* an Install or Bind that passed the state test is in the copy.
DrainCancelsAll ==
    \A c \in Drainer : callPc[c] \in {"check", "wait", "ok", "timedOut"} =>
        \A d \in Request : resource[d] # "bound"

\* When Close returns, to the call that did the work or to one that joined it, no
\* resource is open and none can be opened.
CloseClosesAll ==
    \A c \in Closer : callPc[c] = "ok" => \A d \in Request : ~Open(d)

\* The cumulative sequence of a group counts each accounted scope of the group
\* whose End passed markReleasedLocked, once.
ReleaseCount ==
    \A g \in Group :
        releaseSeq[g] = Cardinality({d \in Request : group[d] = g /\ Released(d)})

\* Replacing the sink loses no release: once SetReleaseSink has replayed and no
\* ending goroutine still holds a captured call, the current sink was told the
\* latest sequence of every group.
SinkKnowsLatest ==
    (sink \in Sink /\ replay = {}) =>
        \A g \in Group :
            \/ releaseSeq[g] = 0
            \/ <<g, releaseSeq[g]>> \in told[sink]
            \/ \E d \in Request : endPc[d] = "sink" /\ group[d] = g /\ captured[d].sink = sink

\* closeFn runs at most once per scope, although End, Drain and Close may all start
\* it, and a resource that was closed is never open again.
ClosesOnce ==
    [][\A d \in Request :
         /\ resource[d] = "closed" => resource'[d] = "closed"
         /\ resource[d] = "closing" => resource'[d] # "bound"]_vars

\* Every call returns, even if its context never expires.  Drain: sweeping cancels
\* the running requests, their owners end, and each removal wakes the waiting call.
\* WaitPending: no resolution of a pending dispatch is missed between reading
\* r.changed and blocking on it.  Close: the calls that join another included.
CallsReturn ==
    /\ \A c \in Drainer : callPc[c] = "collect" ~> callPc[c] \in {"ok", "timedOut"}
    /\ \A c \in Settler : callPc[c] = "check" ~> callPc[c] \in {"ok", "timedOut"}
    /\ \A c \in Closer : callPc[c] \in {"swap", "join"} ~> callPc[c] = "ok"
=============================================================================
