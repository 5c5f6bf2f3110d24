---------------------------- MODULE HomeExecution ----------------------------
(***************************************************************************)
(* The streaming calls of one downstream websocket session in Home mode:   *)
(* ExecuteStream with its retry rounds, executeStreamMixedOnce with its    *)
(* credentials, pickHomeDispatchSelection, and the selections the session  *)
(* retains between calls (sdk/cliproxy/auth/conductor_execution.go,        *)
(* conductor_home.go, conductor_home_execution.go).                        *)
(*                                                                         *)
(* The calls of a session come one after the other: the handler makes the  *)
(* next one when the last has returned, and lockHomeWebsocketSession       *)
(* serialises them.  What runs beside a call: the goroutine that forwards  *)
(* the stream of an earlier call, the loss of an upstream connection, a    *)
(* drain of the execution registry, Home being disabled, and Home itself,  *)
(* which acknowledges a released slot late or never.                       *)
(***************************************************************************)
EXTENDS Integers, FiniteSets

CONSTANTS
    Auth,               \* credentials Home dispatches
    Route,              \* models the calls ask for
    Sel,                \* selections; Home is busy when all are in use
    RetryLimits,        \* request-retry values, those Home sends and the local one
    LocalRetry,         \* the local one
    MaxRetryCredentials,\* max-retry-credentials, 0 for no limit
    MaxCalls,           \* bound on the calls of the session
    None

ASSUME ConstantsOK ==
    /\ RetryLimits \subseteq Nat /\ LocalRetry \in RetryLimits
    /\ MaxRetryCredentials \in Nat /\ MaxCalls \in Nat
    /\ None \notin Auth \cup Sel

\* A limit nobody has named yet.
Unset == -1

VARIABLES
    live,       \* selections that have not ended
    kept,       \* selections an executor has called Retain on
    drained,    \* selections whose scope the registry has drained
    acked,      \* selections whose release Home has acknowledged
    target,     \* credential, route and request-retry of a selection
    session,    \* homeSessionSelections of the session
    pumped,     \* selections a stream goroutine will end
    cleared,    \* taken out of the session, about to be ended by the taker
    homeOn,     \* Home is enabled
    calls,      \* calls the handler has made; the session is closed after the last
    pc,         \* where the handler is
    c           \* locals of the call

selVars == <<live, kept, drained, acked, target>>
sesVars == <<session, pumped, cleared, homeOn, calls>>
vars == <<selVars, sesVars, pc, c>>

\* What executeStreamMixedOnce starts with; runs counts attempts (a history variable).
Fresh ==
    [tried |-> {}, excluded |-> {}, same |-> [a \in Auth |-> 0], last |-> None, samePending |-> FALSE,
     attempted |-> {}, lastErr |-> FALSE, first |-> TRUE, runs |-> [a \in Auth |-> 0]]

\* What ExecuteStream starts with.  mine: selections the call has held and whose
\* release is not acknowledged (a history variable).
NewCall(r, pin) ==
    [route |-> r, pinned |-> pin, attempt |-> 0, limit |-> Unset, pending |-> FALSE, waited |-> FALSE,
     round |-> Fresh, cur |-> None, isNew |-> FALSE, ending |-> {}, waiting |-> None, then |-> "idle",
     err |-> "none", remote |-> Unset, mine |-> {}]

Init ==
    /\ live = {} /\ kept = {} /\ drained = {} /\ acked = Sel
    /\ target = [s \in Sel |-> [auth |-> None, route |-> None, retry |-> Unset]]
    /\ session = {} /\ pumped = {} /\ cleared = {}
    /\ homeOn = TRUE /\ calls = 0
    /\ pc = "idle" /\ c = NewCall(None, None)

Begin(r, pin) ==
    /\ pc = "idle" /\ homeOn /\ calls < MaxCalls
    /\ calls' = calls + 1 /\ pc' = "pick" /\ c' = NewCall(r, pin)
    /\ UNCHANGED <<selVars, session, pumped, cleared, homeOn>>

\* The round has failed with this error; "exhausted" wraps the last upstream error.
Fail(call, e) == pc' = "failed" /\ c' = [call EXCEPT !.err = e, !.cur = None, !.ending = {}]

LastOr(e) == IF c.round.lastErr THEN "exhausted" ELSE e

-----------------------------------------------------------------------------
(* endHomeSelectionBeforeRedispatch, for each of c.ending; then c.then.    *)

EndThen(call, E, p) == pc' = "end" /\ c' = [call EXCEPT !.ending = E, !.then = p]

EndOne(s) ==
    /\ pc = "end" /\ s \in c.ending
    /\ live' = live \ {s} /\ pc' = "wait" /\ c' = [c EXCEPT !.waiting = s]
    /\ UNCHANGED <<kept, drained, acked, target, sesVars>>

\* Mutant: the release is not waited for.
AckedEarly ==
    /\ pc = "wait"
    /\ pc' = "end" /\ c' = [c EXCEPT !.ending = @ \ {c.waiting}, !.cur = IF @ = c.waiting THEN None ELSE @]
    /\ UNCHANGED <<selVars, sesVars>>

\* The ticket is done.
Acked ==
    /\ pc = "wait" /\ c.waiting \in acked
    /\ pc' = "end" /\ c' = [c EXCEPT !.ending = @ \ {c.waiting}, !.cur = IF @ = c.waiting THEN None ELSE @]
    /\ UNCHANGED <<selVars, sesVars>>

\* The wait timed out: the call fails, and ends what it had just been given.
AckTimeout ==
    /\ pc = "wait"
    /\ live' = IF c.then = "check" /\ c.isNew THEN live \ {c.cur} ELSE live
    /\ Fail(c, "other") /\ UNCHANGED <<kept, drained, acked, target, sesVars>>

EndDone ==
    /\ pc = "end" /\ c.ending = {}
    /\ pc' = c.then /\ UNCHANGED <<selVars, sesVars, c>>

-----------------------------------------------------------------------------
(* pickHomeDispatchSelection.                                              *)

AllowSame == c.round.samePending /\ c.round.last # None /\ c.round.same[c.round.last] = 0
AtLimit == MaxRetryCredentials > 0 /\ Cardinality(c.round.attempted) >= MaxRetryCredentials

PickLimit ==
    /\ pc = "pick" /\ AtLimit /\ ~AllowSame
    /\ Fail(c, LastOr("other")) /\ UNCHANGED <<selVars, sesVars>>

\* A selection the session retains can serve this call.
Fits(s) ==
    /\ c.round.first /\ c.attempt = 0
    /\ target[s].auth \notin c.round.excluded /\ c.pinned \in {None, target[s].auth}
    /\ s \in live /\ target[s].route = c.route

Mismatched(a) == {s \in session : target[s].auth # a \/ target[s].route # c.route}

\* retainedHomeSessionSelection keeps one that fits and ends the others.
Pick ==
    /\ pc = "pick" /\ (AllowSame \/ ~AtLimit)
    /\ LET fitting == {s \in session : Fits(s)} IN
       \E keep \in IF fitting = {} THEN {None} ELSE fitting :
           /\ session' = session \cap {keep}
           /\ EndThen([c EXCEPT !.cur = keep, !.isNew = FALSE, !.mine = @ \cup (session \ acked)],
                      session \ {keep}, IF keep = None THEN "target" ELSE "check")
    /\ UNCHANGED <<selVars, pumped, cleared, homeOn, calls>>

\* The turn needs an upstream websocket that is lost.
TargetLost ==
    /\ pc = "target" /\ Fail(c, "stop") /\ UNCHANGED <<selVars, sesVars>>

\* A pinned call ends what the session holds for another credential.
Target ==
    /\ pc = "target"
    /\ LET E == IF c.pinned = None THEN {} ELSE Mismatched(c.pinned) IN
           session' = session \ E /\ EndThen(c, E, "dispatch")
    /\ UNCHANGED <<selVars, pumped, cleared, homeOn, calls>>

\* Home has no credential left for the round, or only excluded ones.
DispatchNone ==
    /\ pc = "dispatch" /\ Fail(c, LastOr("other")) /\ UNCHANGED <<selVars, sesVars>>

Observed(l) == IF c.pinned = None /\ l # Unset THEN l ELSE c.limit

\* All credentials cool down; Home may send its request-retry with it.
DispatchCooldown(l) ==
    /\ pc = "dispatch"
    /\ Fail([c EXCEPT !.remote = l, !.limit = IF c.round.lastErr THEN Observed(l) ELSE @], LastOr("cooldown"))
    /\ UNCHANGED <<selVars, sesVars>>

\* Home is not reachable, busy or answers nonsense.
DispatchFails ==
    /\ pc = "dispatch" /\ Fail(c, "other") /\ UNCHANGED <<selVars, sesVars>>

Unused == acked \ (live \cup session \cup pumped \cup cleared \cup c.mine)

\* A selection; Home need not respect the exclusions.  What the session holds for
\* another target is ended first.
Dispatch(a, l) ==
    /\ pc = "dispatch" /\ Unused # {}
    /\ c.pinned \in {None, a} /\ c.pinned \notin c.round.excluded
    /\ LET s == CHOOSE x \in Unused : TRUE IN
       /\ live' = live \cup {s} /\ kept' = kept \ {s} /\ drained' = drained \ {s} /\ acked' = acked \ {s}
       /\ target' = [target EXCEPT ![s] = [auth |-> a, route |-> c.route, retry |-> IF c.pinned = None THEN l ELSE Unset]]
       /\ session' = session \ Mismatched(a)
       /\ EndThen([c EXCEPT !.cur = s, !.isNew = TRUE, !.mine = @ \cup {s}], Mismatched(a), "check")
    /\ UNCHANGED <<pumped, cleared, homeOn, calls>>

-----------------------------------------------------------------------------
(* The body of executeStreamMixedOnce.                                     *)

\* observeHomeRetryLimit.
Limit(s) ==
    IF target[s].retry # Unset THEN target[s].retry
    ELSE IF c.limit < LocalRetry THEN LocalRetry ELSE c.limit

\* The selection is looked at: another credential beyond the limit, an excluded one,
\* or the same one for the third time is given back.
Check ==
    /\ pc = "check"
    /\ LET a == target[c.cur].auth
           r == c.round
           n == IF a \in r.tried THEN r.same[a] + 1 ELSE r.same[a]
           seen == [c EXCEPT !.limit = Limit(c.cur),
                             !.round.samePending = @ /\ (r.last = None \/ a = r.last)]
       IN
       \/ /\ \/ AllowSame /\ AtLimit /\ a # r.last
             \/ a \in r.tried \cap r.excluded
          /\ EndThen([seen EXCEPT !.err = LastOr("other")], {c.cur}, "failed")
       \/ /\ ~(AllowSame /\ AtLimit /\ a # r.last)
          /\ a \in r.tried \ r.excluded /\ n > 1
          /\ EndThen([seen EXCEPT !.round.same[a] = n, !.round.excluded = @ \cup {a}], {c.cur}, "pick")
       \/ /\ ~(AllowSame /\ AtLimit /\ a # r.last)
          /\ a \in r.tried => a \notin r.excluded /\ n <= 1
          /\ pc' = "bind" /\ c' = [seen EXCEPT !.round.same[a] = n]
    /\ UNCHANGED <<selVars, sesVars>>

\* Mutant: the selection is not ended when its scope refuses the attempt.
BindForgets ==
    /\ pc = "bind"
    /\ IF c.cur \in live \ drained
       THEN pc' = "exec" /\ c' = [c EXCEPT !.round.tried = @ \cup {target[c.cur].auth}]
       ELSE Fail(c, "other")
    /\ UNCHANGED <<selVars, sesVars>>

\* The attempt is bound; a scope that has ended refuses it and the call fails.
Bind ==
    /\ pc = "bind"
    /\ IF c.cur \in live \ drained
       THEN pc' = "exec" /\ c' = [c EXCEPT !.round.tried = @ \cup {target[c.cur].auth}] /\ UNCHANGED live
       ELSE Fail(c, "other") /\ live' = live \ {c.cur}
    /\ UNCHANGED <<kept, drained, acked, target, sesVars>>

NoModels ==
    /\ pc = "exec"
    /\ LET a == target[c.cur].auth IN
       EndThen([c EXCEPT !.round.excluded = @ \cup {a}, !.round.last = a, !.round.samePending = FALSE], {c.cur}, "pick")
    /\ UNCHANGED <<selVars, sesVars>>

Executed(call) ==
    LET a == target[call.cur].auth IN
    [call EXCEPT !.round.attempted = @ \cup {a}, !.round.runs[a] = @ + 1]

\* Mutant: a credential that had its second chance may have a third.
ExecFailsAgain(excludable, started, cancelled) ==
    /\ pc = "exec"
    /\ LET a == target[c.cur].auth IN
       EndThen([Executed(c) EXCEPT
                    !.round.excluded = IF excludable THEN @ \cup {a} ELSE @, !.round.last = a,
                    !.round.samePending = ~excludable, !.round.lastErr = TRUE, !.round.same[a] = 0,
                    !.round.first = @ /\ ~started, !.err = "other"],
               {c.cur}, IF cancelled THEN "failed" ELSE "pick")
    /\ UNCHANGED <<selVars, sesVars>>

\* Preparation or the start of the stream fails.  A lost connection or a refused
\* websocket gives the credential a second chance in the round, no more.
ExecFails(excludable, started, cancelled) ==
    /\ pc = "exec" /\ (cancelled => started)
    /\ LET a == target[c.cur].auth
           out == excludable \/ c.round.same[a] > 0
       IN
       EndThen([Executed(c) EXCEPT
                    !.round.excluded = IF out THEN @ \cup {a} ELSE @, !.round.last = a,
                    !.round.samePending = ~out, !.round.lastErr = TRUE,
                    !.round.first = @ /\ ~started, !.err = "other"],
               {c.cur}, IF cancelled THEN "failed" ELSE "pick")
    /\ UNCHANGED <<selVars, sesVars>>

\* An error that stops the request ends the selection without waiting for Home.
ExecStops ==
    /\ pc = "exec"
    /\ live' = live \ {c.cur} /\ Fail(Executed(c), "stop")
    /\ UNCHANGED <<kept, drained, acked, target, sesVars>>

\* The stream starts; an executor with an upstream websocket retains the selection.
ExecStarts(retain) ==
    /\ pc = "exec"
    /\ kept' = IF retain THEN kept \cup ({c.cur} \cap live) ELSE kept
    /\ pc' = "retain" /\ c' = Executed(c)
    /\ UNCHANGED <<live, drained, acked, target, sesVars>>

Return == pc' = "idle" /\ c' = NewCall(None, None)

\* retainHomeWebsocketSelection: the session takes the selection over, or the goroutine
\* of the stream ends it (wrapHomeStream).
Retain ==
    /\ pc = "retain"
    /\ LET a == target[c.cur].auth
           same == {s \in session : s # c.cur} \ Mismatched(a)
       IN IF c.cur \in kept \cap live
          THEN /\ live' = live \ (Mismatched(a) \cup same)
               /\ session' = {c.cur} /\ UNCHANGED pumped
          ELSE pumped' = pumped \cup {c.cur} /\ UNCHANGED <<live, session>>
    /\ Return /\ UNCHANGED <<kept, drained, acked, target, cleared, homeOn, calls>>

-----------------------------------------------------------------------------
(* The loop of ExecuteStream.                                              *)

Allowed(n, l) == n >= 0 /\ n < (IF l < 0 THEN LocalRetry ELSE l)

Failed == pc = "failed" /\ UNCHANGED <<selVars, sesVars>>

FailReturns == Failed /\ Return

\* Mutant: the wait for a round that Home puts off is not counted.
FailWaitsAgain ==
    /\ Failed /\ homeOn /\ c.pending /\ c.err = "cooldown"
    /\ Allowed(c.attempt - 1, Observed(c.remote))
    /\ pc' = "pick"
    /\ c' = [c EXCEPT !.limit = Observed(c.remote), !.waited = TRUE, !.round = Fresh, !.err = "none", !.remote = Unset]

\* Home put the new round off: it is waited for once.
FailWaits ==
    /\ Failed /\ homeOn /\ c.pending /\ c.err = "cooldown"
    /\ Allowed(c.attempt - 1, Observed(c.remote)) /\ ~c.waited
    /\ pc' = "pick"
    /\ c' = [c EXCEPT !.limit = Observed(c.remote), !.waited = TRUE, !.round = Fresh, !.err = "none", !.remote = Unset]

\* Another round, after a cooldown or at once.
FailRetries ==
    /\ Failed /\ homeOn
    /\ \/ c.err = "exhausted" /\ Allowed(c.attempt, c.limit)
       \/ c.err = "cooldown" /\ ~c.pending /\ Allowed(c.attempt, Observed(c.remote))
    /\ pc' = "pick"
    /\ c' = [c EXCEPT !.attempt = @ + 1, !.pending = TRUE, !.waited = FALSE, !.round = Fresh, !.err = "none", !.remote = Unset]

-----------------------------------------------------------------------------
(* What runs beside the calls.                                             *)

\* The upstream connection of a retained selection is lost.
Lose(s) ==
    /\ s \in live \cap kept
    /\ live' = live \ {s} /\ UNCHANGED <<kept, drained, acked, target, sesVars, pc, c>>

Drain ==
    /\ drained' = drained \cup live /\ drained' # drained
    /\ UNCHANGED <<live, kept, acked, target, sesVars, pc, c>>

\* Home acknowledges a released slot.
Ack(s) ==
    /\ s \notin acked /\ (s \in live => s \in drained)
    /\ acked' = acked \cup {s} /\ c' = [c EXCEPT !.mine = @ \ {s}]
    /\ UNCHANGED <<live, kept, drained, target, sesVars, pc>>

\* A stream ends, or its request is cancelled.
PumpEnds(s) ==
    /\ s \in pumped
    /\ pumped' = pumped \ {s} /\ live' = live \ {s}
    /\ UNCHANGED <<kept, drained, acked, target, session, cleared, homeOn, calls, pc, c>>

\* SetConfig disables Home: calls under way finish their round.
DisableHome ==
    /\ homeOn /\ homeOn' = FALSE
    /\ cleared' = cleared \cup session /\ session' = {}
    /\ UNCHANGED <<selVars, pumped, calls, pc, c>>

\* Mutant: CloseExecutionSession forgets what the session retains.
CloseForgets ==
    /\ pc = "idle" /\ pc' = "closed" /\ session' = {}
    /\ UNCHANGED <<selVars, pumped, cleared, homeOn, calls, c>>

\* The websocket of the client is gone: CloseExecutionSession takes what is retained ...
CloseSession ==
    /\ pc = "idle" /\ pc' = "closed"
    /\ cleared' = cleared \cup session /\ session' = {}
    /\ UNCHANGED <<selVars, pumped, homeOn, calls, c>>

\* ... and ends it, outside the lock.
ClearEnds(s) ==
    /\ s \in cleared
    /\ cleared' = cleared \ {s} /\ live' = live \ {s}
    /\ UNCHANGED <<kept, drained, acked, target, session, pumped, homeOn, calls, pc, c>>

-----------------------------------------------------------------------------
Limits == RetryLimits \cup {Unset}

CallStep ==
    \/ \E s \in Sel : EndOne(s)
    \/ Acked \/ AckTimeout \/ EndDone
    \/ PickLimit \/ Pick \/ TargetLost \/ Target
    \/ DispatchNone \/ DispatchFails
    \/ \E l \in Limits : DispatchCooldown(l) \/ \E a \in Auth : Dispatch(a, l)
    \/ Check \/ Bind \/ NoModels \/ ExecStops \/ Retain
    \/ \E excludable, started, cancelled \in BOOLEAN : ExecFails(excludable, started, cancelled)
    \/ \E retain \in BOOLEAN : ExecStarts(retain)
    \/ FailReturns \/ FailWaits \/ FailRetries

Next ==
    \/ CallStep
    \/ \E r \in Route, pin \in Auth \cup {None} : Begin(r, pin)
    \/ \E s \in Sel : Lose(s) \/ Ack(s) \/ PumpEnds(s) \/ ClearEnds(s)
    \/ Drain \/ DisableHome \/ CloseSession

Spec == Init /\ [][Next]_vars

\* A call goes on: executors and Home answer or time out.  When the client is gone the
\* contexts of its streams are cancelled, and who has taken selections ends them.
FairSpec ==
    /\ Spec /\ WF_vars(CallStep)
    /\ \A s \in Sel : WF_vars(ClearEnds(s)) /\ WF_vars(pc = "closed" /\ PumpEnds(s))

-----------------------------------------------------------------------------
(* Properties.                                                             *)

\* No return of the call, early or late, leaves a slot at Home that nobody will
\* give back: a selection that has not ended is in the hands of the call, of the
\* session, of the goroutine of its stream, or of somebody about to end it.
NoOrphan ==
    LET hands == IF pc \in {"idle", "failed", "closed"} THEN {} ELSE {c.cur} \cup c.ending
    IN live \subseteq hands \cup session \cup pumped \cup cleared

\* Home is asked for a credential only when it has acknowledged every slot the call
\* has held before, in this round and in earlier ones, and the session holds none: a
\* call never waits for a slot that it occupies itself.
DispatchHoldsNoSlot == pc = "dispatch" => session = {} /\ c.mine = {}

\* Slots as executeStreamHome handles them: never lost, and never held while it
\* waits for another one.
SlotsInHand == NoOrphan /\ DispatchHoldsNoSlot

\* In a round a credential is executed at most twice, and no more credentials than
\* max-retry-credentials, even if Home ignores the exclusions it is sent.
RoundBounded ==
    /\ \A a \in Auth : c.round.runs[a] <= 2
    /\ MaxRetryCredentials > 0 => Cardinality(c.round.attempted) <= MaxRetryCredentials

\* Every call returns, whatever Home and the upstreams answer.
StreamCallReturns == (pc \notin {"idle", "closed"}) ~> (pc \in {"idle", "closed"})

\* When the client has gone every slot of the session is given back.
SessionEnds == (pc = "closed") ~> (live = {})

\* Neither the retry loop nor the websocket session's slots go on for ever.
CallsAndSessionEnd == StreamCallReturns /\ SessionEnds
=============================================================================
