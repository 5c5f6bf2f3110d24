---------------------------- MODULE HomeSelection ----------------------------
(***************************************************************************)
(* What hangs under one execution scope of a Home dispatch                 *)
(* (sdk/cliproxy/auth/home_selection.go): resources bound by the executor, *)
(* attempts with a cancellable context, and the close that ends them all.  *)
(* The scope calls executionResources.Close once, from the End of the      *)
(* selection or from a drain of the registry, and gives the slot back to   *)
(* Home afterwards (module ExecutionRegistry, ClosesOnce and               *)
(* ReleaseAfterClose).                                                     *)
(***************************************************************************)
EXTENDS Naturals, SequencesExt

CONSTANTS
    Res,        \* resources the executor binds
    Attempt,    \* attempts
    NoAttempt

\* The closer newHomeDispatchSelection adds first: it closes the attempts.
Attempts == "attempts"

ASSUME SelectionAssumption == Attempts \notin Res /\ NoAttempt \notin Attempt

VARIABLES
    scope,      \* "new", "refused", "bound", "closing" or "closed"
    byTurn,     \* the attempt of the EndWebsocketTurn that began the close, or NoAttempt
    resClosed,  \* executionResources.closed
    closers,    \* executionResources.closers
    running,    \* what Close has taken and not called yet
    resPc,      \* where the Bind of a resource is
    resCloses,  \* how often a resource was closed
    attClosed,  \* attemptCancels.closed
    cancels,    \* attemptCancels.cancels
    toCancel,   \* attempts its close has taken and not cancelled yet
    spared,     \* the preserved attempt that close was called with
    preserved,  \* preservedAttempt
    ended,      \* the attempt whose EndWebsocketTurn is between its store and End, or NoAttempt
    attPc,      \* where an attempt is
    cancelled   \* attempts whose context is cancelled

resVars == <<resClosed, closers, running, resPc, resCloses>>
attVars == <<attClosed, cancels, toCancel, spared, attPc, cancelled>>
selectionVars == <<scope, byTurn, resVars, attVars, preserved, ended>>

SelectionInit ==
    /\ scope = "new" /\ byTurn = NoAttempt
    /\ resClosed = FALSE /\ closers = <<>> /\ running = <<>>
    /\ resPc = [r \in Res |-> "no"] /\ resCloses = [r \in Res |-> 0]
    /\ attClosed = FALSE /\ cancels = {} /\ toCancel = {} /\ spared = NoAttempt
    /\ attPc = [a \in Attempt |-> "no"] /\ cancelled = {}
    /\ preserved = NoAttempt /\ ended = NoAttempt

InUse == scope \in {"bound", "closing", "closed"}

-----------------------------------------------------------------------------
\* newHomeDispatchSelection adds the closer of the attempts and binds to the scope;
\* if the scope has ended it closes the resources at once and nobody gets the selection.
New(bound) ==
    /\ scope = "new"
    /\ scope' = (IF bound THEN "bound" ELSE "refused")
    /\ closers' = (IF bound THEN <<Attempts>> ELSE <<>>)
    /\ resClosed' = ~bound /\ attClosed' = ~bound
    /\ UNCHANGED <<byTurn, running, resPc, resCloses, cancels, toCancel, spared, attPc, cancelled, preserved, ended>>

\* End, or a drain of the registry: whoever is first makes the scope close.
End ==
    /\ scope = "bound" /\ scope' = "closing"
    /\ UNCHANGED <<byTurn, resVars, attVars, preserved, ended>>

\* Mutant: EndWebsocketTurn ends the scope before it names the attempt to spare.
TurnPreserveLate(a) ==
    /\ attPc[a] = "running" /\ ended = NoAttempt /\ scope = "bound"
    /\ ended' = a /\ scope' = "closing" /\ byTurn' = a
    /\ UNCHANGED <<resVars, attVars, preserved>>

\* EndWebsocketTurn: the attempt that reports the lost websocket is to be spared.
TurnPreserve(a) ==
    /\ attPc[a] = "running" /\ ended = NoAttempt /\ InUse
    /\ ended' = a /\ preserved' = a
    /\ UNCHANGED <<scope, byTurn, resVars, attVars>>

TurnEnd ==
    /\ ended # NoAttempt /\ scope = "bound"
    /\ scope' = "closing" /\ byTurn' = ended
    /\ UNCHANGED <<resVars, attVars, preserved, ended>>

-----------------------------------------------------------------------------
(* executionResources.                                                     *)

\* Mutant: Add appends after Close has taken the list.
AddAlways(r) ==
    /\ resPc[r] = "no" /\ InUse
    /\ closers' = Append(closers, r) /\ resPc' = [resPc EXCEPT ![r] = "added"]
    /\ UNCHANGED <<scope, byTurn, resClosed, running, resCloses, attVars, preserved, ended>>

\* Bind opens a resource and adds its closer; if the list is closed Add keeps it ...
Add(r) ==
    /\ resPc[r] = "no" /\ InUse
    /\ IF resClosed THEN resPc' = [resPc EXCEPT ![r] = "late"] /\ UNCHANGED closers
                    ELSE resPc' = [resPc EXCEPT ![r] = "added"] /\ closers' = Append(closers, r)
    /\ UNCHANGED <<scope, byTurn, resClosed, running, resCloses, attVars, preserved, ended>>

\* ... and closes it itself, outside the lock.
AddCloses(r) ==
    /\ resPc[r] = "late"
    /\ resPc' = [resPc EXCEPT ![r] = "refused"] /\ resCloses' = [resCloses EXCEPT ![r] = @ + 1]
    /\ UNCHANGED <<scope, byTurn, resClosed, closers, running, attVars, preserved, ended>>

\* Close takes the list ...
Close ==
    /\ scope = "closing" /\ ~resClosed
    /\ resClosed' = TRUE /\ running' = closers /\ closers' = <<>>
    /\ UNCHANGED <<scope, byTurn, resPc, resCloses, attVars, preserved, ended>>

\* ... and calls the closers, the last one first; attempts are closed by the last.
CloseRes ==
    /\ running # <<>> /\ Last(running) \in Res
    /\ resCloses' = [resCloses EXCEPT ![Last(running)] = @ + 1] /\ running' = Front(running)
    /\ UNCHANGED <<scope, byTurn, resClosed, closers, resPc, attVars, preserved, ended>>

CloseAttempts ==
    /\ running # <<>> /\ Last(running) = Attempts
    /\ attClosed' = TRUE /\ toCancel' = cancels /\ cancels' = {} /\ spared' = preserved
    /\ running' = Front(running)
    /\ UNCHANGED <<scope, byTurn, resClosed, closers, resPc, resCloses, attPc, cancelled, preserved, ended>>

CancelOne(a) ==
    /\ a \in toCancel
    /\ toCancel' = toCancel \ {a}
    /\ cancelled' = IF a = spared THEN cancelled ELSE cancelled \cup {a}
    /\ UNCHANGED <<scope, byTurn, resVars, attClosed, cancels, spared, attPc, preserved, ended>>

\* closeFn returned: the scope reports its slot to Home.
CloseDone ==
    /\ scope = "closing" /\ attClosed /\ running = <<>> /\ toCancel = {}
    /\ scope' = "closed"
    /\ UNCHANGED <<byTurn, resVars, attVars, preserved, ended>>

-----------------------------------------------------------------------------
(* attemptCancels.                                                         *)

\* Mutant: addAttempt does not look at closed.
AddAttemptAlways(a) ==
    /\ attPc[a] = "no" /\ InUse
    /\ attPc' = [attPc EXCEPT ![a] = "running"] /\ cancels' = cancels \cup {a}
    /\ UNCHANGED <<scope, byTurn, resVars, attClosed, toCancel, spared, cancelled, preserved, ended>>

\* AttemptContext registers the attempt, or cancels it if the attempts are closed.
AddAttempt(a) ==
    /\ attPc[a] = "no" /\ InUse
    /\ IF attClosed THEN /\ attPc' = [attPc EXCEPT ![a] = "refused"] /\ cancelled' = cancelled \cup {a}
                         /\ UNCHANGED cancels
                    ELSE /\ attPc' = [attPc EXCEPT ![a] = "running"] /\ cancels' = cancels \cup {a}
                         /\ UNCHANGED cancelled
    /\ UNCHANGED <<scope, byTurn, resVars, attClosed, toCancel, spared, preserved, ended>>

\* The attempt's release removes the entry and then cancels.
Release(a) ==
    /\ attPc[a] = "running"
    /\ attPc' = [attPc EXCEPT ![a] = "releasing"] /\ cancels' = cancels \ {a}
    /\ UNCHANGED <<scope, byTurn, resVars, attClosed, toCancel, spared, cancelled, preserved, ended>>

ReleaseCancels(a) ==
    /\ attPc[a] = "releasing"
    /\ attPc' = [attPc EXCEPT ![a] = "released"] /\ cancelled' = cancelled \cup {a}
    /\ UNCHANGED <<scope, byTurn, resVars, attClosed, cancels, toCancel, spared, preserved, ended>>

-----------------------------------------------------------------------------
CloseStep == Close \/ CloseRes \/ CloseAttempts \/ (\E a \in Attempt : CancelOne(a)) \/ CloseDone

SelectionNext ==
    \/ \E bound \in BOOLEAN : New(bound)
    \/ End \/ TurnEnd \/ CloseStep
    \/ \E r \in Res : Add(r) \/ AddCloses(r)
    \/ \E a \in Attempt : TurnPreserve(a) \/ AddAttempt(a) \/ Release(a) \/ ReleaseCancels(a)

SelectionSpec == SelectionInit /\ [][SelectionNext]_selectionVars

\* Whoever closes goes on, and so does an Add that has to close by itself.  An attempt
\* that runs owes nothing: it may wait for its context for ever.
SelectionFairSpec ==
    /\ SelectionSpec /\ WF_selectionVars(CloseStep)
    /\ \A r \in Res : WF_selectionVars(AddCloses(r))
    /\ \A a \in Attempt : WF_selectionVars(ReleaseCancels(a))

-----------------------------------------------------------------------------
(* Properties.                                                             *)

\* When the slot is given back nothing of the execution is left: every resource
\* whose Bind returned is closed, once, and no attempt can run on except the one that
\* is spared to report its error.
SlotFreeOfWork ==
    scope = "closed" =>
        /\ \A r \in Res : resPc[r] \in {"added", "refused"} => resCloses[r] = 1
        /\ \A a \in Attempt : attPc[a] \in {"running", "refused"} => a \in cancelled \/ a = spared

\* The attempt that ends the turn of a lost websocket is not cancelled by the close
\* it starts, only by its own release: it can still deliver the error of the turn.
TurnErrorDelivered == byTurn # NoAttempt /\ byTurn \in cancelled => attPc[byTurn] # "running"

\* Close as its callers rely on it: nothing is left over, and the turn that asked
\* for it is not cut off by it.
ClosesCleanly == SlotFreeOfWork /\ TurnErrorDelivered

\* Once the scope closes, every attempt but the spared one is cancelled, also one
\* that was being registered meanwhile, and every bound resource is closed; nothing
\* has to be released by its owner first.
CloseReachesAll ==
    /\ \A a \in Attempt : (scope = "closing" /\ attPc[a] = "running") ~> (a \in cancelled \/ a = spared)
    /\ \A r \in Res : (scope = "closing" /\ resPc[r] # "no") ~> (resCloses[r] = 1)
=============================================================================
