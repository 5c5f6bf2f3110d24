----------------------- MODULE HomeAccountingProofs -----------------------
(***************************************************************************)
(* Proofs about the registry, the flusher and Home together, for any       *)
(* number of dispatches, groups, calls and lifetimes, in three sections:   *)
(* the registry with its observation, the flusher, and the composition.    *)
(* Every step of the composition is a step of the registry and a step of   *)
(* the flusher, so the inductive invariants of both carry over; what the   *)
(* last section adds is what ties their variables to each other and to     *)
(* Home's account.                                                         *)
(***************************************************************************)
EXTENDS HomeAccounting, RegistryObservation, FiniteSetTheorems, TLAPS

-----------------------------------------------------------------------------
(***************************************************************************)
(* The registry, modules ExecutionRegistry and RegistryObservation, for    *)
(* any number of dispatches, drains and readers.                           *)
(***************************************************************************)

\* Every step keeps the types.
LEMMA TypeStep == TypeOK /\ [Next]_vars => TypeOK'
<1> SUFFICES ASSUME TypeOK, [Next]_vars
             PROVE  TypeOK'
  OBVIOUS
<1> USE DEF TypeOK
<1>1. ASSUME NEW d \in Request, OwnerStep(d) PROVE TypeOK'
  <2>1. CASE BeginReject(d) \/ BeginLock(d)
    BY <2>1 DEF BeginReject, BeginLock, Goto, lifeVars, relVars, callVars
  <2>2. CASE BeginCommit(d)
    BY <2>2 DEF BeginCommit, Goto, relVars, callVars
  <2>5. CASE PendingEnd(d) \/ InstallReject(d)
    BY <2>5 DEF PendingEnd, InstallReject, Goto, Signal, relVars, callVars
  <2>6. CASE InstallCommit(d)
    BY <2>6 DEF InstallCommit, Goto, Signal, relVars, callVars
  <2>3. ASSUME NEW g \in Group \cup {Unaccounted}, InstallLock(d, g) PROVE TypeOK'
    BY <2>3 DEF InstallLock, Goto, lifeVars, relVars, callVars
  <2>4. CASE BindReject(d) \/ BindLock(d) \/ BindCommit(d)
    BY <2>4 DEF BindReject, BindLock, BindCommit, Goto, lifeVars, relVars, callVars
  <2> QED BY <1>1, <2>1, <2>2, <2>3, <2>4, <2>5, <2>6 DEF OwnerStep
<1>2. ASSUME NEW d \in Request, EndStart(d) \/ EndBody(d) \/ ResourceClosed(d) PROVE TypeOK'
  <2>1. CASE EndStart(d)
    BY <2>1 DEF EndStart, GotoEnd, lifeVars, dispVars, relVars, callVars
  <2>7. CASE EndAwait(d) \/ EndUnmarked(d)
    BY <2>7 DEF EndAwait, EndUnmarked, GotoEnd, lifeVars, dispVars, relVars, callVars
  <2>5. CASE EndClose(d)
    BY <2>5 DEF EndClose, GotoEnd, StartClose, lifeVars, dispVars, relVars, callVars
  <2>6. CASE EndDelete(d)
    BY <2>6 DEF EndDelete, GotoEnd, Signal, dispVars, relVars, callVars
  <2>2. CASE EndMark(d)
    BY <2>2 DEF EndMark, GotoEnd, lifeVars, dispVars, callVars
  <2>3. CASE EndSink(d)
    <3>1. <<group[d], captured[d].seq>> \in (Group \cup {Unaccounted}) \X Nat
      OBVIOUS
    <3> QED BY <2>3, <3>1 DEF EndSink, GotoEnd, lifeVars, dispVars, callVars
  <2>4. CASE ResourceClosed(d)
    BY <2>4 DEF ResourceClosed, lifeVars, dispVars, relVars, callVars
  <2> QED BY <1>2, <2>1, <2>2, <2>3, <2>4, <2>5, <2>6, <2>7 DEF EndBody
<1>3. ASSUME SinkStep PROVE TypeOK'
  <2>1. CASE ReplaySink
    BY <2>1 DEF ReplaySink, lifeVars, dispVars, callVars
  <2>2. ASSUME NEW k \in Sink \cup {NoSink}, SetReleaseSink(k) PROVE TypeOK'
    BY <2>2 DEF SetReleaseSink, KnownSequences, lifeVars, dispVars, callVars
  <2> QED BY <1>3, <2>1, <2>2 DEF SinkStep
<1>4. ASSUME NEW c \in Drainer, DrainStep(c) PROVE TypeOK'
  <2> USE DEF Caller, Waiter
  <2>1. CASE DrainStart(c) \/ DrainRefused(c) \/ CollectScopes(c) \/ DrainSwept(c)
    BY <2>1 DEF DrainStart, DrainRefused, CollectScopes, DrainSwept, GotoCall, lifeVars,
                dispVars, relVars
  <2>2. ASSUME NEW d \in Request, DrainVisit(c, d) PROVE TypeOK'
    BY <2>2 DEF DrainVisit, StartClose, lifeVars, dispVars, relVars
  <2>3. CASE DrainDone(c) \/ DrainWait(c) \/ WaitTimeout(c)
    BY <2>3 DEF DrainDone, DrainWait, WaitTimeout, GotoCall, lifeVars, dispVars, relVars
  <2> QED BY <1>4, <2>1, <2>2, <2>3 DEF DrainStep, DrainWork
<1>5. ASSUME NEW c \in Settler, SettleStep(c) PROVE TypeOK'
  BY <1>5 DEF SettleStep, SettleWork, SettleStart, SettleDone, SettleWait, WaitTimeout,
              GotoCall, lifeVars, dispVars, relVars, Caller, Waiter
<1>6. ASSUME NEW c \in Closer, CloseStep(c) PROVE TypeOK'
  <2> USE DEF Caller, Waiter
  <2>1. CASE CloseStart(c) \/ CloseNothing(c) \/ CloseJoin(c) \/ CloseJoined(c) \/ CloseSwap(c)
    BY <2>1 DEF CloseStart, CloseNothing, CloseJoin, CloseJoined, CloseSwap, GotoCall,
                lifeVars, dispVars, relVars
  <2>2. ASSUME NEW d \in Request, CloseVisit(c, d) PROVE TypeOK'
    BY <2>2 DEF CloseVisit, StartClose, MustAwait, GotoCall, lifeVars, dispVars, relVars
  <2>3. CASE CollectScopes(c) \/ CloseAwait(c) \/ CloseFinish(c)
    BY <2>3 DEF CollectScopes, CloseAwait, CloseFinish, GotoCall, lifeVars, dispVars, relVars
  <2> QED BY <1>6, <2>1, <2>2, <2>3 DEF CloseStep, CloseWork
<1>7. CASE UNCHANGED vars
  BY <1>7 DEF vars, lifeVars, dispVars, relVars, callVars
<1> QED BY <1>1, <1>2, <1>3, <1>4, <1>5, <1>6, <1>7 DEF Next

\* The registry's variables keep their types in every behaviour.
THEOREM TypeCorrect == Spec => []TypeOK
<1>1. Init => TypeOK
  BY DEF Init, TypeOK, Caller, Waiter
<1> QED BY <1>1, TypeStep, PTL DEF Spec

(***************************************************************************)
(* The inductive invariant.  MapInv ties the maps, the scope's resource    *)
(* and the body of End to where the owner is; it is what makes             *)
(* ReleaseAfterClose inductive.  Halted is the heart of the shutdown       *)
(* argument: once the registry has left "accepting" and the mutex has been *)
(* free, no test-and-commit section can be under way again.                *)
(***************************************************************************)
MapOK(d) ==
    /\ d \in pending <=> pc[d] \in {"pending", "installing"}
    /\ d \in scopes <=> /\ pc[d] \in {"installed", "binding", "running", "unbound"}
                        /\ endPc[d] # "done"
    /\ endPc[d] # "none" => pc[d] \in {"installed", "running", "unbound"}
    /\ resource[d] # "none" => pc[d] = "running"
    /\ endPc[d] = "await" => resource[d] \in {"closing", "closed"}
    /\ endPc[d] \in {"mark", "sink", "delete", "done"} => resource[d] \in {"none", "closed"}

MapInv == \A d \in Request : MapOK(d)

Halted == state # "accepting" /\ MuFree

\* Where a call of Drain is, and what it has achieved by then.
DrainOK(c) ==
    /\ callPc[c] = "collect" => state # "accepting"
    /\ callPc[c] \in {"sweep", "check", "wait", "ok", "timedOut"} =>
         /\ Halted
         /\ \A d \in Request :
              resource[d] = "bound" => callPc[c] = "sweep" /\ d \in sweep[c]
    /\ callPc[c] = "ok" => pending = {} /\ scopes = {}

DrainInv == \A c \in Drainer : DrainOK(c)

NothingOpen == Halted /\ \A d \in Request : ~Open(d)

\* The same for Close, which also waits for each resource it visits.
CloseOK(c) ==
    /\ callPc[c] \in {"idle", "swap", "collect", "sweep", "await", "join", "ok"}
    /\ callPc[c] = "swap" => closePhase # "open"
    /\ callPc[c] = "collect" => state # "accepting"
    /\ callPc[c] \in {"sweep", "await"} =>
         Halted /\ \A d \in Request : Open(d) => d \in sweep[c] \cup awaiting[c]
    /\ callPc[c] # "await" => awaiting[c] = {}
    /\ callPc[c] = "ok" => NothingOpen

\* A registry closed by Drain alone was empty when it was closed.
ClosedByDrain == state = "closed" /\ closePhase = "open" => Halted /\ scopes = {}

CloseInv ==
    /\ \A c \in Closer : CloseOK(c)
    /\ closePhase = "done" => NothingOpen
    /\ ClosedByDrain
-----------------------------------------------------------------------------
\* The variables MapInv speaks of.
mapVars == <<pending, scopes, pc, resource, endPc>>

\* Each step of a dispatch's owner, of End and of the closing goroutine, and each
\* visit of Drain or Close, preserves MapInv; the other steps touch none of it.
LEMMA MapInvStep == TypeOK /\ MapInv /\ [Next]_vars => MapInv'
<1> SUFFICES ASSUME TypeOK, MapInv, [Next]_vars, NEW e \in Request
             PROVE  MapOK(e)'
  BY DEF MapInv
<1>0. MapOK(e)
  BY DEF MapInv
<1>U. ASSUME UNCHANGED mapVars PROVE MapOK(e)'
  BY <1>0, <1>U DEF mapVars, MapOK
<1> USE DEF TypeOK
<1>V. ASSUME NEW d \in Request, StartClose(d), UNCHANGED <<pending, scopes, pc, endPc>>
      PROVE  MapOK(e)'
  BY <1>0, <1>V DEF MapOK, StartClose
<1>1. ASSUME NEW d \in Request, OwnerStep(d) PROVE MapOK(e)'
  <2>1. CASE BeginReject(d) \/ BeginLock(d)
    BY <1>0, <2>1 DEF MapOK, BeginReject, BeginLock, Goto, lifeVars
  <2>2. CASE BeginCommit(d)
    BY <1>0, <2>2 DEF MapOK, BeginCommit, Goto
  <2>3. CASE PendingEnd(d) \/ InstallReject(d)
    BY <1>0, <2>3 DEF MapOK, PendingEnd, InstallReject, Goto
  <2>4. ASSUME NEW g \in Group \cup {Unaccounted}, InstallLock(d, g) PROVE MapOK(e)'
    BY <1>0, <2>4 DEF MapOK, InstallLock, Goto, lifeVars
  <2>5. CASE InstallCommit(d)
    BY <1>0, <2>5 DEF MapOK, InstallCommit, Goto
  <2>6. CASE BindReject(d)
    BY <1>0, <2>6 DEF MapOK, BindReject, Goto, lifeVars
  <2>7. CASE BindLock(d)
    BY <1>0, <2>7 DEF MapOK, BindLock, Active, Goto, lifeVars
  <2>8. CASE BindCommit(d)
    BY <1>0, <2>8 DEF MapOK, BindCommit, Goto, lifeVars
  <2> QED BY <1>1, <2>1, <2>2, <2>3, <2>4, <2>5, <2>6, <2>7, <2>8 DEF OwnerStep
<1>2. ASSUME NEW d \in Request, EndStart(d) \/ EndBody(d) \/ ResourceClosed(d) PROVE MapOK(e)'
  <2>1. CASE EndStart(d)
    BY <1>0, <2>1 DEF MapOK, EndStart, MuFree, GotoEnd, lifeVars, dispVars
  <2>2. CASE EndClose(d)
    BY <1>0, <2>2 DEF MapOK, EndClose, StartClose, MustAwait, GotoEnd, lifeVars, dispVars
  <2>3. CASE EndAwait(d)
    BY <1>0, <2>3 DEF MapOK, EndAwait, GotoEnd, lifeVars, dispVars
  <2>4. CASE EndMark(d) \/ EndUnmarked(d) \/ EndSink(d)
    BY <1>0, <2>4 DEF MapOK, EndMark, EndUnmarked, EndSink, GotoEnd, lifeVars, dispVars
  <2>5. CASE EndDelete(d)
    BY <1>0, <2>5 DEF MapOK, EndDelete, GotoEnd, dispVars
  <2>6. CASE ResourceClosed(d)
    BY <1>0, <2>6 DEF MapOK, ResourceClosed, lifeVars, dispVars
  <2> QED BY <1>2, <2>1, <2>2, <2>3, <2>4, <2>5, <2>6 DEF EndBody
<1>3. ASSUME SinkStep PROVE MapOK(e)'
  BY <1>U, <1>3 DEF SinkStep, ReplaySink, SetReleaseSink, lifeVars, dispVars, mapVars
<1>4. ASSUME NEW c \in Drainer, DrainStep(c) PROVE MapOK(e)'
  <2>1. ASSUME NEW d \in Request, DrainVisit(c, d) PROVE MapOK(e)'
    BY <1>V, <2>1 DEF DrainVisit, lifeVars, dispVars
  <2>2. CASE ~\E d \in Request : DrainVisit(c, d)
    BY <1>U, <1>4, <2>2 DEF DrainStep, DrainWork, DrainStart, DrainRefused, CollectScopes,
       DrainSwept, DrainDone, DrainWait, WaitTimeout, lifeVars, dispVars, mapVars
  <2> QED BY <2>1, <2>2
<1>5. ASSUME NEW c \in Settler, SettleStep(c) PROVE MapOK(e)'
  BY <1>U, <1>5 DEF SettleStep, SettleWork, SettleStart, SettleDone, SettleWait, WaitTimeout,
     lifeVars, dispVars, mapVars
<1>6. ASSUME NEW c \in Closer, CloseStep(c) PROVE MapOK(e)'
  <2>1. ASSUME NEW d \in Request, CloseVisit(c, d) PROVE MapOK(e)'
    BY <1>V, <2>1 DEF CloseVisit, lifeVars, dispVars
  <2>2. CASE ~\E d \in Request : CloseVisit(c, d)
    BY <1>U, <1>6, <2>2 DEF CloseStep, CloseWork, CloseStart, CloseNothing, CloseJoin,
       CloseJoined, CloseSwap, CollectScopes, CloseAwait, CloseFinish, lifeVars, dispVars,
       mapVars
  <2> QED BY <2>1, <2>2
<1>7. CASE UNCHANGED vars
  BY <1>U, <1>7 DEF vars, lifeVars, dispVars, mapVars
<1> QED BY <1>1, <1>2, <1>3, <1>4, <1>5, <1>6, <1>7 DEF Next

\* Under End, Drain, Close and Bind in any order, a slot is released only after the
\* resource that used it is closed (ReleaseAfterClose), for any number of dispatches.
THEOREM SlotReleasedAfterClose == Spec => []ReleaseAfterClose
<1>1. Init => MapInv
  BY DEF Init, MapInv, MapOK
<1>2. MapInv => ReleaseAfterClose
  BY DEF MapInv, MapOK, ReleaseAfterClose, Released, Open
<1> QED BY TypeCorrect, MapInvStep, <1>1, <1>2, PTL DEF Spec

-----------------------------------------------------------------------------
\* What a step can do to a halted registry.
OnlyShrinks ==
    /\ Halted'
    /\ pending' \subseteq pending
    /\ scopes' \subseteq scopes
    /\ \A e \in Request : /\ resource'[e] = "bound" => resource[e] = "bound"
                          /\ Open(e)' => Open(e)

\* A halted registry stays halted: nothing is begun, installed or bound any more.
LEMMA HaltedStep == TypeOK /\ Halted /\ [Next]_vars => OnlyShrinks
<1> SUFFICES ASSUME TypeOK, Halted, [Next]_vars
             PROVE  OnlyShrinks
  OBVIOUS
<1> USE DEF TypeOK, Halted, MuFree, OnlyShrinks, Open
<1>V. ASSUME NEW d \in Request, StartClose(d), UNCHANGED <<state, pending, scopes, pc>>
      PROVE  OnlyShrinks
  BY <1>V DEF StartClose
<1>W. ASSUME UNCHANGED <<pending, scopes, pc, resource>>, state' # "accepting"
      PROVE  OnlyShrinks
  BY <1>W
<1>1. ASSUME NEW d \in Request, OwnerStep(d) PROVE OnlyShrinks
  <2>1. ~BeginLock(d) /\ ~BeginCommit(d) /\ ~InstallCommit(d) /\ ~BindLock(d) /\ ~BindCommit(d)
        /\ \A g \in Group \cup {Unaccounted} : ~InstallLock(d, g)
    BY DEF BeginLock, BeginCommit, InstallCommit, BindLock, BindCommit, InstallLock
  <2>2. CASE BeginReject(d) \/ BindReject(d)
    BY <2>2 DEF BeginReject, BindReject, Goto, lifeVars
  <2>3. CASE PendingEnd(d) \/ InstallReject(d)
    BY <2>3 DEF PendingEnd, InstallReject, Goto
  <2> QED BY <1>1, <2>1, <2>2, <2>3 DEF OwnerStep
<1>2. ASSUME NEW d \in Request, EndStart(d) \/ EndBody(d) \/ ResourceClosed(d) PROVE OnlyShrinks
  <2>1. CASE EndClose(d)
    BY <1>V, <2>1 DEF EndClose, lifeVars, dispVars
  <2>2. CASE EndStart(d) \/ EndAwait(d) \/ EndMark(d) \/ EndUnmarked(d) \/ EndSink(d)
    BY <1>W, <2>2 DEF EndStart, EndAwait, EndMark, EndUnmarked, EndSink, lifeVars, dispVars
  <2>3. CASE EndDelete(d)
    BY <2>3 DEF EndDelete, dispVars
  <2>4. CASE ResourceClosed(d)
    BY <2>4 DEF ResourceClosed, lifeVars, dispVars
  <2> QED BY <1>2, <2>1, <2>2, <2>3, <2>4 DEF EndBody
<1>3. ASSUME SinkStep PROVE OnlyShrinks
  BY <1>W, <1>3 DEF SinkStep, ReplaySink, SetReleaseSink, lifeVars, dispVars
<1>4. ASSUME NEW c \in Drainer, DrainStep(c) PROVE OnlyShrinks
  <2>1. ASSUME NEW d \in Request, DrainVisit(c, d) PROVE OnlyShrinks
    BY <1>V, <2>1 DEF DrainVisit, lifeVars, dispVars
  <2>2. CASE ~\E d \in Request : DrainVisit(c, d)
    BY <1>W, <1>4, <2>2 DEF DrainStep, DrainWork, DrainStart, DrainRefused, CollectScopes,
       DrainSwept, DrainDone, DrainWait, WaitTimeout, lifeVars, dispVars
  <2> QED BY <2>1, <2>2
<1>5. ASSUME NEW c \in Settler, SettleStep(c) PROVE OnlyShrinks
  BY <1>W, <1>5 DEF SettleStep, SettleWork, SettleStart, SettleDone, SettleWait, WaitTimeout,
     lifeVars, dispVars
<1>6. ASSUME NEW c \in Closer, CloseStep(c) PROVE OnlyShrinks
  <2>1. ASSUME NEW d \in Request, CloseVisit(c, d) PROVE OnlyShrinks
    BY <1>V, <2>1 DEF CloseVisit, lifeVars, dispVars
  <2>2. CASE ~\E d \in Request : CloseVisit(c, d)
    BY <1>W, <1>6, <2>2 DEF CloseStep, CloseWork, CloseStart, CloseNothing, CloseJoin,
       CloseJoined, CloseSwap, CollectScopes, CloseAwait, CloseFinish, lifeVars, dispVars
  <2> QED BY <2>1, <2>2
<1>7. CASE UNCHANGED vars
  BY <1>W, <1>7 DEF vars, lifeVars, dispVars
<1> QED BY <1>1, <1>2, <1>3, <1>4, <1>5, <1>6, <1>7 DEF Next

\* The registry never accepts again once it has stopped accepting.
LEMMA StateStep == state # "accepting" /\ [Next]_vars => state' # "accepting"
<1> SUFFICES ASSUME state # "accepting", [Next]_vars
             PROVE  state' # "accepting"
  OBVIOUS
<1>1. ASSUME NEW d \in Request, OwnerStep(d) \/ EndStart(d) \/ EndBody(d) \/ ResourceClosed(d)
      PROVE  state' # "accepting"
  BY <1>1 DEF OwnerStep, EndBody, BeginReject, BeginLock, BeginCommit, PendingEnd, InstallReject,
     InstallLock, InstallCommit, BindReject, BindLock, BindCommit, EndStart, EndClose, EndAwait,
     EndMark, EndUnmarked, EndSink, EndDelete, ResourceClosed, lifeVars
<1>2. CASE SinkStep
  BY <1>2 DEF SinkStep, ReplaySink, SetReleaseSink, lifeVars
<1>3. ASSUME NEW c \in Drainer, DrainStep(c) PROVE state' # "accepting"
  BY <1>3 DEF DrainStep, DrainWork, DrainStart, DrainRefused, CollectScopes, DrainVisit,
     DrainSwept, DrainDone, DrainWait, WaitTimeout, lifeVars
<1>4. ASSUME NEW c \in Settler, SettleStep(c) PROVE state' # "accepting"
  BY <1>4 DEF SettleStep, SettleWork, SettleStart, SettleDone, SettleWait, WaitTimeout, lifeVars
<1>5. ASSUME NEW c \in Closer, CloseStep(c) PROVE state' # "accepting"
  BY <1>5 DEF CloseStep, CloseWork, CloseStart, CloseNothing, CloseJoin, CloseJoined, CloseSwap,
     CollectScopes, CloseVisit, CloseAwait, CloseFinish, lifeVars
<1>6. CASE UNCHANGED vars
  BY <1>6 DEF vars, lifeVars
<1> QED BY <1>1, <1>2, <1>3, <1>4, <1>5, <1>6 DEF Next
-----------------------------------------------------------------------------
\* Only its own steps move a call.
LEMMA OtherCalls ==
  ASSUME TypeOK, [Next]_vars, NEW c \in Caller
  PROVE  \/ c \in Drainer /\ DrainStep(c)
         \/ c \in Settler /\ SettleStep(c)
         \/ c \in Closer /\ CloseStep(c)
         \/ /\ callPc'[c] = callPc[c] /\ sweep'[c] = sweep[c]
            /\ c \in Closer => awaiting'[c] = awaiting[c]
<1> DEFINE Still == /\ callPc'[c] = callPc[c] /\ sweep'[c] = sweep[c]
                    /\ c \in Closer => awaiting'[c] = awaiting[c]
<1>1. ASSUME NEW d \in Request, OwnerStep(d) \/ EndStart(d) \/ EndBody(d) \/ ResourceClosed(d)
      PROVE  Still
  BY <1>1 DEF OwnerStep, EndBody, BeginReject, BeginLock, BeginCommit, PendingEnd, InstallReject,
     InstallLock, InstallCommit, BindReject, BindLock, BindCommit, EndStart, EndClose, EndAwait,
     EndMark, EndUnmarked, EndSink, EndDelete, ResourceClosed, callVars
<1>2. CASE SinkStep
  BY <1>2 DEF SinkStep, ReplaySink, SetReleaseSink, callVars
<1> USE DEF TypeOK
<1>3. ASSUME NEW b \in Drainer, DrainStep(b), b # c PROVE Still
  BY <1>3 DEF DrainStep, DrainWork, DrainStart, DrainRefused, CollectScopes, DrainVisit,
     DrainSwept, DrainDone, DrainWait, WaitTimeout, GotoCall
<1>4. ASSUME NEW b \in Settler, SettleStep(b), b # c PROVE Still
  BY <1>4 DEF SettleStep, SettleWork, SettleStart, SettleDone, SettleWait, WaitTimeout, GotoCall
<1>5. ASSUME NEW b \in Closer, CloseStep(b), b # c PROVE Still
  BY <1>5 DEF CloseStep, CloseWork, CloseStart, CloseNothing, CloseJoin, CloseJoined, CloseSwap,
     CollectScopes, CloseVisit, CloseAwait, CloseFinish, GotoCall
<1>6. CASE UNCHANGED vars
  BY <1>6 DEF vars, callVars
<1> QED BY <1>1, <1>2, <1>3, <1>4, <1>5, <1>6 DEF Next

\* A call of Drain keeps what it has achieved, whatever the others do.
LEMMA DrainInvStep == TypeOK /\ MapInv /\ DrainInv /\ [Next]_vars => DrainInv'
<1> SUFFICES ASSUME TypeOK, MapInv, DrainInv, [Next]_vars, NEW c \in Drainer
             PROVE  DrainOK(c)'
  BY DEF DrainInv
<1>0. DrainOK(c) /\ c \in Caller /\ c \notin Settler /\ c \notin Closer
  BY ConstantsAssumption DEF DrainInv, Caller, Waiter
<1>1. Halted => OnlyShrinks
  BY HaltedStep
<1>2. state # "accepting" => state' # "accepting"
  BY StateStep
<1>3. CASE callPc'[c] = callPc[c] /\ sweep'[c] = sweep[c]
  BY <1>0, <1>1, <1>2, <1>3 DEF DrainOK, OnlyShrinks
<1>4. CASE DrainStep(c)
  <2> USE DEF TypeOK
  <2>1. CASE DrainStart(c) \/ DrainRefused(c)
    BY <1>0, <2>1 DEF DrainOK, DrainStart, DrainRefused, GotoCall
  <2>2. CASE CollectScopes(c)
    <3>1. Halted' /\ callPc'[c] = "sweep" /\ sweep'[c] = scopes /\ resource' = resource
      BY <1>0, <2>2 DEF DrainOK, CollectScopes, GotoCall, Halted, MuFree, lifeVars, dispVars
    <3>2. \A d \in Request : resource[d] = "bound" => d \in scopes
      BY DEF MapInv, MapOK
    <3> QED BY <3>1, <3>2 DEF DrainOK
  <2>3. ASSUME NEW e \in Request, DrainVisit(c, e) PROVE DrainOK(c)'
    <3>1. Halted /\ callPc'[c] = "sweep" /\ sweep'[c] = sweep[c] \ {e}
      BY <1>0, <2>3 DEF DrainOK, DrainVisit
    <3>2. resource'[e] # "bound"
      BY <2>3 DEF DrainVisit, StartClose
    <3>3. \A d \in Request : resource'[d] = "bound" => d \in sweep[c] \ {e}
      BY <1>0, <1>1, <2>3, <3>1, <3>2 DEF DrainOK, OnlyShrinks, DrainVisit
    <3> QED BY <1>1, <3>1, <3>3 DEF DrainOK, OnlyShrinks
  <2>4. CASE DrainSwept(c) \/ DrainWait(c) \/ WaitTimeout(c)
    BY <1>0, <1>1, <2>4 DEF DrainOK, OnlyShrinks, DrainSwept, DrainWait, WaitTimeout, Awake,
       GotoCall
  <2>5. CASE DrainDone(c)
    BY <1>0, <1>1, <2>5 DEF DrainOK, OnlyShrinks, DrainDone, Awake, GotoCall
  <2> QED BY <1>4, <2>1, <2>2, <2>3, <2>4, <2>5 DEF DrainStep, DrainWork
<1> QED BY <1>0, <1>3, <1>4, OtherCalls

\* What a call of Drain has achieved implies its two promises.
LEMMA DrainPromises == MapInv /\ DrainInv => DrainCancelsAll /\ DrainedStaysEmpty
<1> SUFFICES ASSUME MapInv, DrainInv
             PROVE  DrainCancelsAll /\ DrainedStaysEmpty
  OBVIOUS
<1>1. \A d \in Request : Open(d) => d \in scopes
  BY DEF MapInv, MapOK, Open
<1> QED BY <1>1 DEF DrainInv, DrainOK, DrainCancelsAll, DrainedStaysEmpty

LEMMA DrainInvHolds == Spec => [](MapInv /\ DrainInv)
<1>1. Init => MapInv /\ DrainInv
  BY DEF Init, MapInv, MapOK, DrainInv, DrainOK, Caller, Waiter
<1> QED BY TypeCorrect, MapInvStep, DrainInvStep, <1>1, PTL DEF Spec

\* When Drain has visited the scopes it copied, nothing is left uncancelled
\* (DrainCancelsAll), for any number of dispatches and of overlapping calls.
THEOREM DrainCancels == Spec => []DrainCancelsAll
BY DrainInvHolds, DrainPromises, PTL

\* When Drain has returned nil the registry is empty for good (DrainedStaysEmpty), for
\* any number of dispatches and of overlapping calls.
THEOREM DrainSound == Spec => []DrainedStaysEmpty
BY DrainInvHolds, DrainPromises, PTL

-----------------------------------------------------------------------------
\* closePhase never returns to "open", and a closed registry with closePhase "open"
\* was closed by a Drain that found it empty.
LEMMA ClosedByDrainStep ==
  ASSUME TypeOK, [Next]_vars, \A c \in Closer : CloseOK(c), ClosedByDrain
  PROVE  ClosedByDrain'
<1>1. CASE state = "closed" /\ closePhase = "open"
  BY <1>1, HaltedStep DEF ClosedByDrain, OnlyShrinks
<1>2. CASE ~(state = "closed" /\ closePhase = "open")
  <2>1. ASSUME NEW d \in Request, OwnerStep(d) \/ EndStart(d) \/ EndBody(d) \/ ResourceClosed(d)
        PROVE  state' = state /\ closePhase' = closePhase
    BY <2>1 DEF OwnerStep, EndBody, BeginReject, BeginLock, BeginCommit, PendingEnd,
       InstallReject, InstallLock, InstallCommit, BindReject, BindLock, BindCommit, EndStart,
       EndClose, EndAwait, EndMark, EndUnmarked, EndSink, EndDelete, ResourceClosed, callVars,
       lifeVars
  <2>2. ASSUME SinkStep PROVE state' = state /\ closePhase' = closePhase
    BY <2>2 DEF SinkStep, ReplaySink, SetReleaseSink, callVars, lifeVars
  <2>3. ASSUME NEW c \in Drainer, DrainStep(c) PROVE ClosedByDrain'
    BY <1>2, <2>3 DEF ClosedByDrain, DrainStep, DrainWork, DrainStart, DrainRefused,
       CollectScopes, DrainVisit, DrainSwept, DrainDone, DrainWait, WaitTimeout, Halted, MuFree,
       lifeVars, dispVars
  <2>4. ASSUME NEW c \in Settler, SettleStep(c) PROVE state' = state /\ closePhase' = closePhase
    BY <2>4 DEF SettleStep, SettleWork, SettleStart, SettleDone, SettleWait, WaitTimeout,
       lifeVars
  <2>5. ASSUME NEW c \in Closer, CloseStep(c) PROVE ClosedByDrain'
    BY <1>2, <2>5 DEF ClosedByDrain, CloseOK, CloseStep, CloseWork, CloseStart, CloseNothing,
       CloseJoin, CloseJoined, CloseSwap, CollectScopes, CloseVisit, CloseAwait, CloseFinish,
       lifeVars
  <2>6. ASSUME UNCHANGED vars PROVE state' = state /\ closePhase' = closePhase
    BY <2>6 DEF vars, lifeVars, callVars
  <2>7. ASSUME state' = state, closePhase' = closePhase PROVE ClosedByDrain'
    BY <1>2, <2>7 DEF ClosedByDrain
  <2> QED BY <2>1, <2>2, <2>3, <2>4, <2>5, <2>6, <2>7 DEF Next
<1> QED BY <1>1, <1>2
\* A call of Close keeps what it has achieved, whatever the others do.
LEMMA CloseOKStep ==
  ASSUME TypeOK, MapInv, CloseInv, [Next]_vars, NEW c \in Closer
  PROVE  CloseOK(c)'
<1>0. CloseOK(c) /\ c \in Caller /\ c \notin Settler /\ c \notin Drainer
  BY ConstantsAssumption DEF CloseInv, Caller, Waiter
<1>1. Halted => OnlyShrinks
  BY HaltedStep
<1>2. state # "accepting" => state' # "accepting"
  BY StateStep
<1>3. \A d \in Request : Open(d) => d \in scopes
  BY DEF MapInv, MapOK, Open
<1>4. CASE callPc'[c] = callPc[c] /\ sweep'[c] = sweep[c] /\ awaiting'[c] = awaiting[c]
  <2>1. closePhase # "open" => closePhase' # "open"
    BY DEF Next, OwnerStep, EndBody, BeginReject, BeginLock, BeginCommit, PendingEnd,
       InstallReject, InstallLock, InstallCommit, BindReject, BindLock, BindCommit, EndStart,
       EndClose, EndAwait, EndMark, EndUnmarked, EndSink, EndDelete, ResourceClosed, SinkStep,
       ReplaySink, SetReleaseSink, DrainStep, DrainWork, DrainStart, DrainRefused,
       CollectScopes, DrainVisit, DrainSwept, DrainDone, DrainWait, WaitTimeout, SettleStep,
       SettleWork, SettleStart, SettleDone, SettleWait, CloseStep, CloseWork, CloseStart,
       CloseNothing, CloseJoin, CloseJoined, CloseSwap, CloseVisit, CloseAwait, CloseFinish,
       callVars, vars
  <2> QED BY <1>0, <1>1, <1>2, <1>4, <2>1 DEF CloseOK, OnlyShrinks, NothingOpen
<1>5. CASE CloseStep(c)
  <2> USE DEF TypeOK
  <2>1. CASE CloseStart(c) \/ CloseJoin(c) \/ CloseSwap(c)
    BY <1>0, <2>1 DEF CloseOK, CloseStart, CloseJoin, CloseSwap, GotoCall
  <2>2. CASE CloseNothing(c) \/ CloseJoined(c)
    <3>1. NothingOpen
      BY <1>3, <2>2 DEF CloseInv, ClosedByDrain, NothingOpen, CloseNothing, CloseJoined
    <3> QED BY <1>0, <1>1, <2>2, <3>1 DEF CloseOK, CloseNothing, CloseJoined, GotoCall,
               OnlyShrinks, NothingOpen
  <2>3. CASE CollectScopes(c)
    <3>1. Halted /\ callPc'[c] = "sweep" /\ sweep'[c] = scopes
      BY <1>0, <2>3 DEF CloseOK, CollectScopes, GotoCall, Halted
    <3>2. awaiting'[c] = {}
      BY <1>0, <2>3 DEF CloseOK, CollectScopes
    <3> QED BY <1>1, <1>3, <3>1, <3>2 DEF CloseOK, OnlyShrinks
  <2>4. ASSUME NEW e \in Request, CloseVisit(c, e) PROVE CloseOK(c)'
    <3>1. Halted /\ sweep'[c] = sweep[c] \ {e} /\ \A d \in Request : Open(d) => d \in sweep[c]
      BY <1>0, <2>4 DEF CloseOK, CloseVisit
    <3>2. CASE MustAwait(e)
      <4>1. callPc'[c] = "await" /\ awaiting'[c] = {e}
        BY <2>4, <3>2, <1>0 DEF CloseVisit, GotoCall
      <4> QED BY <1>1, <3>1, <4>1 DEF CloseOK, OnlyShrinks
    <3>3. CASE ~MustAwait(e)
      <4>1. callPc'[c] = "sweep" /\ awaiting'[c] = {} /\ ~Open(e)
        BY <2>4, <3>3, <1>0 DEF CloseVisit, GotoCall, MustAwait, Open
      <4> QED BY <1>1, <3>1, <4>1 DEF CloseOK, OnlyShrinks
    <3> QED BY <3>2, <3>3
  <2>5. CASE CloseAwait(c)
    <3>1. Halted /\ callPc'[c] = "sweep" /\ awaiting'[c] = {} /\ sweep'[c] = sweep[c]
      BY <1>0, <2>5 DEF CloseOK, CloseAwait, GotoCall
    <3>2. \A d \in Request : Open(d) => d \in sweep[c]
      BY <1>0, <2>5 DEF CloseOK, CloseAwait, Open
    <3> QED BY <1>1, <3>1, <3>2 DEF CloseOK, OnlyShrinks
  <2>6. CASE CloseFinish(c)
    BY <1>0, <1>1, <2>6 DEF CloseOK, CloseFinish, GotoCall, OnlyShrinks, NothingOpen
  <2> QED BY <1>5, <2>1, <2>2, <2>3, <2>4, <2>5, <2>6 DEF CloseStep, CloseWork
<1> QED BY <1>0, <1>4, <1>5, OtherCalls
LEMMA CloseInvStep == TypeOK /\ MapInv /\ CloseInv /\ [Next]_vars => CloseInv'
<1> SUFFICES ASSUME TypeOK, MapInv, CloseInv, [Next]_vars
             PROVE  CloseInv'
  OBVIOUS
<1>1. \A c \in Closer : CloseOK(c)'
  BY CloseOKStep
<1>2. ClosedByDrain'
  BY ClosedByDrainStep DEF CloseInv
<1>3. closePhase' = "done" => NothingOpen'
  <2>1. CASE closePhase = "done"
    BY <2>1, HaltedStep DEF CloseInv, NothingOpen, OnlyShrinks
  <2>2. ASSUME closePhase # "done", closePhase' = "done" PROVE NothingOpen'
    <3>1. PICK c \in Closer : CloseFinish(c)
      BY <2>2 DEF Next, OwnerStep, EndBody, BeginReject, BeginLock, BeginCommit, PendingEnd,
         InstallReject, InstallLock, InstallCommit, BindReject, BindLock, BindCommit, EndStart,
         EndClose, EndAwait, EndMark, EndUnmarked, EndSink, EndDelete, ResourceClosed, SinkStep,
         ReplaySink, SetReleaseSink, DrainStep, DrainWork, DrainStart, DrainRefused,
         CollectScopes, DrainVisit, DrainSwept, DrainDone, DrainWait, WaitTimeout, SettleStep,
         SettleWork, SettleStart, SettleDone, SettleWait, CloseStep, CloseWork, CloseStart,
         CloseNothing, CloseJoin, CloseJoined, CloseSwap, CloseVisit, CloseAwait, callVars, vars
    <3>2. NothingOpen
      BY <3>1 DEF CloseInv, CloseOK, CloseFinish, NothingOpen
    <3> QED BY <3>2, HaltedStep DEF NothingOpen, OnlyShrinks
  <2> QED BY <2>1, <2>2
<1> QED BY <1>1, <1>2, <1>3 DEF CloseInv

\* When a call of Close returns, whether it did the work, joined another or came after
\* a Drain, no resource is open, for any number of dispatches and calls.
THEOREM CloseSound == Spec => []CloseClosesAll
<1>1. Init => MapInv /\ CloseInv
  BY DEF Init, MapInv, MapOK, CloseInv, CloseOK, ClosedByDrain, Caller, Waiter
<1>2. CloseInv => CloseClosesAll
  BY DEF CloseInv, CloseOK, NothingOpen, CloseClosesAll
<1> QED BY TypeCorrect, MapInvStep, CloseInvStep, <1>1, <1>2, PTL DEF Spec
-----------------------------------------------------------------------------
\* How a step changes a resource: it is bound, begins to close, or is closed.
LEMMA ResourceStep ==
  ASSUME TypeOK, MapInv, [Next]_vars, NEW e \in Request
  PROVE  \/ resource'[e] = resource[e]
         \/ resource[e] = "none" /\ resource'[e] = "bound"
         \/ resource[e] = "bound" /\ resource'[e] = "closing"
         \/ resource[e] = "closing" /\ resource'[e] = "closed"
<1> USE DEF TypeOK
<1>1. ASSUME NEW d \in Request, OwnerStep(d), resource' # resource
      PROVE  resource[d] = "none" /\ resource' = [resource EXCEPT ![d] = "bound"]
  <2>1. BindCommit(d)
    BY <1>1 DEF OwnerStep, BeginReject, BeginLock, BeginCommit, PendingEnd, InstallReject,
       InstallLock, InstallCommit, BindReject, BindLock
  <2> QED BY <2>1 DEF BindCommit, MapInv, MapOK
<1>2. ASSUME NEW d \in Request, EndStart(d) \/ EndBody(d), resource' # resource
      PROVE  StartClose(d)
  BY <1>2 DEF EndBody, EndStart, EndClose, EndAwait, EndMark, EndUnmarked, EndSink, EndDelete
<1>3. ASSUME NEW d \in Request, ResourceClosed(d)
      PROVE  resource[d] = "closing" /\ resource' = [resource EXCEPT ![d] = "closed"]
  BY <1>3 DEF ResourceClosed
<1>4. ASSUME SinkStep PROVE resource' = resource
  BY <1>4 DEF SinkStep, ReplaySink, SetReleaseSink
<1>5. ASSUME NEW c \in Drainer, DrainStep(c), resource' # resource
      PROVE  \E d \in Request : StartClose(d)
  BY <1>5 DEF DrainStep, DrainWork, DrainStart, DrainRefused, CollectScopes, DrainVisit,
     DrainSwept, DrainDone, DrainWait, WaitTimeout
<1>6. ASSUME NEW c \in Settler, SettleStep(c) PROVE resource' = resource
  BY <1>6 DEF SettleStep, SettleWork, SettleStart, SettleDone, SettleWait, WaitTimeout
<1>7. ASSUME NEW c \in Closer, CloseStep(c), resource' # resource
      PROVE  \E d \in Request : StartClose(d)
  BY <1>7 DEF CloseStep, CloseWork, CloseStart, CloseNothing, CloseJoin, CloseJoined, CloseSwap,
     CollectScopes, CloseVisit, CloseAwait, CloseFinish
<1>8. ASSUME UNCHANGED vars PROVE resource' = resource
  BY <1>8 DEF vars
<1>9. \/ resource' = resource
      \/ \E d \in Request : StartClose(d)
      \/ \E d \in Request : resource[d] = "none" /\ resource' = [resource EXCEPT ![d] = "bound"]
      \/ \E d \in Request : resource[d] = "closing" /\ resource' = [resource EXCEPT ![d] = "closed"]
  BY <1>1, <1>2, <1>3, <1>4, <1>5, <1>6, <1>7, <1>8 DEF Next
<1> QED BY <1>9 DEF StartClose

\* closeFn runs at most once per scope and a closed resource stays closed, whoever of
\* End, Drain and Close comes first (ClosesOnce).
THEOREM ResourceClosesOnce == Spec => ClosesOnce
<1>1. Init => MapInv
  BY DEF Init, MapInv, MapOK
<1>2. TypeOK /\ MapInv /\ [Next]_vars =>
        [\A d \in Request :
           /\ resource[d] = "closed" => resource'[d] = "closed"
           /\ resource[d] = "closing" => resource'[d] # "bound"]_vars
  BY ResourceStep
<1> QED BY TypeCorrect, MapInvStep, <1>1, <1>2, PTL DEF Spec, ClosesOnce

-----------------------------------------------------------------------------
\* The dispatches whose release the sequence of g counts.
ReleasedOf(g) == {d \in Request : group[d] = g /\ Released(d)}

\* Only markReleasedLocked changes a sequence or the set it counts, and it changes
\* both by the one scope that is being ended.
LEMMA ReleasedStep ==
  ASSUME TypeOK, MapInv, [Next]_vars
  PROVE  \/ releaseSeq' = releaseSeq /\ \A g \in Group : ReleasedOf(g)' = ReleasedOf(g)
         \/ \E d \in Request : EndMark(d)
<1> DEFINE Same == releaseSeq' = releaseSeq /\ \A g \in Group : ReleasedOf(g)' = ReleasedOf(g)
<1> USE DEF TypeOK, ReleasedOf, Released
<1>1. ASSUME NEW d \in Request, OwnerStep(d) PROVE Same
  <2>1. CASE \E g \in Group \cup {Unaccounted} : InstallLock(d, g)
    <3>1. PICK g \in Group \cup {Unaccounted} : InstallLock(d, g)
      BY <2>1
    <3>2. endPc[d] = "none" /\ endPc' = endPc /\ group' = [group EXCEPT ![d] = g]
          /\ releaseSeq' = releaseSeq
      BY <3>1 DEF InstallLock, MapInv, MapOK, relVars
    <3> QED BY <3>2
  <2>2. CASE ~\E g \in Group \cup {Unaccounted} : InstallLock(d, g)
    <3>1. UNCHANGED <<group, endPc, releaseSeq>>
      BY <1>1, <2>2 DEF OwnerStep, BeginReject, BeginLock, BeginCommit, PendingEnd,
         InstallReject, InstallCommit, BindReject, BindLock, BindCommit, relVars
    <3> QED BY <3>1
  <2> QED BY <2>1, <2>2
<1>2. ASSUME NEW d \in Request, EndStart(d) \/ EndClose(d) \/ EndAwait(d) PROVE Same
  BY <1>2 DEF EndStart, EndClose, EndAwait, GotoEnd, dispVars, relVars
<1>3. ASSUME NEW d \in Request, EndUnmarked(d) PROVE Same
  BY <1>3 DEF EndUnmarked, GotoEnd, dispVars, relVars
<1>4. ASSUME NEW d \in Request, EndSink(d) \/ EndDelete(d) PROVE Same
  BY <1>4 DEF EndSink, EndDelete, GotoEnd, dispVars, relVars
<1>5. ASSUME UNCHANGED <<group, endPc, releaseSeq>> PROVE Same
  BY <1>5
<1>6. ASSUME NEW d \in Request, ResourceClosed(d) PROVE Same
  BY <1>5, <1>6 DEF ResourceClosed, dispVars, relVars
<1>7. ASSUME SinkStep PROVE Same
  BY <1>5, <1>7 DEF SinkStep, ReplaySink, SetReleaseSink, dispVars
<1>8. ASSUME NEW c \in Drainer, DrainStep(c) PROVE Same
  BY <1>5, <1>8 DEF DrainStep, DrainWork, DrainStart, DrainRefused, CollectScopes, DrainVisit,
     DrainSwept, DrainDone, DrainWait, WaitTimeout, dispVars, relVars
<1>9. ASSUME NEW c \in Settler, SettleStep(c) PROVE Same
  BY <1>5, <1>9 DEF SettleStep, SettleWork, SettleStart, SettleDone, SettleWait, WaitTimeout,
     dispVars, relVars
<1>10. ASSUME NEW c \in Closer, CloseStep(c) PROVE Same
  BY <1>5, <1>10 DEF CloseStep, CloseWork, CloseStart, CloseNothing, CloseJoin, CloseJoined,
     CloseSwap, CollectScopes, CloseVisit, CloseAwait, CloseFinish, dispVars, relVars
<1>11. ASSUME UNCHANGED vars PROVE Same
  BY <1>5, <1>11 DEF vars, dispVars, relVars
<1> QED BY <1>1, <1>2, <1>3, <1>4, <1>6, <1>7, <1>8, <1>9, <1>10, <1>11 DEF Next, EndBody

\* Each release moves the sequence of its group by one, and nothing else moves it.
LEMMA ReleaseCountStep == TypeOK /\ MapInv /\ ReleaseCount /\ [Next]_vars => ReleaseCount'
<1> SUFFICES ASSUME TypeOK, MapInv, ReleaseCount, [Next]_vars, NEW g \in Group
             PROVE  releaseSeq'[g] = Cardinality(ReleasedOf(g)')
  BY DEF ReleaseCount, ReleasedOf
<1>0. releaseSeq[g] = Cardinality(ReleasedOf(g))
  BY DEF ReleaseCount, ReleasedOf
<1>1. CASE releaseSeq' = releaseSeq /\ \A h \in Group : ReleasedOf(h)' = ReleasedOf(h)
  BY <1>0, <1>1
<1>2. ASSUME NEW d \in Request, EndMark(d) PROVE releaseSeq'[g] = Cardinality(ReleasedOf(g)')
  <2>1. CASE group[d] = g
    <3>1. ReleasedOf(g)' = ReleasedOf(g) \cup {d} /\ d \notin ReleasedOf(g)
      BY <1>2, <2>1 DEF EndMark, GotoEnd, ReleasedOf, Released, dispVars, TypeOK
    <3>2. IsFiniteSet(ReleasedOf(g))
      BY ConstantsAssumption, FS_Subset DEF ReleasedOf
    <3>3. Cardinality(ReleasedOf(g)') = Cardinality(ReleasedOf(g)) + 1
      BY <3>1, <3>2, FS_AddElement
    <3> QED BY <1>0, <1>2, <2>1, <3>3 DEF EndMark, TypeOK
  <2>2. CASE group[d] # g
    <3>1. ReleasedOf(g)' = ReleasedOf(g)
      BY <1>2, <2>2 DEF EndMark, GotoEnd, ReleasedOf, Released, dispVars, TypeOK
    <3> QED BY <1>0, <1>2, <2>2, <3>1 DEF EndMark, TypeOK
  <2> QED BY <2>1, <2>2
<1> QED BY <1>1, <1>2, ReleasedStep

\* The cumulative sequence Home is sent is exactly the number of scopes of the group
\* that have been released (ReleaseCount), for any number of dispatches.
THEOREM SequenceCountsReleases == Spec => []ReleaseCount
<1>1. Init => MapInv /\ ReleaseCount
  <2> SUFFICES ASSUME Init PROVE ReleaseCount
    BY DEF Init, MapInv, MapOK
  <2>1. \A g \in Group : {d \in Request : group[d] = g /\ Released(d)} = {}
    BY DEF Init, Released
  <2> QED BY <2>1, FS_EmptySet DEF Init, ReleaseCount
<1> QED BY TypeCorrect, MapInvStep, ReleaseCountStep, <1>1, PTL DEF Spec
-----------------------------------------------------------------------------
(***************************************************************************)
(* What the current sink knows.  The latest sequence of a group has been   *)
(* told to it, is still to be replayed to it, or is in the hands of an End *)
(* that captured this very sink together with this very sequence.          *)
(***************************************************************************)
InHand(g) ==
    \E d \in Request : /\ endPc[d] = "sink" /\ group[d] = g
                       /\ captured[d].sink = sink /\ captured[d].seq = releaseSeq[g]

SinkOK(g) ==
    sink \in Sink => \/ releaseSeq[g] = 0
                     \/ <<g, releaseSeq[g]>> \in told[sink] \cup replay
                     \/ InHand(g)

SinkInv == \A g \in Group : SinkOK(g)

LEMMA SinkInvStep == TypeOK /\ MapInv /\ SinkInv /\ [Next]_vars => SinkInv'
<1> SUFFICES ASSUME TypeOK, MapInv, SinkInv, [Next]_vars, NEW g \in Group
             PROVE  SinkOK(g)'
  BY DEF SinkInv
<1>0. SinkOK(g)
  BY DEF SinkInv
<1> USE DEF TypeOK
<1>U. ASSUME UNCHANGED relVars,
             \A d \in Request : endPc[d] = "sink" => endPc'[d] = "sink" /\ group'[d] = group[d]
      PROVE  SinkOK(g)'
  BY <1>0, <1>U DEF SinkOK, InHand, relVars
<1>1. ASSUME NEW d \in Request, OwnerStep(d) PROVE SinkOK(g)'
  <2>1. endPc' = endPc /\ UNCHANGED relVars
    BY <1>1 DEF OwnerStep, BeginReject, BeginLock, BeginCommit, PendingEnd, InstallReject,
       InstallLock, InstallCommit, BindReject, BindLock, BindCommit
  <2>2. ASSUME NEW e \in Request, group'[e] # group[e] PROVE e = d /\ pc[d] = "pending"
    BY <1>1, <2>2 DEF OwnerStep, BeginReject, BeginLock, BeginCommit, PendingEnd, InstallReject,
       InstallLock, InstallCommit, BindReject, BindLock, BindCommit
  <2>3. pc[d] = "pending" => endPc[d] = "none"
    BY DEF MapInv, MapOK
  <2> QED BY <1>U, <2>1, <2>2, <2>3
<1>2. ASSUME NEW d \in Request, EndMark(d) PROVE SinkOK(g)'
  <2>1. CASE group[d] = g
    <3>1. /\ endPc'[d] = "sink" /\ group'[d] = g /\ sink' = sink
          /\ captured'[d] = [sink |-> sink, seq |-> releaseSeq'[g]]
      BY <1>2, <2>1 DEF EndMark, GotoEnd, dispVars
    <3> QED BY <3>1 DEF SinkOK, InHand
  <2>2. CASE group[d] # g
    <3>1. /\ releaseSeq'[g] = releaseSeq[g] /\ UNCHANGED <<sink, told, replay, group>>
          /\ \A e \in Request : e # d => endPc'[e] = endPc[e] /\ captured'[e] = captured[e]
      BY <1>2, <2>2 DEF EndMark, GotoEnd, dispVars
    <3> QED BY <1>0, <2>2, <3>1 DEF SinkOK, InHand
  <2> QED BY <2>1, <2>2
<1>3. ASSUME NEW d \in Request, EndSink(d) PROVE SinkOK(g)'
  <2>1. /\ UNCHANGED <<releaseSeq, sink, captured, replay, group>>
        /\ \A e \in Request : e # d => endPc'[e] = endPc[e]
        /\ \A k \in Sink : told[k] \subseteq told'[k]
        /\ captured[d].sink \in Sink => <<group[d], captured[d].seq>> \in told'[captured[d].sink]
    BY <1>3 DEF EndSink, GotoEnd, dispVars
  <2>2. CASE sink \in Sink /\ group[d] = g /\ captured[d].sink = sink
             /\ captured[d].seq = releaseSeq[g]
    <3>1. <<g, releaseSeq[g]>> \in told'[sink]
      BY <2>1, <2>2
    <3> QED BY <2>1, <3>1 DEF SinkOK
  <2>3. CASE ~(sink \in Sink /\ group[d] = g /\ captured[d].sink = sink
               /\ captured[d].seq = releaseSeq[g])
    BY <1>0, <2>1, <2>3 DEF SinkOK, InHand
  <2> QED BY <2>2, <2>3
<1>4. ASSUME NEW d \in Request, EndStart(d) \/ EndClose(d) \/ EndAwait(d) \/ EndUnmarked(d)
                                \/ EndDelete(d) \/ ResourceClosed(d)
      PROVE  SinkOK(g)'
  <2>1. UNCHANGED relVars /\ UNCHANGED group
    BY <1>4 DEF EndStart, EndClose, EndAwait, EndUnmarked, EndDelete, ResourceClosed, dispVars
  <2>2. \A e \in Request : endPc[e] = "sink" => endPc'[e] = "sink"
    BY <1>4 DEF EndStart, EndClose, EndAwait, EndUnmarked, EndDelete, ResourceClosed, GotoEnd
  <2> QED BY <1>U, <2>1, <2>2
<1>5. ASSUME NEW k \in Sink \cup {NoSink}, SetReleaseSink(k) PROVE SinkOK(g)'
  <2>1. sink' = k /\ releaseSeq' = releaseSeq
    BY <1>5 DEF SetReleaseSink
  <2>2. k \in Sink => replay' = KnownSequences
    BY <1>5, ConstantsAssumption DEF SetReleaseSink
  <2>3. releaseSeq[g] # 0 => <<g, releaseSeq[g]>> \in KnownSequences
    BY DEF KnownSequences
  <2> QED BY <2>1, <2>2, <2>3 DEF SinkOK
<1>6. CASE ReplaySink
  <2>1. PICK p \in replay : told' = [told EXCEPT ![sink] = @ \cup {p}] /\ replay' = replay \ {p}
    BY <1>6 DEF ReplaySink
  <2>2. UNCHANGED <<releaseSeq, sink, captured, group, endPc>> /\ sink \in Sink
    BY <1>6 DEF ReplaySink, dispVars
  <2>3. told[sink] \cup replay = told'[sink] \cup replay'
    BY <2>1, <2>2
  <2> QED BY <1>0, <2>2, <2>3 DEF SinkOK, InHand
<1>7. ASSUME NEW c \in Drainer, DrainStep(c) PROVE SinkOK(g)'
  BY <1>U, <1>7 DEF DrainStep, DrainWork, DrainStart, DrainRefused, CollectScopes, DrainVisit,
     DrainSwept, DrainDone, DrainWait, WaitTimeout, dispVars
<1>8. ASSUME NEW c \in Settler, SettleStep(c) PROVE SinkOK(g)'
  BY <1>U, <1>8 DEF SettleStep, SettleWork, SettleStart, SettleDone, SettleWait, WaitTimeout,
     dispVars
<1>9. ASSUME NEW c \in Closer, CloseStep(c) PROVE SinkOK(g)'
  BY <1>U, <1>9 DEF CloseStep, CloseWork, CloseStart, CloseNothing, CloseJoin, CloseJoined,
     CloseSwap, CollectScopes, CloseVisit, CloseAwait, CloseFinish, dispVars
<1>10. CASE UNCHANGED vars
  BY <1>U, <1>10 DEF vars, dispVars
<1> QED BY <1>1, <1>2, <1>3, <1>4, <1>5, <1>6, <1>7, <1>8, <1>9, <1>10
        DEF Next, EndBody, SinkStep

\* However often the sink is replaced while scopes end, the current one learns the
\* latest sequence of every group (SinkKnowsLatest), for any number of scopes, groups and sinks.
THEOREM SinkLearnsLatest == Spec => []SinkKnowsLatest
<1>1. Init => MapInv /\ SinkInv
  BY ConstantsAssumption DEF Init, MapInv, MapOK, SinkInv, SinkOK
<1>2. TypeOK /\ SinkInv => SinkKnowsLatest
  BY DEF TypeOK, SinkInv, SinkOK, InHand, SinkKnowsLatest
<1> QED BY TypeCorrect, MapInvStep, SinkInvStep, <1>1, <1>2, PTL DEF Spec

-----------------------------------------------------------------------------
(***************************************************************************)
(* RegistryObservation: a snapshot covers the barrier it carries.  The     *)
(* argument goes through the ids: whatever was begun before the barrier    *)
(* has an id not above pendingBarrierSequence, ids are given in increasing *)
(* order, and the barrier is published only when no pending id is that     *)
(* small.                                                                  *)
(***************************************************************************)
\* Ids are given once, by BeginDispatch, in increasing order.
IdInv ==
    \A d \in Request : id[d] <= next /\ (id[d] # 0 => pc[d] \notin {"new", "beginning"})

\* A dispatch counted as begun before some barrier has an id below the mark, and the
\* published barrier is held by none that is still pending.
BarrierInv ==
    /\ publishedBarrier <= observedBarrier
    /\ freeze.barrier <= publishedBarrier
    /\ \A b \in 0..MaxBarrier : \A d \in begunBefore[b] :
         id[d] # 0 /\ id[d] <= pendingBarrierSequence
    /\ \A d \in begunBefore[publishedBarrier] : d \notin pending

\* The registry's part of a step: ids stay, except that BeginCommit gives the next one
\* to a dispatch that has none; only then does pending grow; what is over stays over.
LEMMA RegistryStep ==
  ASSUME TypeOK, IdInv, [Next]_vars
  PROVE  /\ \/ id' = id /\ next' = next /\ pending' \subseteq pending
            \/ \E d \in Request : BeginCommit(d)
         /\ \A d \in Request : Over(d) => Over(d)'
         /\ \A d \in Request :
               pc[d] \notin {"new", "beginning"} => pc'[d] \notin {"new", "beginning"}
<1> DEFINE Fixed == id' = id /\ next' = next /\ pending' \subseteq pending
           Onward == \A e \in Request :
                       /\ Over(e) => Over(e)'
                       /\ pc[e] \notin {"new", "beginning"} => pc'[e] \notin {"new", "beginning"}
<1> USE DEF TypeOK, Over
<1>U. ASSUME UNCHANGED <<id, next, pending, pc, endPc>> PROVE Fixed /\ Onward
  BY <1>U
<1>1. ASSUME NEW d \in Request, OwnerStep(d) PROVE (Fixed \/ BeginCommit(d)) /\ Onward
  <2>1. CASE BeginReject(d) \/ BeginLock(d)
    BY <2>1 DEF BeginReject, BeginLock, Goto, lifeVars
  <2>2. CASE BeginCommit(d)
    BY <2>2 DEF BeginCommit, Goto
  <2>3. CASE PendingEnd(d) \/ InstallReject(d)
    BY <2>3 DEF PendingEnd, InstallReject, Goto
  <2>4. CASE InstallCommit(d) \/ \E g \in Group \cup {Unaccounted} : InstallLock(d, g)
    BY <2>4 DEF InstallCommit, InstallLock, Goto, lifeVars
  <2>5. CASE BindReject(d) \/ BindLock(d) \/ BindCommit(d)
    BY <2>5 DEF BindReject, BindLock, BindCommit, Goto, lifeVars
  <2> QED BY <1>1, <2>1, <2>2, <2>3, <2>4, <2>5 DEF OwnerStep
<1>2. ASSUME NEW d \in Request, EndStart(d) \/ EndBody(d) PROVE Fixed /\ Onward
  <2>1. CASE EndStart(d) \/ EndClose(d) \/ EndAwait(d)
    BY <2>1 DEF EndStart, EndClose, EndAwait, GotoEnd, lifeVars, dispVars
  <2>2. CASE EndMark(d) \/ EndUnmarked(d) \/ EndSink(d)
    BY <2>2 DEF EndMark, EndUnmarked, EndSink, GotoEnd, lifeVars, dispVars
  <2>3. CASE EndDelete(d)
    BY <2>3 DEF EndDelete, GotoEnd, dispVars
  <2> QED BY <1>2, <2>1, <2>2, <2>3 DEF EndBody
<1>3. ASSUME NEW d \in Request, ResourceClosed(d) PROVE Fixed /\ Onward
  BY <1>U, <1>3 DEF ResourceClosed, lifeVars, dispVars
<1>4. ASSUME SinkStep PROVE Fixed /\ Onward
  BY <1>U, <1>4 DEF SinkStep, ReplaySink, SetReleaseSink, lifeVars, dispVars
<1>5. ASSUME NEW c \in Drainer, DrainStep(c) PROVE Fixed /\ Onward
  BY <1>U, <1>5 DEF DrainStep, DrainWork, DrainStart, DrainRefused, CollectScopes, DrainVisit,
     DrainSwept, DrainDone, DrainWait, WaitTimeout, lifeVars, dispVars
<1>6. ASSUME NEW c \in Settler, SettleStep(c) PROVE Fixed /\ Onward
  BY <1>U, <1>6 DEF SettleStep, SettleWork, SettleStart, SettleDone, SettleWait, WaitTimeout,
     lifeVars, dispVars
<1>7. ASSUME NEW c \in Closer, CloseStep(c) PROVE Fixed /\ Onward
  BY <1>U, <1>7 DEF CloseStep, CloseWork, CloseStart, CloseNothing, CloseJoin, CloseJoined,
     CloseSwap, CollectScopes, CloseVisit, CloseAwait, CloseFinish, lifeVars, dispVars
<1>8. ASSUME UNCHANGED vars PROVE Fixed /\ Onward
  BY <1>U, <1>8 DEF vars, lifeVars, dispVars
<1> QED BY <1>1, <1>2, <1>3, <1>4, <1>5, <1>6, <1>7, <1>8 DEF Next

LEMMA IdInvStep == TypeOK /\ IdInv /\ [Next]_vars => IdInv'
<1> SUFFICES ASSUME TypeOK, IdInv, [Next]_vars PROVE IdInv'
  OBVIOUS
<1>1. CASE id' = id /\ next' = next
  BY <1>1, RegistryStep DEF IdInv
<1>2. ASSUME NEW d \in Request, BeginCommit(d) PROVE IdInv'
  BY <1>2 DEF IdInv, BeginCommit, Goto, TypeOK
<1> QED BY <1>1, <1>2, RegistryStep

\* Every begun dispatch is pending, in a scope, or over.
LEMMA BegunSomewhere ==
  ASSUME TypeOK, MapInv, IdInv, MuFree, NEW d \in Request, id[d] # 0, d \notin pending
  PROVE  d \in scopes \/ Over(d)
BY DEF TypeOK, MapInv, MapOK, IdInv, MuFree, Over

ObsInv == TypeOK /\ MapInv /\ IdInv /\ ObsTypeOK /\ BarrierInv /\ SnapshotCoversBarrier

\* Every snapshot lists, of the dispatches begun before the barrier it carries, all
\* that are not over (SnapshotCoversBarrier), for any number of dispatches.
THEOREM SnapshotSound == ObsSpec => []SnapshotCoversBarrier
<1>1. ObsInit => ObsInv
  <2> SUFFICES ASSUME ObsInit PROVE ObsInv
    OBVIOUS
  <2>1. TypeOK /\ MapInv /\ IdInv
    BY DEF ObsInit, Init, TypeOK, MapInv, MapOK, IdInv, Caller, Waiter
  <2>2. ObsTypeOK /\ BarrierInv /\ SnapshotCoversBarrier
    BY ObservationAssumption DEF ObsInit, ObsTypeOK, BarrierInv, SnapshotCoversBarrier
  <2> QED BY <2>1, <2>2 DEF ObsInv
<1>2. ObsInv /\ [ObsNext]_<<vars, obsVars>> => ObsInv'
  <2> SUFFICES ASSUME ObsInv, [ObsNext]_<<vars, obsVars>> PROVE ObsInv'
    OBVIOUS
  <2> USE DEF ObsInv
  <2>1. [Next]_vars
    BY DEF ObsNext, ObserveBarrier, FreezeInFlight
  <2>2. TypeOK' /\ MapInv' /\ IdInv'
    BY <2>1, TypeStep, MapInvStep, IdInvStep
  <2>3. CASE UNCHANGED obsVars
    <3>1. ObsTypeOK'
      BY <2>3 DEF ObsTypeOK, obsVars
    <3>2. BarrierInv'
      <4>1. CASE id' = id /\ next' = next /\ pending' \subseteq pending
        BY <2>3, <4>1 DEF BarrierInv, obsVars
      <4>2. ASSUME NEW d \in Request, BeginCommit(d) PROVE BarrierInv'
        <5>1. id[d] = 0 /\ id' = [id EXCEPT ![d] = next + 1] /\ pending' = pending \cup {d}
          BY <4>2 DEF BeginCommit, IdInv
        <5>2. \A b \in 0..MaxBarrier : d \notin begunBefore[b]
          BY <5>1 DEF BarrierInv
        <5> QED BY <2>3, <5>1, <5>2 DEF BarrierInv, ObsTypeOK, obsVars, TypeOK
      <4> QED BY <2>1, <4>1, <4>2, RegistryStep
    <3>3. SnapshotCoversBarrier'
      BY <2>1, <2>3, RegistryStep DEF SnapshotCoversBarrier, obsVars, ObsTypeOK
    <3> QED BY <2>2, <3>1, <3>2, <3>3
  <2>4. ASSUME NEW b \in 1..MaxBarrier, ObserveBarrier(b) PROVE ObsInv'
    <3>1. ObsTypeOK'
      BY <2>4 DEF ObserveBarrier, ObsTypeOK, TypeOK
    <3>2. freeze.barrier # b /\ publishedBarrier # b
      BY <2>4 DEF ObserveBarrier, BarrierInv, ObsTypeOK
    <3>3. \A d \in Request : id[d] <= pendingBarrierSequence => id[d] <= next
      BY DEF IdInv
    <3>4. UNCHANGED <<id, pending, pc, endPc>>
      BY <2>4 DEF ObserveBarrier, vars, lifeVars, dispVars
    <3>5. BarrierInv'
      BY <2>4, <3>2, <3>3, <3>4 DEF ObserveBarrier, BarrierInv, ObsTypeOK, Begun, IdInv
    <3>6. SnapshotCoversBarrier'
      BY <2>4, <3>2, <3>4 DEF ObserveBarrier, SnapshotCoversBarrier, ObsTypeOK, Over
    <3> QED BY <2>2, <3>1, <3>5, <3>6
  <2>5. CASE FreezeInFlight
    <3>1. UNCHANGED <<id, pending, pc, endPc, begunBefore, pendingBarrierSequence, observedBarrier>>
      BY <2>5 DEF FreezeInFlight, vars, lifeVars, dispVars
    <3>2. NextPublished \in 0..MaxBarrier /\ NextPublished <= observedBarrier
      BY DEF NextPublished, ObsTypeOK, BarrierInv
    <3>3. \A d \in begunBefore[NextPublished] : d \in Request /\ id[d] # 0 /\ d \notin pending
      BY <3>2 DEF NextPublished, BarrierBlocked, BarrierInv, ObsTypeOK
    <3>4. ObsTypeOK'
      BY <2>5, <3>2 DEF FreezeInFlight, ObsTypeOK, TypeOK
    <3>5. BarrierInv'
      BY <2>5, <3>1, <3>2, <3>3 DEF FreezeInFlight, BarrierInv, ObsTypeOK
    <3>6. \A d \in begunBefore[NextPublished] : d \in scopes \/ Over(d)
      BY <2>5, <3>3, BegunSomewhere DEF FreezeInFlight
    <3>7. SnapshotCoversBarrier'
      BY <2>5, <3>1, <3>6 DEF FreezeInFlight, SnapshotCoversBarrier, Over
    <3> QED BY <2>2, <3>4, <3>5, <3>7
  <2> QED BY <2>3, <2>4, <2>5 DEF ObsNext
<1>3. ObsInv => SnapshotCoversBarrier
  BY DEF ObsInv
<1> QED BY <1>1, <1>2, <1>3, PTL DEF ObsSpec

-----------------------------------------------------------------------------
(***************************************************************************)
(* The flusher, module ReleaseFlusher, for any set of groups, any          *)
(* sequences, any number of lifetimes and of Flush calls.                  *)
(***************************************************************************)
\* The variables the sequences live in.
seqVars == <<latest, acked, dirty, waiters, tickets, flushPc, flushGoal>>

\* A step of the flusher, marking included, whoever marks and however often.
FlusherStep == Internal \/ \E g \in Group, n \in 1..MaxSeq : MarkDirty(g, n)

\* Every step keeps the types.
LEMMA SeqTypeStep == SeqTypeOK /\ [FlusherStep]_flusherVars => SeqTypeOK'
<1> SUFFICES ASSUME SeqTypeOK, [FlusherStep]_flusherVars PROVE SeqTypeOK'
  OBVIOUS
<1> USE FlusherAssumption DEF SeqTypeOK
<1>U. ASSUME UNCHANGED <<seqVars, homeSeq>> PROVE SeqTypeOK'
  BY <1>U DEF seqVars
<1>1. ASSUME NEW g \in Group, NEW n \in 1..MaxSeq, MarkDirty(g, n) PROVE SeqTypeOK'
  BY <1>1 DEF MarkDirty, Larger, flushVars
<1>2. CASE signal \/ StartLifetime \/ CancelLifetime
  BY <1>U, <1>2 DEF signal, StartLifetime, CancelLifetime, markVars, flushVars, seqVars
<1>3. CASE RunReturn \/ RunWake \/ FlushSent \/ RunRearm \/ RunForce \/ RunTimer
  BY <1>U, <1>3 DEF RunReturn, RunWake, FlushSent, RunRearm, RunForce, RunTimer, markVars,
     flushVars, seqVars
<1>4. ASSUME NEW g \in Group, NEW n \in 1..MaxSeq, SendOk(g, n) PROVE SeqTypeOK'
  BY <1>4 DEF SendOk, HomeReceives, Larger, flushVars
<1>5. ASSUME NEW g \in Group, NEW n \in 1..MaxSeq, SendFail(g, n) PROVE SeqTypeOK'
  BY <1>5 DEF SendFail, HomeReceives, Larger, flushVars, markVars
<1>6. ASSUME NEW c \in FlushCall, FlushStep(c) PROVE SeqTypeOK'
  BY <1>6 DEF FlushStep, FlushStart, FlushDone, FlushTimeout, markVars
<1>7. CASE UNCHANGED flusherVars
  BY <1>U, <1>7 DEF flusherVars, markVars, flushVars, seqVars
<1> QED BY <1>1, <1>2, <1>3, <1>4, <1>5, <1>6, <1>7
        DEF FlusherStep, Internal, RunStep, SomeSend

(***************************************************************************)
(* The inductive invariant: what is acknowledged was received, what is not *)
(* acknowledged is dirty, and a ticket leaves waiters only when it is      *)
(* acknowledged.                                                           *)
(***************************************************************************)
AckInv ==
    /\ \A g \in Group : acked[g] <= homeSeq[g]
    /\ \A g \in Group : dirty[g] <= latest[g]
    /\ NothingForgotten
    /\ \A w \in tickets \ waiters : w[2] <= acked[w[1]]
    /\ \A c \in FlushCall : \A g \in Group :
         /\ flushPc[c] = "poll" => flushGoal[c][g] <= latest[g]
         /\ flushPc[c] = "ok" => flushGoal[c][g] <= acked[g]

LEMMA AckInvStep == SeqTypeOK /\ AckInv /\ [FlusherStep]_flusherVars => AckInv'
<1> SUFFICES ASSUME SeqTypeOK, AckInv, [FlusherStep]_flusherVars PROVE AckInv'
  OBVIOUS
<1> USE FlusherAssumption DEF SeqTypeOK, AckInv, NothingForgotten
<1>U. ASSUME UNCHANGED seqVars,
             \A g \in Group : homeSeq'[g] >= homeSeq[g]
      PROVE  AckInv'
  <2>1. SeqTypeOK'
    BY SeqTypeStep
  <2> QED BY <1>U, <2>1 DEF seqVars
<1>1. ASSUME NEW g \in Group, NEW n \in 1..MaxSeq, MarkDirty(g, n) PROVE AckInv'
  <2>1. CASE n <= acked[g]
    BY <1>1, <2>1 DEF MarkDirty, loopVars, flushVars
  <2>2. CASE n > acked[g]
    <3>1. acked' = acked /\ homeSeq' = homeSeq /\ flushPc' = flushPc /\ flushGoal' = flushGoal
          /\ tickets' = tickets \cup {<<g, n>>} /\ waiters' = waiters \cup {<<g, n>>}
      BY <1>1, <2>2 DEF MarkDirty, flushVars
    <3>2. \A h \in Group : h # g => latest'[h] = latest[h] /\ dirty'[h] = dirty[h]
      BY <1>1, <2>2 DEF MarkDirty
    <3>3. latest'[g] = Larger(latest[g], n) /\ dirty'[g] = Larger(dirty[g], n)
      BY <1>1, <2>2 DEF MarkDirty
    <3>4. \A h \in Group : /\ dirty'[h] <= latest'[h]
                           /\ latest'[h] > acked[h] => dirty'[h] = latest'[h]
      BY <2>2, <3>2, <3>3 DEF Larger
    <3>5. \A h \in Group : latest'[h] >= latest[h] /\ latest'[h] \in Nat
      BY <3>2, <3>3 DEF Larger
    <3>6. \A c \in FlushCall : \A h \in Group : flushGoal[c][h] \in Nat
      OBVIOUS
    <3> QED BY <3>1, <3>4, <3>5, <3>6
  <2> QED BY <2>1, <2>2
<1>2. CASE signal
  BY <1>U, <1>2 DEF signal, markVars, flushVars, seqVars
<1>3. CASE StartLifetime \/ CancelLifetime
  BY <1>U, <1>3 DEF StartLifetime, CancelLifetime, markVars, flushVars, seqVars
<1>4. CASE RunReturn \/ RunWake \/ FlushSent \/ RunRearm \/ RunForce \/ RunTimer
  BY <1>U, <1>4 DEF RunReturn, RunWake, FlushSent, RunRearm, RunForce, RunTimer, markVars,
     flushVars, seqVars
<1>5. ASSUME NEW g \in Group, NEW n \in 1..MaxSeq, SendOk(g, n) PROVE AckInv'
  <2>1. \A h \in Group : h # g => /\ acked'[h] = acked[h] /\ homeSeq'[h] = homeSeq[h]
                                   /\ dirty'[h] = dirty[h]
    BY <1>5 DEF SendOk, HomeReceives
  <2>2. acked'[g] = Larger(acked[g], n) /\ homeSeq'[g] = Larger(homeSeq[g], n)
        /\ dirty'[g] = (IF dirty[g] <= acked'[g] THEN 0 ELSE dirty[g])
    BY <1>5 DEF SendOk, HomeReceives
  <2>3. latest' = latest /\ tickets' = tickets /\ flushPc' = flushPc /\ flushGoal' = flushGoal
        /\ waiters' = {w \in waiters : w[1] # g \/ w[2] > acked'[g]}
    BY <1>5 DEF SendOk, flushVars
  <2>4. \A h \in Group : acked'[h] >= acked[h] /\ acked'[h] <= homeSeq'[h] /\ acked'[h] \in Nat
    BY <2>1, <2>2 DEF Larger
  <2>5. \A h \in Group : /\ dirty'[h] <= latest'[h]
                         /\ latest'[h] > acked'[h] => dirty'[h] = latest'[h]
    BY <2>1, <2>2, <2>3 DEF Larger
  <2>6. \A w \in tickets' \ waiters' : w[2] <= acked'[w[1]]
    BY <2>1, <2>3, <2>4
  <2>7. \A c \in FlushCall : \A h \in Group :
          /\ flushPc'[c] = "poll" => flushGoal'[c][h] <= latest'[h]
          /\ flushPc'[c] = "ok" => flushGoal'[c][h] <= acked'[h]
    BY <2>3, <2>4
  <2> QED BY <2>4, <2>5, <2>6, <2>7
<1>6. ASSUME NEW g \in Group, NEW n \in 1..MaxSeq, SendFail(g, n) PROVE AckInv'
  <2>1. \A h \in Group : homeSeq'[h] >= homeSeq[h]
    BY <1>6 DEF SendFail, HomeReceives, Larger
  <2> QED BY <1>U, <1>6, <2>1 DEF SendFail, markVars, flushVars, seqVars
<1>7. ASSUME NEW c \in FlushCall, FlushStart(c) PROVE AckInv'
  BY <1>7 DEF FlushStart, loopVars, markVars
<1>8. ASSUME NEW c \in FlushCall, FlushDone(c) PROVE AckInv'
  <2>1. \A g \in Group : latest[g] <= acked[g]
    BY <1>8 DEF FlushDone, Dirty
  <2> QED BY <1>8, <2>1 DEF FlushDone, loopVars, markVars
<1>9. ASSUME NEW c \in FlushCall, FlushTimeout(c) PROVE AckInv'
  BY <1>9 DEF FlushTimeout, loopVars, markVars
<1>10. CASE UNCHANGED flusherVars
  BY <1>U, <1>10 DEF flusherVars, markVars, flushVars, seqVars
<1> QED BY <1>1, <1>2, <1>3, <1>4, <1>5, <1>6, <1>7, <1>8, <1>9, <1>10
        DEF FlusherStep, Internal, RunStep, SomeSend, FlushStep

LEMMA AckInvHolds == FlusherSpec => [](SeqTypeOK /\ AckInv)
<1>1. FlusherInit => SeqTypeOK /\ AckInv
  BY DEF FlusherInit, SeqTypeOK, AckInv, NothingForgotten
<1>2. [FlusherNext]_flusherVars => [FlusherStep]_flusherVars
  BY DEF FlusherNext, Mark, FlusherStep
<1> QED BY <1>1, <1>2, SeqTypeStep, AckInvStep, PTL DEF FlusherSpec

\* A completed ticket means that Home has the sequence (TicketsTrue): what MarkDirty's
\* caller waits for is true when it comes.
THEOREM TicketsSound == FlusherSpec => []TicketsTrue
<1>1. SeqTypeOK /\ AckInv => TicketsTrue
  BY DEF SeqTypeOK, AckInv, TicketsTrue
<1> QED BY <1>1, AckInvHolds, PTL

\* The flusher forgets nothing (NothingForgotten): a sequence Home has not acknowledged is
\* still to be sent, through failing sends, marks during a send and new lifetimes.
THEOREM FlusherSound == FlusherSpec => []NothingForgotten
<1>1. AckInv => NothingForgotten
  BY DEF AckInv
<1> QED BY <1>1, AckInvHolds, PTL

\* A Flush that returned nil is true (FlushTrue): Home has every sequence that was marked
\* before the call.
THEOREM FlushSound == FlusherSpec => []FlushTrue
<1>1. SeqTypeOK /\ AckInv => FlushTrue
  <2> SUFFICES ASSUME SeqTypeOK, AckInv,
                      NEW c \in FlushCall, NEW g \in Group, flushPc[c] = "ok"
               PROVE  flushGoal[c][g] <= homeSeq[g]
    BY DEF FlushTrue
  <2>1. flushGoal[c][g] <= acked[g] /\ acked[g] <= homeSeq[g]
    BY DEF AckInv
  <2>2. flushGoal[c][g] \in Nat /\ acked[g] \in Nat /\ homeSeq[g] \in Nat
    BY DEF SeqTypeOK
  <2> QED BY <2>1, <2>2
<1> QED BY <1>1, AckInvHolds, PTL
-----------------------------------------------------------------------------
(***************************************************************************)
(* What the users of the flusher need besides: nothing is sent that was    *)
(* not marked, and every ticket is covered by the latest sequence or by an *)
(* acknowledgement.                                                        *)
(***************************************************************************)
BoundInv ==
    /\ batch \subseteq Group \X Nat
    /\ \A p \in batch : p[2] <= latest[p[1]]
    /\ \A g \in Group : homeSeq[g] <= latest[g]
    /\ \A w \in tickets : w[2] <= latest[w[1]] \/ w[2] <= acked[w[1]]

\* Sequences only grow: what is known, what is acknowledged and what Home has.
LEMMA SeqGrows ==
  ASSUME SeqTypeOK, [FlusherStep]_flusherVars, NEW g \in Group
  PROVE  latest[g] <= latest'[g] /\ acked[g] <= acked'[g] /\ homeSeq[g] <= homeSeq'[g]
<1> USE FlusherAssumption DEF SeqTypeOK
<1>U. ASSUME UNCHANGED <<latest, acked, homeSeq>>
      PROVE  latest[g] <= latest'[g] /\ acked[g] <= acked'[g] /\ homeSeq[g] <= homeSeq'[g]
  BY <1>U
<1>1. ASSUME NEW h \in Group, NEW n \in 1..MaxSeq, MarkDirty(h, n)
      PROVE  latest[g] <= latest'[g] /\ acked[g] <= acked'[g] /\ homeSeq[g] <= homeSeq'[g]
  BY <1>1 DEF MarkDirty, Larger
<1>2. ASSUME NEW h \in Group, NEW n \in 1..MaxSeq, SendOk(h, n) \/ SendFail(h, n)
      PROVE  latest[g] <= latest'[g] /\ acked[g] <= acked'[g] /\ homeSeq[g] <= homeSeq'[g]
  BY <1>2 DEF SendOk, SendFail, HomeReceives, Larger, markVars
<1>3. CASE signal \/ StartLifetime \/ CancelLifetime
  BY <1>U, <1>3 DEF signal, StartLifetime, CancelLifetime, markVars
<1>4. CASE RunReturn \/ RunWake \/ FlushSent \/ RunRearm \/ RunForce \/ RunTimer
  BY <1>U, <1>4 DEF RunReturn, RunWake, FlushSent, RunRearm, RunForce, RunTimer, markVars
<1>5. ASSUME NEW c \in FlushCall, FlushStep(c)
      PROVE  latest[g] <= latest'[g] /\ acked[g] <= acked'[g] /\ homeSeq[g] <= homeSeq'[g]
  BY <1>U, <1>5 DEF FlushStep, FlushStart, FlushDone, FlushTimeout, markVars
<1>6. CASE UNCHANGED flusherVars
  BY <1>U, <1>6 DEF flusherVars, markVars
<1> QED BY <1>1, <1>2, <1>3, <1>4, <1>5, <1>6 DEF FlusherStep, Internal, RunStep, SomeSend

LEMMA BoundInvInit == FlusherInit => SeqTypeOK /\ AckInv /\ BoundInv
  BY DEF FlusherInit, SeqTypeOK, AckInv, NothingForgotten, BoundInv

LEMMA BoundInvStep == SeqTypeOK /\ AckInv /\ BoundInv /\ [FlusherStep]_flusherVars => BoundInv'
<1> SUFFICES ASSUME SeqTypeOK, AckInv, BoundInv, [FlusherStep]_flusherVars PROVE BoundInv'
  OBVIOUS
<1> USE FlusherAssumption DEF SeqTypeOK, BoundInv
<1>U. ASSUME UNCHANGED <<batch, latest, acked, tickets, homeSeq>> PROVE BoundInv'
  BY <1>U
<1>1. ASSUME NEW g \in Group, NEW n \in 1..MaxSeq, MarkDirty(g, n) PROVE BoundInv'
  <2>1. /\ UNCHANGED <<batch, acked, homeSeq>> /\ tickets' = tickets \cup {<<g, n>>}
        /\ \A h \in Group : latest'[h] \in Nat /\ latest[h] <= latest'[h]
        /\ n <= acked[g] \/ n <= latest'[g]
    BY <1>1 DEF MarkDirty, Larger, loopVars
  <2>2. \A p \in batch : p[1] \in Group /\ p[2] \in Nat
    OBVIOUS
  <2>3. \A w \in tickets : w[1] \in Group /\ w[2] \in Nat
    OBVIOUS
  <2> QED BY <2>1, <2>2, <2>3
<1>2. CASE signal \/ StartLifetime \/ CancelLifetime
  BY <1>U, <1>2 DEF signal, StartLifetime, CancelLifetime, markVars, loopVars
<1>3. CASE RunReturn \/ RunWake \/ FlushSent \/ RunRearm
  BY <1>U, <1>3 DEF RunReturn, RunWake, FlushSent, RunRearm, markVars
<1>4. CASE RunForce \/ RunTimer
  <2>1. UNCHANGED <<latest, acked, tickets, homeSeq>>
    BY <1>4 DEF RunForce, RunTimer, markVars
  <2>2. batch' = {} \/ batch' = {<<g, dirty[g]>> : g \in Dirty}
    BY <1>4 DEF RunForce, RunTimer, BeginFlush
  <2>3. \A p \in batch' : p \in Group \X Nat /\ p[2] <= latest[p[1]]
    BY <2>2 DEF Dirty, AckInv
  <2> QED BY <2>1, <2>3
<1>5. ASSUME NEW g \in Group, NEW n \in 1..MaxSeq, SendOk(g, n) \/ SendFail(g, n)
      PROVE  BoundInv'
  <2>1. <<g, n>> \in batch /\ batch' = batch \ {<<g, n>>} /\ UNCHANGED <<latest, tickets>>
    BY <1>5 DEF SendOk, SendFail, markVars
  <2>2. n <= latest[g]
    BY <2>1
  <2>3. \A h \in Group : homeSeq'[h] <= latest[h]
    BY <1>5, <2>2 DEF SendOk, SendFail, HomeReceives, Larger
  <2>4. \A h \in Group : acked'[h] \in Nat /\ acked[h] <= acked'[h]
    BY <1>5 DEF SendOk, SendFail, Larger, markVars
  <2>5. \A w \in tickets : w[1] \in Group /\ w[2] \in Nat
    OBVIOUS
  <2> QED BY <2>1, <2>3, <2>4, <2>5
<1>6. ASSUME NEW c \in FlushCall, FlushStep(c) PROVE BoundInv'
  BY <1>U, <1>6 DEF FlushStep, FlushStart, FlushDone, FlushTimeout, markVars, loopVars
<1>7. CASE UNCHANGED flusherVars
  BY <1>U, <1>7 DEF flusherVars, markVars, loopVars
<1> QED BY <1>1, <1>2, <1>3, <1>4, <1>5, <1>6, <1>7
        DEF FlusherStep, Internal, RunStep, SomeSend

-----------------------------------------------------------------------------
(***************************************************************************)
(* The composition.                                                        *)
(***************************************************************************)

AcctType ==
    /\ answer \in [Request -> Group \cup {Unaccounted, NotAdmitted}]
    /\ admitted \in [Group -> Nat]

\* The composition takes only steps the registry allows.
LEMMA RegistrySteps == AcctType /\ [AcctNext]_allVars => [Next]_vars
<1> SUFFICES ASSUME AcctType, [AcctNext]_allVars PROVE [Next]_vars
  OBVIOUS
<1>1. ASSUME NEW d \in Request, HomeAdmits(d) PROVE UNCHANGED vars
  BY <1>1 DEF HomeAdmits
<1>2. ASSUME NEW d \in Request, Dispatch(d) PROVE OwnerStep(d)
  BY <1>2 DEF Dispatch, OwnerStep, AcctType
<1>3. ASSUME NEW d \in Request, EndQuietly(d) \/ EndTellsFlusher(d)
      PROVE  EndStart(d) \/ EndBody(d) \/ ResourceClosed(d)
  BY <1>3 DEF EndQuietly, EndTellsFlusher, EndBody
<1>4. ASSUME AttachSink \/ DetachSink PROVE SinkStep
  BY <1>4 DEF AttachSink, DetachSink, SinkStep
<1>5. ASSUME NEW c \in Drainer, Draining(c) PROVE DrainStep(c)
  BY <1>5 DEF Draining
<1>6. ASSUME FlusherInternal PROVE UNCHANGED vars
  BY <1>6 DEF FlusherInternal
<1>7. ASSUME UNCHANGED allVars PROVE UNCHANGED vars
  BY <1>7 DEF allVars
<1> QED BY <1>1, <1>2, <1>3, <1>4, <1>5, <1>6, <1>7 DEF AcctNext, Next

\* The composition takes only steps the flusher allows.
LEMMA FlusherAllows ==
    /\ signal \/ RunStep \/ StartLifetime \/ CancelLifetime => Internal
    /\ \A f \in FlushCall :
         FlushStart(f) \/ FlushDone(f) \/ FlushTimeout(f) => Internal
    /\ \A g \in Group, n \in 1..MaxSeq : MarkDirty(g, n) => FlusherStep
    /\ UNCHANGED flusherVars => UNCHANGED flusherVars
BY DEF Internal, FlushStep, FlusherStep, flusherVars, flusherVars, loopVars, markVars, flushVars

-----------------------------------------------------------------------------
(***************************************************************************)
(* What ties the three together.  A scope has the group Home answered, and *)
(* Home's count of a group is the number of dispatches it answered with    *)
(* it.  What End carries to the sink was counted, what the sink was told   *)
(* was given to the flusher, and the flusher knows nothing else.  The sink *)
(* is attached before anything was released, so nothing is ever replayed.  *)
(***************************************************************************)
AdmittedTo(g) == {d \in Request : answer[d] = g}

AnswerInv ==
    /\ \A d \in Request : group[d] \in Group => answer[d] = group[d]
    /\ \A g \in Group : admitted[g] = Cardinality(AdmittedTo(g))

CarryInv ==
    /\ \A d \in Request : endPc[d] = "sink" =>
         group[d] \in Group /\ captured[d].seq \in 1..releaseSeq[group[d]]
    /\ next = 0 => \A d \in Request : pc[d] \in {"new", "beginning", "rejected"}
    /\ replay = {}

ToldInv ==
    /\ \A k \in Sink : told[k] \subseteq tickets
    /\ \A g \in Group : latest[g] <= releaseSeq[g]

RegInv == TypeOK /\ MapInv /\ ReleaseCount /\ SinkInv /\ DrainInv
FlushInv == SeqTypeOK /\ AckInv /\ BoundInv

\* Where Home's variables and a scope's group change.
LEMMA HomeFrame ==
  ASSUME [AcctNext]_allVars
  PROVE  \/ \E d \in Request : HomeAdmits(d)
         \/ /\ UNCHANGED homeVars
            /\ \/ group' = group
               \/ \E d \in Request : /\ answer[d] # NotAdmitted
                                     /\ InstallLock(d, answer[d])
<1>1. ASSUME NEW d \in Request, Dispatch(d), group' # group
      PROVE  answer[d] # NotAdmitted /\ InstallLock(d, answer[d])
  BY <1>1 DEF Dispatch, BeginLock, BeginReject, BeginCommit, PendingEnd, InstallReject,
     InstallCommit, BindReject, BindLock, BindCommit
<1>2. ASSUME NEW d \in Request, EndQuietly(d) \/ EndTellsFlusher(d)
      PROVE  UNCHANGED <<group, homeVars>>
  BY <1>2 DEF EndQuietly, EndTellsFlusher, EndStart, EndClose, EndAwait, EndMark, EndUnmarked,
     EndSink, EndDelete, ResourceClosed, dispVars
<1>3. ASSUME AttachSink \/ DetachSink PROVE UNCHANGED <<group, homeVars>>
  BY <1>3 DEF AttachSink, DetachSink, SetReleaseSink, dispVars
<1>4. ASSUME NEW c \in Drainer, Draining(c) PROVE UNCHANGED <<group, homeVars>>
  BY <1>4 DEF Draining, DrainStep, DrainWork, DrainStart, DrainRefused, CollectScopes,
     DrainVisit, DrainSwept, DrainDone, DrainWait, WaitTimeout, dispVars
<1>5. ASSUME FlusherInternal \/ UNCHANGED allVars PROVE UNCHANGED <<group, homeVars>>
  BY <1>5 DEF FlusherInternal, allVars, vars, dispVars
<1>6. ASSUME NEW d \in Request, Dispatch(d) PROVE UNCHANGED homeVars
  BY <1>6 DEF Dispatch
<1> QED BY <1>1, <1>2, <1>3, <1>4, <1>5, <1>6 DEF AcctNext

LEMMA AnswerStep ==
  ASSUME TypeOK, AcctType, AnswerInv, [AcctNext]_allVars
  PROVE  AcctType' /\ AnswerInv'
<1> USE AccountingAssumption, FlusherAssumption, ConstantsAssumption DEF AcctType, TypeOK
<1>1. ASSUME NEW d \in Request, HomeAdmits(d) PROVE AcctType' /\ AnswerInv'
  <2>1. group' = group /\ answer[d] = NotAdmitted
    BY <1>1 DEF HomeAdmits, vars, dispVars
  <2>2. CASE answer' = [answer EXCEPT ![d] = Unaccounted] /\ UNCHANGED admitted
    <3>1. \A g \in Group : AdmittedTo(g)' = AdmittedTo(g)
      BY <2>1, <2>2 DEF AdmittedTo
    <3> QED BY <2>1, <2>2, <3>1 DEF AnswerInv
  <2>3. ASSUME NEW g \in Group, answer' = [answer EXCEPT ![d] = g],
               admitted' = [admitted EXCEPT ![g] = @ + 1]
        PROVE  AcctType' /\ AnswerInv'
    <3>1. AdmittedTo(g)' = AdmittedTo(g) \cup {d} /\ d \notin AdmittedTo(g)
      BY <2>1, <2>3 DEF AdmittedTo
    <3>2. IsFiniteSet(AdmittedTo(g))
      BY FS_Subset DEF AdmittedTo
    <3>3. Cardinality(AdmittedTo(g)') = Cardinality(AdmittedTo(g)) + 1
      <4>1. Cardinality(AdmittedTo(g) \cup {d}) =
              IF d \in AdmittedTo(g) THEN Cardinality(AdmittedTo(g))
                                     ELSE Cardinality(AdmittedTo(g)) + 1
        BY <3>2, FS_AddElement, Zenon
      <4> QED BY <3>1, <4>1
    <3>4. \A h \in Group : h # g => AdmittedTo(h)' = AdmittedTo(h)
      BY <2>1, <2>3 DEF AdmittedTo
    <3>5. \A h \in Group : admitted'[h] = Cardinality(AdmittedTo(h)')
      BY <2>3, <3>3, <3>4 DEF AnswerInv
    <3>6. \A e \in Request : group'[e] \in Group => answer'[e] = group'[e]
      BY <2>1, <2>3 DEF AnswerInv
    <3> QED BY <2>3, <3>5, <3>6 DEF AnswerInv
  <2> QED BY <1>1, <2>2, <2>3 DEF HomeAdmits
<1>2. ASSUME UNCHANGED homeVars, group' = group PROVE AcctType' /\ AnswerInv'
  BY <1>2 DEF homeVars, AnswerInv, AdmittedTo
<1>3. ASSUME NEW d \in Request, UNCHANGED homeVars, InstallLock(d, answer[d])
      PROVE  AcctType' /\ AnswerInv'
  BY <1>3 DEF homeVars, AnswerInv, AdmittedTo, InstallLock
<1> QED BY <1>1, <1>2, <1>3, HomeFrame

\* A sequence never exceeds the number of dispatches, so the flusher is within its bound.
LEMMA SeqBounded ==
  ASSUME TypeOK, ReleaseCount, NEW g \in Group
  PROVE  releaseSeq[g] <= MaxSeq
<1>1. ReleasedOf(g) \in SUBSET Request /\ IsFiniteSet(Request)
  BY ConstantsAssumption DEF ReleasedOf
<1>2. Cardinality(ReleasedOf(g)) <= Cardinality(Request) /\ Cardinality(Request) \in Nat
  BY <1>1, FS_Subset, FS_CardinalityType
<1>3. releaseSeq[g] = Cardinality(ReleasedOf(g))
  BY DEF ReleaseCount, ReleasedOf
<1> QED BY <1>2, <1>3, AccountingAssumption, FlusherAssumption DEF TypeOK

\* Before the first dispatch there is nothing to replay.
LEMMA NothingToReplay ==
  ASSUME TypeOK, MapInv, ReleaseCount, CarryInv, next = 0
  PROVE  KnownSequences = {}
<1>1. \A g \in Group : ReleasedOf(g) = {}
  BY DEF TypeOK, MapInv, MapOK, CarryInv, ReleasedOf, Released
<1>2. \A g \in Group : releaseSeq[g] = 0
  BY <1>1, FS_EmptySet DEF ReleaseCount, ReleasedOf
<1> QED BY <1>2 DEF KnownSequences

LEMMA CarryStep ==
  ASSUME TypeOK, MapInv, ReleaseCount, AcctType, CarryInv, [AcctNext]_allVars
  PROVE  CarryInv'
<1> USE DEF TypeOK
<1>U. ASSUME UNCHANGED vars PROVE CarryInv'
  BY <1>U DEF vars, lifeVars, dispVars, relVars, CarryInv
<1>1. ASSUME NEW d \in Request, HomeAdmits(d) PROVE CarryInv'
  BY <1>U, <1>1 DEF HomeAdmits
<1>2. ASSUME NEW d \in Request, Dispatch(d) PROVE CarryInv'
  <2>1. UNCHANGED relVars /\ endPc' = endPc
    BY <1>2 DEF Dispatch, BeginLock, BeginReject, BeginCommit, PendingEnd, InstallReject,
       InstallLock, InstallCommit, BindReject, BindLock, BindCommit
  <2>2. \A e \in Request : endPc[e] = "sink" => group'[e] = group[e]
    BY <1>2 DEF Dispatch, BeginLock, BeginReject, BeginCommit, PendingEnd, InstallReject,
       InstallLock, InstallCommit, BindReject, BindLock, BindCommit, MapInv, MapOK
  <2>3. next' = 0 => \A e \in Request : pc'[e] \in {"new", "beginning", "rejected"}
    BY <1>2 DEF Dispatch, BeginLock, BeginReject, BeginCommit, PendingEnd, InstallReject,
       InstallLock, InstallCommit, BindReject, BindLock, BindCommit, Goto, lifeVars, CarryInv
  <2> QED BY <2>1, <2>2, <2>3 DEF relVars, CarryInv
<1>3. ASSUME NEW d \in Request, EndMark(d) PROVE CarryInv'
  <2>1. UNCHANGED <<next, pc, group, replay>>
    BY <1>3 DEF EndMark, lifeVars, dispVars
  <2>2. /\ group[d] \in Group
        /\ releaseSeq' = [releaseSeq EXCEPT ![group[d]] = @ + 1]
        /\ captured'[d].seq = releaseSeq'[group[d]]
        /\ \A e \in Request : e # d => captured'[e] = captured[e] /\ endPc'[e] = endPc[e]
    BY <1>3 DEF EndMark, GotoEnd
  <2>3. \A g \in Group : releaseSeq'[g] \in Nat /\ releaseSeq[g] <= releaseSeq'[g]
    BY <2>2
  <2>4. \A e \in Request : endPc'[e] = "sink" =>
          group[e] \in Group /\ captured'[e].seq \in 1..releaseSeq'[group[e]]
    BY <2>2, <2>3 DEF CarryInv
  <2> QED BY <2>1, <2>4 DEF CarryInv
<1>4. ASSUME NEW d \in Request, EndStart(d) \/ EndClose(d) \/ EndAwait(d) \/ EndUnmarked(d)
                                \/ EndSink(d) \/ EndDelete(d) \/ ResourceClosed(d)
      PROVE  CarryInv'
  <2>1. UNCHANGED <<next, pc, group, releaseSeq, captured, replay>>
    BY <1>4 DEF EndStart, EndClose, EndAwait, EndUnmarked, EndSink, EndDelete, ResourceClosed,
       lifeVars, dispVars, relVars
  <2>2. \A e \in Request : endPc'[e] = "sink" => endPc[e] = "sink"
    BY <1>4 DEF EndStart, EndClose, EndAwait, EndUnmarked, EndSink, EndDelete, ResourceClosed,
       GotoEnd
  <2> QED BY <2>1, <2>2 DEF CarryInv
<1>5. ASSUME AttachSink \/ DetachSink PROVE CarryInv'
  <2>1. UNCHANGED <<next, pc, group, releaseSeq, captured, endPc>>
    BY <1>5 DEF AttachSink, DetachSink, SetReleaseSink, lifeVars, dispVars
  <2>2. replay' = {}
    BY <1>5, NothingToReplay DEF AttachSink, DetachSink, SetReleaseSink
  <2> QED BY <2>1, <2>2 DEF CarryInv
<1>6. ASSUME NEW c \in Drainer, Draining(c) PROVE CarryInv'
  BY <1>6 DEF Draining, DrainStep, DrainWork, DrainStart, DrainRefused, CollectScopes,
     DrainVisit, DrainSwept, DrainDone, DrainWait, WaitTimeout, lifeVars, dispVars, relVars,
     CarryInv
<1>7. ASSUME FlusherInternal \/ UNCHANGED allVars PROVE CarryInv'
  BY <1>U, <1>7 DEF FlusherInternal, allVars
<1> QED BY <1>1, <1>2, <1>3, <1>4, <1>5, <1>6, <1>7 DEF AcctNext, EndQuietly, EndTellsFlusher

\* The composition takes only steps the flusher allows: what End marks is a sequence.
LEMMA FlusherSteps ==
  ASSUME TypeOK, ReleaseCount, CarryInv, [AcctNext]_allVars
  PROVE  [FlusherStep]_flusherVars
<1>0. UNCHANGED flusherVars => UNCHANGED flusherVars
  BY FlusherAllows
<1>1. ASSUME NEW d \in Request, HomeAdmits(d) \/ Dispatch(d) \/ EndQuietly(d)
      PROVE  UNCHANGED flusherVars
  BY <1>1 DEF HomeAdmits, Dispatch, EndQuietly
<1>2. ASSUME NEW d \in Request, EndTellsFlusher(d), ~UNCHANGED flusherVars
      PROVE  FlusherStep
  <2>1. endPc[d] = "sink" /\ MarkDirty(group[d], captured[d].seq)
    BY <1>2 DEF EndTellsFlusher, EndSink
  <2>2. group[d] \in Group /\ captured[d].seq \in 1..releaseSeq[group[d]]
    BY <2>1 DEF CarryInv
  <2>3. releaseSeq[group[d]] <= MaxSeq
    BY <2>2, SeqBounded
  <2>4. captured[d].seq \in 1..MaxSeq
    BY <2>2, <2>3, AccountingAssumption, FlusherAssumption DEF TypeOK
  <2> QED BY <2>1, <2>2, <2>4, FlusherAllows
<1>3. ASSUME AttachSink \/ DetachSink \/ \E c \in Drainer : Draining(c)
      PROVE  UNCHANGED flusherVars
  BY <1>3 DEF AttachSink, DetachSink, Draining
<1>4. ASSUME FlusherInternal PROVE FlusherStep
  <2>1. Internal
    BY <1>4, FlusherAllows DEF FlusherInternal
  <2> QED BY <2>1 DEF FlusherStep
<1>5. ASSUME UNCHANGED allVars PROVE UNCHANGED flusherVars
  BY <1>5 DEF allVars
<1> QED BY <1>0, <1>1, <1>2, <1>3, <1>4, <1>5 DEF AcctNext

LEMMA ToldStep ==
  ASSUME TypeOK, MapInv, ReleaseCount, CarryInv, FlushInv, ToldInv, [Next]_vars,
         [AcctNext]_allVars
  PROVE  ToldInv'
<1> USE DEF TypeOK
<1>0. /\ latest \in [Group -> Nat] /\ releaseSeq \in [Group -> Nat]
      /\ \A g \in Group : releaseSeq'[g] \in Nat /\ releaseSeq[g] <= releaseSeq'[g]
  <2>1. ASSUME NEW d \in Request, EndMark(d)
        PROVE  \A g \in Group : releaseSeq'[g] \in Nat /\ releaseSeq[g] <= releaseSeq'[g]
    BY <2>1 DEF EndMark
  <2> QED BY <2>1, ReleasedStep DEF FlushInv, SeqTypeOK
<1>U. ASSUME UNCHANGED <<told, tickets, latest>> PROVE ToldInv'
  BY <1>0, <1>U DEF ToldInv
<1>1. ASSUME NEW d \in Request, HomeAdmits(d) PROVE ToldInv'
  BY <1>U, <1>1 DEF HomeAdmits, vars, relVars, flusherVars, markVars
<1>2. ASSUME NEW d \in Request, Dispatch(d) PROVE ToldInv'
  BY <1>U, <1>2 DEF Dispatch, BeginLock, BeginReject, BeginCommit, PendingEnd, InstallReject,
     InstallLock, InstallCommit, BindReject, BindLock, BindCommit, relVars, flusherVars, markVars
<1>3. ASSUME NEW d \in Request, EndQuietly(d) PROVE ToldInv'
  BY <1>U, <1>3 DEF EndQuietly, EndStart, EndClose, EndAwait, EndMark, EndUnmarked, EndDelete,
     ResourceClosed, relVars, flusherVars, markVars
<1>4. ASSUME NEW d \in Request, EndTellsFlusher(d) PROVE ToldInv'
  <2>1. /\ releaseSeq' = releaseSeq /\ endPc[d] = "sink"
        /\ \A k \in Sink : told'[k] = IF k = captured[d].sink
                                      THEN told[k] \cup {<<group[d], captured[d].seq>>}
                                      ELSE told[k]
    BY <1>4 DEF EndTellsFlusher, EndSink
  <2>2. group[d] \in Group /\ captured[d].seq \in 1..releaseSeq[group[d]]
    BY <2>1 DEF CarryInv
  <2>3. CASE captured[d].sink \notin Sink
    BY <1>4, <1>U, <2>1, <2>3 DEF EndTellsFlusher, flusherVars, markVars, ToldInv
  <2>4. CASE captured[d].sink \in Sink
    <3>1. MarkDirty(group[d], captured[d].seq)
      BY <1>4, <2>4 DEF EndTellsFlusher
    <3>2. tickets' = tickets \cup {<<group[d], captured[d].seq>>}
      BY <3>1 DEF MarkDirty
    <3>3. \A g \in Group : latest'[g] <= releaseSeq[g]
      BY <1>0, <2>2, <3>1 DEF MarkDirty, Larger, ToldInv
    <3> QED BY <2>1, <3>2, <3>3 DEF ToldInv
  <2> QED BY <2>3, <2>4
<1>5. ASSUME AttachSink \/ DetachSink PROVE ToldInv'
  BY <1>U, <1>5 DEF AttachSink, DetachSink, SetReleaseSink, flusherVars, markVars
<1>6. ASSUME NEW c \in Drainer, Draining(c) PROVE ToldInv'
  BY <1>U, <1>6 DEF Draining, DrainStep, DrainWork, DrainStart, DrainRefused, CollectScopes,
     DrainVisit, DrainSwept, DrainDone, DrainWait, WaitTimeout, relVars, flusherVars, markVars
<1>7. ASSUME FlusherInternal PROVE ToldInv'
  <2>1. UNCHANGED told
    BY <1>7 DEF FlusherInternal, vars, relVars
  <2>2. RunStep => UNCHANGED <<tickets, latest>>
    BY DEF RunStep, RunReturn, RunWake, RunForce, RunTimer, FlushSent, RunRearm,
       SomeSend, SendOk, SendFail, markVars
  <2>3. UNCHANGED <<tickets, latest>>
    BY <1>7, <2>2 DEF FlusherInternal, signal, StartLifetime, CancelLifetime,
       FlushStart, FlushDone, FlushTimeout, markVars
  <2> QED BY <1>U, <2>1, <2>3
<1>8. ASSUME UNCHANGED allVars PROVE ToldInv'
  BY <1>U, <1>8 DEF allVars, vars, relVars, flusherVars, markVars
<1> QED BY <1>1, <1>2, <1>3, <1>4, <1>5, <1>6, <1>7, <1>8 DEF AcctNext

(***************************************************************************)
(* The invariant of the composition.                                       *)
(***************************************************************************)
LinkInv == RegInv /\ FlushInv /\ AcctType /\ AnswerInv /\ CarryInv /\ ToldInv

LEMMA LinkInit == AcctInit => LinkInv
<1> SUFFICES ASSUME AcctInit PROVE LinkInv
  OBVIOUS
<1>1. TypeOK /\ MapInv /\ SinkInv /\ DrainInv
  BY ConstantsAssumption DEF AcctInit, Init, TypeOK, Caller, Waiter, MapInv, MapOK, SinkInv,
     SinkOK, DrainInv, DrainOK
<1>2. ReleaseCount
  <2>1. \A g \in Group : {d \in Request : group[d] = g /\ Released(d)} = {}
    BY DEF AcctInit, Init, Released
  <2> QED BY <2>1, FS_EmptySet DEF AcctInit, Init, ReleaseCount
<1>3. FlushInv
  BY FlusherAllows, BoundInvInit, AccountingAssumption, FlusherAssumption DEF AcctInit, FlushInv
<1>4. AcctType /\ AnswerInv
  <2>1. \A g \in Group : AdmittedTo(g) = {}
    BY AccountingAssumption, FlusherAssumption DEF AcctInit, AdmittedTo
  <2> QED BY <2>1, FS_EmptySet, ConstantsAssumption
          DEF AcctInit, Init, AcctType, AnswerInv
<1>5. CarryInv
  BY DEF AcctInit, Init, CarryInv
<1>6. ToldInv
  BY DEF AcctInit, Init, FlusherInit, ToldInv
<1> QED BY <1>1, <1>2, <1>3, <1>4, <1>5, <1>6 DEF LinkInv, RegInv

LEMMA LinkStep == LinkInv /\ [AcctNext]_allVars => LinkInv'
<1> SUFFICES ASSUME LinkInv, [AcctNext]_allVars PROVE LinkInv'
  OBVIOUS
<1> USE DEF LinkInv, RegInv
<1>1. [Next]_vars
  BY RegistrySteps
<1>2. RegInv'
  BY <1>1, TypeStep, MapInvStep, ReleaseCountStep, SinkInvStep, DrainInvStep
<1>3. [FlusherStep]_flusherVars
  BY FlusherSteps
<1>4. FlushInv'
  BY <1>3, SeqTypeStep, AckInvStep, BoundInvStep, AccountingAssumption, FlusherAssumption DEF FlushInv
<1>5. AcctType' /\ AnswerInv' /\ CarryInv' /\ ToldInv'
  BY <1>1, AnswerStep, CarryStep, ToldStep
<1> QED BY <1>2, <1>4, <1>5
-----------------------------------------------------------------------------
\* Why a slot in use is always counted: the open and the released scopes of a group are
\* different dispatches, all admitted by Home, and Home has heard of releases only.
LEMMA OpenIsCounted ==
  ASSUME LinkInv, NEW g \in Group
  PROVE  /\ Cardinality(OpenOf(g)) \in Nat /\ Account(g) \in Nat
         /\ Cardinality(OpenOf(g)) <= Account(g)
<1> DEFINE O == OpenOf(g)
           R == ReleasedOf(g)
<1>1. O \cup R \in SUBSET AdmittedTo(g) /\ O \cap R = {}
  BY DEF LinkInv, RegInv, AnswerInv, MapInv, MapOK, OpenOf, ReleasedOf, AdmittedTo, Open, Released
<1>2. IsFiniteSet(O) /\ IsFiniteSet(R) /\ IsFiniteSet(AdmittedTo(g))
  BY ConstantsAssumption, FS_Subset DEF OpenOf, ReleasedOf, AdmittedTo
<1>3. Cardinality(O \cup R) = Cardinality(O) + Cardinality(R) - Cardinality(O \cap R)
  BY <1>2, FS_Union
<1>4. Cardinality(O \cap R) = 0
  BY <1>1, FS_EmptySet
<1>5. Cardinality(O \cup R) <= Cardinality(AdmittedTo(g))
  BY <1>1, <1>2, FS_Subset
<1>6. Cardinality(O) \in Nat /\ Cardinality(R) \in Nat
  BY <1>2, FS_CardinalityType
<1>7. admitted[g] = Cardinality(AdmittedTo(g)) /\ releaseSeq[g] = Cardinality(R)
  BY DEF LinkInv, RegInv, AnswerInv, ReleaseCount, ReleasedOf
<1>8. Cardinality(O) + releaseSeq[g] <= admitted[g]
  BY <1>3, <1>4, <1>5, <1>6, <1>7
<1>9. homeSeq[g] <= latest[g] /\ latest[g] <= releaseSeq[g]
  BY DEF LinkInv, FlushInv, BoundInv, ToldInv
<1>10. homeSeq[g] \in Nat /\ latest[g] \in Nat /\ releaseSeq[g] \in Nat /\ admitted[g] \in Nat
  BY DEF LinkInv, RegInv, TypeOK, AcctType, FlushInv, SeqTypeOK
<1> QED BY <1>6, <1>8, <1>9, <1>10 DEF Account

\* Which resources are open changes in two actions only.
LEMMA OpenStep ==
  ASSUME TypeOK, MapInv, [AcctNext]_allVars
  PROVE  \/ \A g \in Group : OpenOf(g)' = OpenOf(g)
         \/ \E d \in Request : BindCommit(d) /\ Dispatch(d)
         \/ \E d \in Request : ResourceClosed(d) /\ EndQuietly(d)
<1> DEFINE Same == \A g \in Group : OpenOf(g)' = OpenOf(g)
<1> USE DEF TypeOK
<1>U. ASSUME UNCHANGED <<group, resource>> PROVE Same
  BY <1>U DEF OpenOf, Open
<1>V. ASSUME NEW d \in Request, StartClose(d), group' = group PROVE Same
  BY <1>V DEF OpenOf, Open, StartClose
<1>1. ASSUME NEW d \in Request, Dispatch(d), ~BindCommit(d) PROVE Same
  <2>1. CASE answer[d] # NotAdmitted /\ InstallLock(d, answer[d])
    <3>1. resource[d] = "none" /\ resource' = resource
          /\ \A e \in Request : e # d => group'[e] = group[e]
      BY <2>1 DEF InstallLock, MapInv, MapOK
    <3> QED BY <3>1 DEF OpenOf, Open
  <2>2. CASE ~(answer[d] # NotAdmitted /\ InstallLock(d, answer[d]))
    BY <1>U, <1>1, <2>2 DEF Dispatch, BeginLock, BeginReject, BeginCommit, PendingEnd,
       InstallReject, InstallCommit, BindReject, BindLock
  <2> QED BY <2>1, <2>2
<1>2. ASSUME NEW d \in Request, EndQuietly(d), ~ResourceClosed(d) PROVE Same
  <2>1. CASE EndClose(d)
    BY <1>V, <2>1 DEF EndClose, dispVars
  <2>2. CASE ~EndClose(d)
    BY <1>U, <1>2, <2>2 DEF EndQuietly, EndStart, EndAwait, EndMark, EndUnmarked, EndDelete,
       dispVars
  <2> QED BY <2>1, <2>2
<1>3. ASSUME NEW d \in Request, EndTellsFlusher(d) PROVE Same
  BY <1>U, <1>3 DEF EndTellsFlusher, EndSink, dispVars
<1>4. ASSUME NEW d \in Request, HomeAdmits(d) PROVE Same
  BY <1>U, <1>4 DEF HomeAdmits, vars, dispVars
<1>5. ASSUME AttachSink \/ DetachSink PROVE Same
  BY <1>U, <1>5 DEF AttachSink, DetachSink, SetReleaseSink, dispVars
<1>6. ASSUME NEW c \in Drainer, Draining(c) PROVE Same
  <2>1. ASSUME NEW d \in Request, DrainVisit(c, d) PROVE Same
    BY <1>V, <2>1 DEF DrainVisit, dispVars
  <2>2. CASE ~\E d \in Request : DrainVisit(c, d)
    BY <1>U, <1>6, <2>2 DEF Draining, DrainStep, DrainWork, DrainStart, DrainRefused,
       CollectScopes, DrainSwept, DrainDone, DrainWait, WaitTimeout, dispVars
  <2> QED BY <2>1, <2>2
<1>7. ASSUME FlusherInternal \/ UNCHANGED allVars PROVE Same
  BY <1>U, <1>7 DEF FlusherInternal, allVars, vars, dispVars
<1> QED BY <1>1, <1>2, <1>3, <1>4, <1>5, <1>6, <1>7 DEF AcctNext

\* Home hears of a release from the flusher only, one group at a time.
LEMMA HomeHears ==
  ASSUME [AcctNext]_allVars
  PROVE  \/ homeSeq' = homeSeq
         \/ FlusherInternal /\ \E g \in Group, n \in 1..MaxSeq :
                                 homeSeq' = [homeSeq EXCEPT ![g] = Larger(@, n)]
<1>1. RunStep => \/ homeSeq' = homeSeq
                   \/ \E g \in Group, n \in 1..MaxSeq :
                        homeSeq' = [homeSeq EXCEPT ![g] = Larger(@, n)]
  BY DEF RunStep, RunReturn, RunWake, RunForce, RunTimer, FlushSent, RunRearm,
     SomeSend, SendOk, SendFail, HomeReceives
<1>2. ASSUME FlusherInternal, ~RunStep PROVE homeSeq' = homeSeq
  BY <1>2 DEF FlusherInternal, signal, StartLifetime, CancelLifetime,
     FlushStart, FlushDone, FlushTimeout
<1>3. ASSUME NEW d \in Request, EndTellsFlusher(d) PROVE homeSeq' = homeSeq
  BY <1>3 DEF EndTellsFlusher, MarkDirty, flusherVars
<1> QED BY <1>1, <1>2, <1>3 DEF AcctNext, HomeAdmits, Dispatch, EndQuietly, AttachSink,
        DetachSink, Draining, allVars, flusherVars, flushVars

accountBar == [g \in Group |-> Account(g)]
heldBar == [g \in Group |-> OpenOf(g)]

\* The ledger counts the way the registry does.
LEMMA SameCount == \A S : Ledger!Cardinality(S) = Cardinality(S)
  BY DEF Ledger!Cardinality, Cardinality

\* Each step is one of the ledger's or changes nothing it speaks of.
LEMMA LedgerStep ==
  ASSUME LinkInv, LinkInv', [AcctNext]_allVars
  PROVE  [Ledger!Next]_<<accountBar, heldBar>>
<1> DEFINE Goal == [Ledger!Next]_<<accountBar, heldBar>>
<1>0. [Next]_vars /\ TypeOK /\ MapInv /\ AcctType
  BY RegistrySteps DEF LinkInv, RegInv
<1>1. \A g \in Group : /\ Cardinality(OpenOf(g)) \in Nat /\ Account(g) \in Nat
                       /\ Cardinality(OpenOf(g)) <= Account(g)
  BY OpenIsCounted
<1>2. \A g \in Group : /\ Cardinality(OpenOf(g)') \in Nat /\ Account(g)' \in Nat
                       /\ Cardinality(OpenOf(g)') <= Account(g)'
  <2> SUFFICES ASSUME NEW g \in Group
               PROVE  (/\ Cardinality(OpenOf(g)) \in Nat /\ Account(g) \in Nat
                       /\ Cardinality(OpenOf(g)) <= Account(g))'
    OBVIOUS
  <2> QED BY OpenIsCounted, PTL
<1>3. ASSUME NEW d \in Request, BindCommit(d), Dispatch(d) PROVE Goal
  <2>1. accountBar' = accountBar
    BY <1>3 DEF Dispatch, flusherVars, homeVars, accountBar, Account
  <2>2. /\ group' = group /\ resource[d] = "none"
        /\ resource' = [resource EXCEPT ![d] = "bound"]
    BY <1>0, <1>3 DEF BindCommit, MapInv, MapOK, TypeOK
  <2>3. CASE group[d] \notin Group
    <3>1. heldBar' = heldBar
      BY <1>0, <2>2, <2>3 DEF heldBar, OpenOf, Open, TypeOK
    <3> QED BY <2>1, <3>1
  <2>4. ASSUME NEW g \in Group, group[d] = g PROVE Goal
    <3>1. /\ d \notin OpenOf(g)
          /\ OpenOf(g)' = OpenOf(g) \cup {d}
          /\ \A h \in Group : h # g => OpenOf(h)' = OpenOf(h)
      BY <1>0, <2>2, <2>4 DEF OpenOf, Open, TypeOK
    <3>2. IsFiniteSet(OpenOf(g))
      BY ConstantsAssumption, FS_Subset DEF OpenOf
    <3>3. Cardinality(OpenOf(g)') = Cardinality(OpenOf(g)) + 1
      BY <3>1, <3>2, FS_AddElement
    <3>4. Cardinality(OpenOf(g)) < Account(g)
      <4>1. Account(g)' = Account(g)
        BY <1>3 DEF Dispatch, flusherVars, homeVars, Account
      <4> QED BY <1>1, <1>2, <2>2, <2>4, <3>3, <4>1
    <3>5. heldBar' = [heldBar EXCEPT ![g] = @ \cup {d}]
      BY <2>4, <3>1 DEF heldBar
    <3>6. d \notin heldBar[g] /\ Cardinality(heldBar[g]) < accountBar[g]
      <4>1. heldBar[g] = OpenOf(g) /\ accountBar[g] = Account(g)
        BY DEF heldBar, accountBar
      <4> QED BY <3>1, <3>4, <4>1
    <3>7. Ledger!Open(g, d)
      BY <2>1, <3>5, <3>6, SameCount, Zenon DEF Ledger!Open, accountBar, heldBar
    <3> QED BY <2>4, <3>7 DEF Ledger!Next
  <2> QED BY <2>3, <2>4
<1>4. ASSUME NEW d \in Request, ResourceClosed(d), EndQuietly(d) PROVE Goal
  <2>1. accountBar' = accountBar
    BY <1>4 DEF EndQuietly, flusherVars, homeVars, accountBar, Account
  <2>2. /\ group' = group /\ resource[d] = "closing"
        /\ resource' = [resource EXCEPT ![d] = "closed"]
    BY <1>4 DEF ResourceClosed, dispVars
  <2>3. CASE group[d] \notin Group
    <3>1. heldBar' = heldBar
      BY <1>0, <2>2, <2>3 DEF heldBar, OpenOf, Open, TypeOK
    <3> QED BY <2>1, <3>1
  <2>4. ASSUME NEW g \in Group, group[d] = g PROVE Goal
    <3>1. /\ d \in OpenOf(g)
          /\ OpenOf(g)' = OpenOf(g) \ {d}
          /\ \A h \in Group : h # g => OpenOf(h)' = OpenOf(h)
      BY <1>0, <2>2, <2>4 DEF OpenOf, Open, TypeOK
    <3>2. heldBar' = [heldBar EXCEPT ![g] = @ \ {d}]
      BY <2>4, <3>1 DEF heldBar
    <3>3. Ledger!Close(g, d)
      BY <2>1, <2>4, <3>1, <3>2 DEF Ledger!Close, accountBar, heldBar
    <3> QED BY <2>4, <3>3 DEF Ledger!Next
  <2> QED BY <2>3, <2>4
<1>5. ASSUME \A g \in Group : OpenOf(g)' = OpenOf(g) PROVE Goal
  <2>0. heldBar' = heldBar
    BY <1>5 DEF heldBar
  <2>1. ASSUME NEW d \in Request, HomeAdmits(d) PROVE Goal
    <3>1. homeSeq' = homeSeq
      BY <2>1 DEF HomeAdmits, flusherVars
    <3>2. CASE admitted' = admitted
      BY <2>0, <3>1, <3>2 DEF accountBar, Account
    <3>3. ASSUME NEW g \in Group, Account(g) < Limit, admitted' = [admitted EXCEPT ![g] = @ + 1]
          PROVE  Goal
      <4>1. \A h \in Group : Account(h)' = IF h = g THEN Account(h) + 1 ELSE Account(h)
        <5>1. \A h \in Group : admitted[h] \in Nat /\ homeSeq[h] \in Nat
          BY DEF LinkInv, AcctType, FlushInv, SeqTypeOK
        <5> QED BY <1>0, <3>1, <3>3, <5>1 DEF Account, AcctType
      <4>2. accountBar' = [accountBar EXCEPT ![g] = @ + 1]
        BY <4>1 DEF accountBar
      <4>3. Ledger!Admit(g)
        BY <2>0, <3>3, <4>2 DEF Ledger!Admit, accountBar, heldBar
      <4> QED BY <4>3 DEF Ledger!Next
    <3> QED BY <2>1, <3>2, <3>3 DEF HomeAdmits
  <2>2. ASSUME UNCHANGED homeVars, homeSeq' = homeSeq PROVE Goal
    BY <2>0, <2>2 DEF homeVars, accountBar, Account
  <2>3. ASSUME UNCHANGED homeVars, NEW g \in Group, NEW n \in 1..MaxSeq,
               homeSeq' = [homeSeq EXCEPT ![g] = Larger(@, n)]
        PROVE  Goal
    <3>1. \A h \in Group : h # g => Account(h)' = Account(h)
      BY <2>3 DEF homeVars, Account
    <3>2. homeSeq[g] <= homeSeq'[g] /\ homeSeq[g] \in Nat /\ homeSeq'[g] \in Nat
          /\ admitted[g] \in Nat
      BY <2>3, AccountingAssumption, FlusherAssumption DEF Larger, LinkInv, AcctType, FlushInv, SeqTypeOK
    <3>3. Account(g)' <= Account(g)
      BY <2>3, <3>2 DEF homeVars, Account
    <3>4. Account(g)' \in Cardinality(OpenOf(g))..Account(g)
      BY <1>1, <1>2, <1>5, <3>3
    <3>5. accountBar' = [accountBar EXCEPT ![g] = Account(g)']
      BY <3>1 DEF accountBar
    <3>6. \E n1 \in Cardinality(heldBar[g])..accountBar[g] :
            accountBar' = [accountBar EXCEPT ![g] = n1]
      <4>1. heldBar[g] = OpenOf(g) /\ accountBar[g] = Account(g)
        BY DEF heldBar, accountBar
      <4> QED BY <3>4, <3>5, <4>1
    <3>7. Ledger!Settle(g)
      BY <2>0, <3>6, SameCount, Zenon DEF Ledger!Settle, accountBar, heldBar
    <3> QED BY <3>7 DEF Ledger!Next
  <2>4. FlusherInternal => UNCHANGED homeVars
    BY DEF FlusherInternal
  <2> QED BY <2>1, <2>2, <2>3, <2>4, HomeFrame, HomeHears
<1> QED BY <1>0, <1>3, <1>4, <1>5, OpenStep

\* Home and the proxy together implement the ledger (KeepsLedger): whatever is lost,
\* repeated, delayed or retried between End, the flusher and Home, Home never counts fewer
\* slots of a group than there are open resources, for any number of dispatches and groups.
THEOREM AccountingRefinesLedger == AcctSpec => KeepsLedger
<1>1. AcctInit => Ledger!Init
  <2> SUFFICES ASSUME AcctInit PROVE Ledger!Init
    OBVIOUS
  <2>1. \A g \in Group : Account(g) = 0 /\ OpenOf(g) = {}
    BY DEF AcctInit, Init, FlusherInit, Account, OpenOf, Open
  <2> QED BY <2>1 DEF Ledger!Init
<1>2. LinkInv /\ LinkInv' /\ [AcctNext]_allVars =>
        [Ledger!Next]_<<[g \in Group |-> Account(g)], [g \in Group |-> OpenOf(g)]>>
  BY LedgerStep DEF accountBar, heldBar
<1> QED BY <1>1, <1>2, LinkInit, LinkStep, PTL DEF AcctSpec, KeepsLedger, Ledger!Spec
-----------------------------------------------------------------------------
LimitInv == \A g \in Group : Account(g) <= Limit

LEMMA LimitStep ==
  ASSUME LinkInv, LimitInv, [AcctNext]_allVars
  PROVE  LimitInv'
<1>0. \A g \in Group : admitted[g] \in Nat /\ homeSeq[g] \in Nat
  BY DEF LinkInv, AcctType, FlushInv, SeqTypeOK
<1> USE AccountingAssumption, FlusherAssumption DEF LimitInv, Account
<1>1. ASSUME NEW d \in Request, HomeAdmits(d) PROVE LimitInv'
  <2>1. homeSeq' = homeSeq
    BY <1>1 DEF HomeAdmits, flusherVars
  <2>2. ASSUME NEW g \in Group, Account(g) < Limit, admitted' = [admitted EXCEPT ![g] = @ + 1]
        PROVE  LimitInv'
    <3>1. \A h \in Group : admitted'[h] = IF h = g THEN admitted[h] + 1 ELSE admitted[h]
      BY <2>2 DEF LinkInv, AcctType
    <3> QED BY <1>0, <2>1, <2>2, <3>1
  <2> QED BY <1>1, <2>1, <2>2 DEF HomeAdmits
<1>2. ASSUME UNCHANGED homeVars PROVE LimitInv'
  <2>1. \A g \in Group : homeSeq'[g] \in Nat /\ homeSeq[g] <= homeSeq'[g]
    BY <1>0, HomeHears DEF Larger, LinkInv, FlushInv, SeqTypeOK
  <2> QED BY <1>0, <1>2, <2>1 DEF homeVars
<1> QED BY <1>1, <1>2, HomeFrame

\* The concurrency limit holds: never more upstream resources of a group open at once
\* than Home counts, and never more counted than the limit, for any number of dispatches.
THEOREM LimitHolds == AcctSpec => []Ledger!WithinLimit
<1>1. AcctInit => LimitInv
  BY AccountingAssumption, FlusherAssumption DEF AcctInit, FlusherInit, LimitInv, Account
<1>2. LinkInv /\ LimitInv => Ledger!WithinLimit
  <2> SUFFICES ASSUME LinkInv, LimitInv PROVE Ledger!WithinLimit
    OBVIOUS
  <2>1. \A g \in Group : Cardinality(OpenOf(g)) <= Account(g) /\ Account(g) <= Limit
    BY OpenIsCounted DEF LimitInv
  <2> QED BY <2>1, SameCount DEF Ledger!WithinLimit
<1> QED BY <1>1, <1>2, LinkInit, LinkStep, LimitStep, PTL DEF AcctSpec

-----------------------------------------------------------------------------
(***************************************************************************)
(* The graceful end.  Flush is called after a Drain that succeeded, so the *)
(* registry is empty and halted, no End is between counting a release and  *)
(* telling it, and the sink that was attached all along knows the latest   *)
(* sequence of every group.  From then on no sequence moves.               *)
(***************************************************************************)
EndedOK(f) ==
    /\ flushPc[f] # "idle" =>
         /\ Halted /\ scopes = {}
         /\ \A g \in Group : releaseSeq[g] <= latest[g] \/ releaseSeq[g] <= acked[g]
    /\ flushPc[f] = "ok" => \A g \in Group : releaseSeq[g] <= acked[g]

EndedInv == \A f \in FlushCall : EndedOK(f)

\* After a successful Drain everything that was released has reached the flusher.
LEMMA DrainedIsTold ==
  ASSUME LinkInv, sink \in Sink, NEW c \in Drainer, callPc[c] = "ok"
  PROVE  /\ Halted /\ scopes = {}
         /\ \A g \in Group : releaseSeq[g] <= latest[g] \/ releaseSeq[g] <= acked[g]
<1>1. Halted /\ scopes = {}
  BY DEF LinkInv, RegInv, DrainInv, DrainOK
<1>2. \A d \in Request : endPc[d] # "sink"
  BY <1>1 DEF LinkInv, RegInv, MapInv, MapOK
<1>3. ASSUME NEW g \in Group PROVE releaseSeq[g] <= latest[g] \/ releaseSeq[g] <= acked[g]
  <2>1. releaseSeq[g] = 0 \/ <<g, releaseSeq[g]>> \in told[sink] \cup replay
    BY <1>2 DEF LinkInv, RegInv, SinkInv, SinkOK, InHand
  <2>2. CASE releaseSeq[g] = 0
    BY <2>2 DEF LinkInv, FlushInv, SeqTypeOK
  <2>3. CASE <<g, releaseSeq[g]>> \in told[sink] \cup replay
    <3>1. <<g, releaseSeq[g]>> \in tickets
      BY <2>3 DEF LinkInv, CarryInv, ToldInv
    <3> QED BY <3>1 DEF LinkInv, FlushInv, BoundInv
  <2> QED BY <2>1, <2>2, <2>3
<1> QED BY <1>1, <1>3

\* Where a Flush call goes.
LEMMA FlushMoves ==
  ASSUME SeqTypeOK, [AcctNext]_allVars, NEW f \in FlushCall
  PROVE  \/ flushPc'[f] = flushPc[f]
         \/ /\ flushPc[f] = "idle" /\ flushPc'[f] = "poll" /\ sink \in Sink
            /\ \E c \in Drainer : callPc[c] = "ok"
            /\ UNCHANGED <<vars, latest, acked>>
         \/ flushPc[f] = "poll" /\ flushPc'[f] = "ok" /\ Dirty = {} /\ UNCHANGED <<vars, acked>>
         \/ flushPc[f] = "poll" /\ flushPc'[f] = "timedOut"
<1> DEFINE Same == flushPc' = flushPc
<1> USE DEF SeqTypeOK
<1>1. RunStep => Same
  BY DEF RunStep, RunReturn, RunWake, RunForce, RunTimer, FlushSent, RunRearm,
     SomeSend, SendOk, SendFail, flushVars
<1>2. signal \/ StartLifetime \/ CancelLifetime => Same
  BY DEF signal, StartLifetime, CancelLifetime, flushVars
<1>3. ASSUME NEW d \in Request, EndTellsFlusher(d) PROVE Same
  BY <1>3 DEF EndTellsFlusher, MarkDirty, flushVars, flusherVars
<1>4. ASSUME ~FlusherInternal PROVE Same
  BY <1>3, <1>4 DEF AcctNext, HomeAdmits, Dispatch, EndQuietly, AttachSink, DetachSink,
     Draining, allVars, flusherVars, flushVars
<1>5. ASSUME FlusherInternal, NEW e \in FlushCall, FlushStart(e), sink \in Sink,
             \E c \in Drainer : callPc[c] = "ok"
      PROVE  \/ flushPc'[f] = flushPc[f]
             \/ /\ flushPc[f] = "idle" /\ flushPc'[f] = "poll" /\ sink \in Sink
                /\ \E c \in Drainer : callPc[c] = "ok"
                /\ UNCHANGED <<vars, latest, acked>>
  BY <1>5 DEF FlusherInternal, FlushStart, markVars
<1>6. ASSUME FlusherInternal, NEW e \in FlushCall, FlushDone(e)
      PROVE  \/ flushPc'[f] = flushPc[f]
             \/ /\ flushPc[f] = "poll" /\ flushPc'[f] = "ok" /\ Dirty = {}
                /\ UNCHANGED <<vars, acked>>
  BY <1>6 DEF FlusherInternal, FlushDone, markVars
<1>7. ASSUME NEW e \in FlushCall, FlushTimeout(e)
      PROVE  flushPc'[f] = flushPc[f] \/ (flushPc[f] = "poll" /\ flushPc'[f] = "timedOut")
  BY <1>7 DEF FlushTimeout
<1> QED BY <1>1, <1>2, <1>4, <1>5, <1>6, <1>7 DEF FlusherInternal

LEMMA EndedStep ==
  ASSUME LinkInv, EndedInv, [AcctNext]_allVars
  PROVE  EndedInv'
<1> SUFFICES ASSUME NEW f \in FlushCall PROVE EndedOK(f)'
  BY DEF EndedInv
<1>0. [Next]_vars /\ TypeOK /\ MapInv /\ [FlusherStep]_flusherVars /\ SeqTypeOK
  BY RegistrySteps, FlusherSteps DEF LinkInv, RegInv, FlushInv
<1>1. EndedOK(f)
  BY DEF EndedInv
<1>2. \A g \in Group : /\ latest[g] \in Nat /\ acked[g] \in Nat /\ releaseSeq[g] \in Nat
                       /\ latest'[g] \in Nat /\ acked'[g] \in Nat
                       /\ latest[g] <= latest'[g] /\ acked[g] <= acked'[g]
  <2>1. SeqTypeOK'
    BY <1>0, SeqTypeStep, AccountingAssumption, FlusherAssumption
  <2> QED BY <1>0, <2>1, SeqGrows, AccountingAssumption, FlusherAssumption DEF SeqTypeOK, TypeOK
<1>3. ASSUME flushPc[f] # "idle"
      PROVE  Halted' /\ scopes' = {} /\ releaseSeq' = releaseSeq
  <2>1. Halted /\ scopes = {}
    BY <1>1, <1>3 DEF EndedOK
  <2>2. Halted' /\ scopes' = {}
    BY <1>0, <2>1, HaltedStep DEF OnlyShrinks
  <2>3. \A d \in Request : ~EndMark(d)
    BY <1>0, <2>1 DEF EndMark, MapInv, MapOK
  <2> QED BY <1>0, <2>2, <2>3, ReleasedStep
<1>4. CASE flushPc'[f] = flushPc[f]
  BY <1>1, <1>2, <1>3, <1>4 DEF EndedOK
<1>5. CASE flushPc[f] = "poll" /\ flushPc'[f] = "timedOut"
  BY <1>1, <1>2, <1>3, <1>5 DEF EndedOK
<1>6. CASE /\ flushPc[f] = "idle" /\ flushPc'[f] = "poll" /\ sink \in Sink
           /\ \E c \in Drainer : callPc[c] = "ok"
           /\ UNCHANGED <<vars, latest, acked>>
  <2>1. /\ Halted /\ scopes = {}
        /\ \A g \in Group : releaseSeq[g] <= latest[g] \/ releaseSeq[g] <= acked[g]
    BY <1>6, DrainedIsTold
  <2>2. UNCHANGED <<state, pc, scopes, releaseSeq, latest, acked>>
    BY <1>6 DEF vars, lifeVars, dispVars, relVars
  <2> QED BY <1>6, <2>1, <2>2 DEF EndedOK, Halted, MuFree
<1>7. CASE flushPc[f] = "poll" /\ flushPc'[f] = "ok" /\ Dirty = {} /\ UNCHANGED <<vars, acked>>
  <2>1. \A g \in Group : releaseSeq[g] <= latest[g] \/ releaseSeq[g] <= acked[g]
    BY <1>1, <1>7 DEF EndedOK
  <2>2. \A g \in Group : latest[g] <= acked[g]
    <3>1. \A g \in Group : dirty[g] = 0
      BY <1>7 DEF Dirty
    <3>2. \A g \in Group : latest[g] > acked[g] => dirty[g] = latest[g]
      BY DEF LinkInv, FlushInv, AckInv, NothingForgotten
    <3> QED BY <1>2, <3>1, <3>2
  <2>3. \A g \in Group : releaseSeq'[g] <= acked'[g]
    <3>1. releaseSeq' = releaseSeq /\ acked' = acked
      BY <1>3, <1>7
    <3> QED BY <1>2, <2>1, <2>2, <3>1
  <2> QED BY <1>3, <1>7, <2>3 DEF EndedOK
<1> QED BY <1>0, <1>4, <1>5, <1>6, <1>7, FlushMoves

\* Drain, then Flush, leaves Home with every slot back that was really used
\* (GracefulEndReturnsSlots), for any number of dispatches, lifetimes and failed sends.
THEOREM GracefulEndSound == AcctSpec => []GracefulEndReturnsSlots
<1>1. AcctInit => EndedInv
  BY DEF AcctInit, FlusherInit, EndedInv, EndedOK
<1>2. LinkInv /\ EndedInv => GracefulEndReturnsSlots
  <2> SUFFICES ASSUME LinkInv, EndedInv, NEW f \in FlushCall, flushPc[f] = "ok", NEW g \in Group
               PROVE  homeSeq[g] = releaseSeq[g]
    BY DEF GracefulEndReturnsSlots
  <2>1. releaseSeq[g] <= acked[g] /\ acked[g] <= homeSeq[g] /\ homeSeq[g] <= latest[g]
        /\ latest[g] <= releaseSeq[g]
    BY DEF EndedInv, EndedOK, LinkInv, FlushInv, AckInv, BoundInv, ToldInv
  <2>2. releaseSeq[g] \in Nat /\ acked[g] \in Nat /\ homeSeq[g] \in Nat /\ latest[g] \in Nat
    BY DEF LinkInv, RegInv, TypeOK, FlushInv, SeqTypeOK
  <2> QED BY <2>1, <2>2
<1> QED BY <1>1, <1>2, LinkInit, LinkStep, EndedStep, PTL DEF AcctSpec
=============================================================================
