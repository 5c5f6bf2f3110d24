--------------------------- MODULE HomeAccounting ---------------------------
(***************************************************************************)
(* One registry, its release flusher and Home put together the way         *)
(* runHomeSubscriber does (sdk/cliproxy/service_home.go): the flusher's    *)
(* MarkDirty is the registry's release sink, Home lifetimes come and go    *)
(* underneath, and the registry ends either gracefully (Drain, then Flush, *)
(* then the sink is detached) or abandoned (the sink is detached first).   *)
(*                                                                         *)
(* Home itself is outside the repository.  It admits a dispatch of a group *)
(* while fewer than Limit slots are in use by its account, which is the    *)
(* number admitted minus the largest release sequence received.            *)
(***************************************************************************)
EXTENDS ExecutionRegistry, ReleaseFlusher

CONSTANTS
    Limit,         \* Home's concurrency limit of a group
    NotAdmitted    \* Home has not answered the dispatch

ASSUME AccountingAssumption ==
    /\ Limit \in Nat
    /\ NotAdmitted \notin Group \cup {Unaccounted}
    /\ MaxSeq >= Cardinality(Request)

VARIABLES
    answer,     \* Home: what it answered the dispatch
    admitted    \* Home: accounted dispatches admitted per group

homeVars == <<answer, admitted>>
allVars == <<vars, flusherVars, homeVars>>

AcctInit ==
    /\ Init
    /\ FlusherInit
    /\ answer = [d \in Request |-> NotAdmitted]
    /\ admitted = [g \in Group |-> 0]

\* Home's account of the slots of g in use.
Account(g) == admitted[g] - homeSeq[g]

(***************************************************************************)
(* Home                                                                    *)
(***************************************************************************)

\* Home answers a dispatch: not accounted, or admitted under the group's limit.  The
\* answer may get lost on the way: the dispatch then ends without being installed and
\* its slot stays counted.
HomeAdmits(d) ==
    /\ pc[d] = "pending"
    /\ answer[d] = NotAdmitted
    /\ \/ /\ answer' = [answer EXCEPT ![d] = Unaccounted]
          /\ UNCHANGED admitted
       \/ \E g \in Group :
            /\ Account(g) < Limit
            /\ answer' = [answer EXCEPT ![d] = g]
            /\ admitted' = [admitted EXCEPT ![g] = @ + 1]
    /\ UNCHANGED <<vars, flusherVars>>

(***************************************************************************)
(* The proxy                                                               *)
(***************************************************************************)

\* Dispatchers get the registry from a lifetime, and a scope is installed with the group
\* of Home's answer.
Dispatch(d) ==
    /\ \/ lifetimes > 0 /\ BeginLock(d)
       \/ BeginReject(d) \/ BeginCommit(d) \/ PendingEnd(d) \/ InstallReject(d)
       \/ answer[d] # NotAdmitted /\ InstallLock(d, answer[d])
       \/ InstallCommit(d) \/ BindReject(d) \/ BindLock(d) \/ BindCommit(d)
    /\ UNCHANGED <<flusherVars, homeVars>>

EndQuietly(d) ==
    /\ \/ EndStart(d) \/ EndClose(d) \/ EndAwait(d) \/ EndMark(d) \/ EndUnmarked(d)
       \/ EndDelete(d) \/ ResourceClosed(d)
    /\ UNCHANGED <<flusherVars, homeVars>>

\* The sink End calls is the flusher.
EndTellsFlusher(d) ==
    /\ EndSink(d)
    /\ \/ /\ captured[d].sink \in Sink
          /\ MarkDirty(group[d], captured[d].seq)
       \/ /\ captured[d].sink \notin Sink
          /\ UNCHANGED flusherVars
    /\ UNCHANGED homeVars

\* The subscriber is past its Drain and Flush and on its way out.
Leaving ==
    \/ \E c \in Drainer : callPc[c] \in {"timedOut", "refused"}
    \/ \E c \in FlushCall : flushPc[c] \in {"ok", "timedOut"}

NoDrainYet == \A c \in Drainer : callPc[c] = "idle"

\* On a new registry there is nothing to replay.
AttachSink ==
    /\ next = 0 /\ sink = NoSink /\ lifetimes = 0
    /\ \E k \in Sink : SetReleaseSink(k)
    /\ UNCHANGED <<flusherVars, homeVars>>

\* The sink is taken away on the way out, or, between two lifetimes, when the registry
\* is abandoned: the next lifetime could not safely take it over.
DetachSink ==
    /\ Leaving \/ (NoDrainYet /\ lifetimes > 0 /\ runPc = "stopped")
    /\ sink # NoSink
    /\ SetReleaseSink(NoSink)
    /\ UNCHANGED <<flusherVars, homeVars>>

\* Drain is called in the graceful end, with Run still going, and on an abandoned
\* registry.
MayDrain == IF sink = NoSink THEN lifetimes > 0 ELSE runPc # "stopped" /\ ~cancelled

Draining(c) ==
    /\ callPc[c] = "idle" => MayDrain
    /\ DrainStep(c)
    /\ UNCHANGED <<flusherVars, homeVars>>

\* A lifetime follows another until the registry is drained or abandoned.  Flush follows
\* a successful graceful Drain, and Run is cancelled before a retry or after Flush.
FlusherInternal ==
    /\ \/ signal \/ RunStep
       \/ StartLifetime /\ sink \in Sink /\ NoDrainYet
       \/ CancelLifetime /\ (Leaving \/ NoDrainYet)
       \/ \E f \in FlushCall : /\ FlushStart(f)
                               /\ sink \in Sink
                               /\ \E c \in Drainer : callPc[c] = "ok"
       \/ \E f \in FlushCall : FlushDone(f) \/ FlushTimeout(f)
    /\ UNCHANGED <<vars, homeVars>>

AcctNext ==
    \/ \E d \in Request : HomeAdmits(d) \/ Dispatch(d) \/ EndQuietly(d) \/ EndTellsFlusher(d)
    \/ AttachSink \/ DetachSink
    \/ \E c \in Drainer : Draining(c)
    \/ FlusherInternal

AcctSpec == AcctInit /\ [][AcctNext]_allVars

(***************************************************************************)
(* Properties                                                              *)
(***************************************************************************)

OpenOf(g) == {d \in Request : group[d] = g /\ Open(d)}

\* Home and the proxy together keep the promise of SlotLedger: Home never counts fewer
\* slots than there are open resources, whatever is lost, repeated, delayed or retried
\* between End, the flusher and Home.  The ledger's WithinLimit follows: no
\* more than Limit resources of a group are ever open at once.
Ledger == INSTANCE SlotLedger WITH
    Holder <- Request,
    account <- [g \in Group |-> Account(g)],
    held <- [g \in Group |-> OpenOf(g)]

KeepsLedger == Ledger!Spec

\* A graceful end, Drain then Flush, leaves Home with every slot back that was really
\* used: End tells the sink before it takes the scope out of the registry, so a Drain
\* that succeeded left nothing untold, and Flush waited for all that was told.
GracefulEndReturnsSlots ==
    \A f \in FlushCall : flushPc[f] = "ok" => \A g \in Group : homeSeq[g] = releaseSeq[g]
=============================================================================
