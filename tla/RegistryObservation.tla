------------------------ MODULE RegistryObservation ------------------------
(***************************************************************************)
(* The in-flight snapshots of the registry                                 *)
(* (sdk/cliproxy/executionregistry/observation.go).  Home sends barrier    *)
(* revisions; a snapshot that carries barrier b tells Home that every      *)
(* dispatch begun before b was observed is either in the snapshot or over. *)
(* A dispatch whose Home response is still unresolved is in neither the    *)
(* snapshot nor the past, so FreezeInFlight withholds the barrier while    *)
(* one is pending.                                                         *)
(***************************************************************************)
EXTENDS ExecutionRegistry

CONSTANTS
    MaxBarrier,   \* bound on the barrier revisions Home sends
    MaxRevision   \* bound on the number of snapshots taken

ASSUME ObservationAssumption == MaxBarrier \in Nat /\ MaxRevision \in Nat

VARIABLES
    snapshotRevision,        \* r.snapshotRevision
    observedBarrier,         \* r.observedBarrier
    pendingBarrierSequence,  \* r.pendingBarrierSequence
    publishedBarrier,        \* r.publishedBarrier
    freeze,                  \* the latest Freeze returned
    begunBefore              \* history: dispatches begun when barrier b was accepted

obsVars == <<snapshotRevision, observedBarrier, pendingBarrierSequence, publishedBarrier,
             freeze, begunBefore>>

ObsTypeOK ==
    /\ snapshotRevision \in Nat
    /\ observedBarrier \in 0..MaxBarrier
    /\ pendingBarrierSequence \in Nat
    /\ publishedBarrier \in 0..MaxBarrier
    /\ freeze \in [revision : Nat, barrier : 0..MaxBarrier, executions : SUBSET Request]
    /\ begunBefore \in [0..MaxBarrier -> SUBSET Request]

ObsInit ==
    /\ Init
    /\ snapshotRevision = 0
    /\ observedBarrier = 0
    /\ pendingBarrierSequence = 0
    /\ publishedBarrier = 0
    /\ freeze = [revision |-> 0, barrier |-> 0, executions |-> {}]
    /\ begunBefore = [b \in 0..MaxBarrier |-> {}]

\* BeginDispatch has given the dispatch an id.
Begun(d) == id[d] # 0

\* A revision that is not newer than the one observed is ignored.
ObserveBarrier(revision) ==
    /\ MuFree
    /\ revision > observedBarrier
    /\ observedBarrier' = revision
    /\ pendingBarrierSequence' = next
    /\ begunBefore' = [begunBefore EXCEPT ![revision] = {d \in Request : Begun(d)}]
    /\ UNCHANGED <<vars, snapshotRevision, publishedBarrier, freeze>>

\* A pending dispatch that was begun before the observed barrier holds it back.
BarrierBlocked == \E d \in pending : id[d] <= pendingBarrierSequence

\* Mutant: only dispatches begun strictly before the last one hold the barrier back.
NextPublishedOffByOne ==
    IF observedBarrier > publishedBarrier
       /\ ~\E d \in pending : id[d] < pendingBarrierSequence
    THEN observedBarrier
    ELSE publishedBarrier

NextPublished ==
    IF observedBarrier > publishedBarrier /\ ~BarrierBlocked
    THEN observedBarrier
    ELSE publishedBarrier

FreezeInFlight ==
    /\ MuFree
    /\ snapshotRevision < MaxRevision
    /\ snapshotRevision' = snapshotRevision + 1
    /\ publishedBarrier' = NextPublished
    /\ freeze' = [revision |-> snapshotRevision + 1, barrier |-> NextPublished,
                  executions |-> scopes]
    /\ UNCHANGED <<vars, observedBarrier, pendingBarrierSequence, begunBefore>>

ObsNext ==
    \/ Next /\ UNCHANGED obsVars
    \/ \E b \in 1..MaxBarrier : ObserveBarrier(b)
    \/ FreezeInFlight

ObsSpec == ObsInit /\ [][ObsNext]_<<vars, obsVars>>

\* Nothing obliges Home to send barriers or the publisher to take snapshots.
ObsFairSpec == ObsSpec /\ Fairness

(***************************************************************************)
(* Properties                                                              *)
(***************************************************************************)

\* The dispatch holds nothing and will never appear in a later snapshot.
Over(d) == pc[d] \in {"ended", "rejected"} \/ endPc[d] = "done"

\* A snapshot that carries barrier b accounts for every dispatch begun before b was
\* observed: it lists it, or the dispatch is over.  Home may therefore write off
\* whatever it had admitted before b and does not find in the snapshot.
SnapshotCoversBarrier ==
    \A d \in begunBefore[freeze.barrier] : d \in freeze.executions \/ Over(d)
=============================================================================
