----------------------- MODULE MCRegistryObservation -----------------------
(***************************************************************************)
(* Model-checking instance of the registry with its observation: what is   *)
(* asked about shutdown, releases and snapshots is asked in one run.       *)
(***************************************************************************)
EXTENDS RegistryObservation

OneCloser == {CHOOSE c \in Closer : TRUE}
Unbound == \A d \in Request : pc[d] # "binding" /\ resource[d] = "none"

Called == {c \in Caller : callPc[c] # "idle"}
Started == {d \in Request : pc[d] # "new"}
Accounted == {group[d] : d \in Request} \cap Group
NoSinkUsed == sink = NoSink /\ \A k \in Sink : told[k] = {}
Unobserved == observedBarrier = 0 /\ snapshotRevision = 0

\* Who takes part: one dispatch against all calls; or two dispatches against two calls
\* of different kinds; or two dispatches that release to sinks, without a call; or two
\* dispatches, barriers and snapshots.  Each part is closed under prefixes, so it is
\* explored whole.
Cast ==
    \/ /\ Unobserved /\ NoSinkUsed /\ Accounted = {}
       /\ \/ Cardinality(Started) <= 1
          \/ Called \subseteq Drainer \cup Settler
          \/ Called \subseteq Drainer \cup OneCloser
    \/ Unobserved /\ Called = {} /\ Unbound
    \/ NoSinkUsed /\ Called = {} /\ Unbound /\ Accounted = {}
=============================================================================
