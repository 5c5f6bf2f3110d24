--------------------------- MODULE MCAuthScheduler ---------------------------
(***************************************************************************)
(* Instances of AuthScheduler for TLC.                                     *)
(***************************************************************************)
EXTENDS AuthScheduler, TLC

Symmetry == Permutations(Models) \cup Permutations(Callers)

\* A synchronisation or the passing of time, not both: a rebuild does not look at
\* the clock, and what expires is read at the next pick.
Cast == now = 0 \/ left.syncs = MaxSyncs
=============================================================================
