-------------------------- MODULE MCReleaseFlusher --------------------------
(***************************************************************************)
(* Model-checking instance of ReleaseFlusher.                              *)
(***************************************************************************)
EXTENDS ReleaseFlusher

First == CHOOSE g \in Group : TRUE

\* Two sequences of one group and one of the other.
Cast == \A g \in Group \ {First} : latest[g] <= 1
=============================================================================
