--------------------------- MODULE MCHomeExecution ---------------------------
(* Model-checking instances of HomeExecution.                              *)
EXTENDS HomeExecution, TLC

\* Credentials are interchangeable; used where no liveness is checked.
AuthSymmetry == Permutations(Auth)

\* A first call with all its rounds, and a second one of a single round that finds
\* what the first has left in the session, with Home staying enabled.
Cast == calls <= 1 \/ (c.attempt = 0 /\ homeOn)
=============================================================================
