-------------------------- MODULE MCRefreshJournal --------------------------
(***************************************************************************)
(* Model-checking instances of RefreshJournal.  Calls are interchangeable, *)
(* and so are the tokens the credential store does not start with.         *)
(***************************************************************************)
EXTENDS RefreshJournal, TLC

Symmetry == Permutations(Caller) \cup Permutations(Token \ {First})
=============================================================================
