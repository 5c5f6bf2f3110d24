-------------------------- MODULE MCHomeAccounting --------------------------
(***************************************************************************)
(* Model-checking instance of HomeAccounting.                              *)
(***************************************************************************)
EXTENDS HomeAccounting, TLC

Symmetry == Permutations(Request)
=============================================================================
