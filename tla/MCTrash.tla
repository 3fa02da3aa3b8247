------------------------------- MODULE MCTrash -------------------------------
EXTENDS Trash, TLC

(* Requests are interchangeable.                                             *)
Symmetry == Permutations(Request)
=============================================================================
