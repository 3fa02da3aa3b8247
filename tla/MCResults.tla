----------------------------- MODULE MCResults ------------------------------
EXTENDS Results, TLC

(* Votes, jobs and workers are interchangeable.                              *)
Symmetry == Permutations(Vote) \cup Permutations(Job) \cup Permutations(Worker)
=============================================================================
