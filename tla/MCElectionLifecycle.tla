------------------------ MODULE MCElectionLifecycle -------------------------
EXTENDS ElectionLifecycle, TLC

(* Elections and workers are interchangeable.                                *)
Symmetry == Permutations(Election) \cup Permutations(Worker)
=============================================================================
