------------------------------ MODULE MCVoting ------------------------------
EXTENDS Voting, TLC

(* Requests, voters and keys are interchangeable: used only by the runs that *)
(* check no liveness.                                                        *)
Symmetry == Permutations(Request) \cup Permutations(Fingerprint) \cup Permutations(Key)
=============================================================================
