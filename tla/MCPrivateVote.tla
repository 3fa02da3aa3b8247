---------------------------- MODULE MCPrivateVote ----------------------------
(* Two candidates, who are interchangeable.                                 *)
EXTENDS PrivateVote, TLC
CONSTANTS a, b
MCCandidate == {a, b}
Candidates == Permutations(MCCandidate)
=============================================================================
