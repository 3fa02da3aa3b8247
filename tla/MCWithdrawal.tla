---------------------------- MODULE MCWithdrawal ----------------------------
EXTENDS Withdrawal, TLC

(* Requests and reviewers are interchangeable.                               *)
Symmetry == Permutations(Request) \cup Permutations(Reviewer)
=============================================================================
