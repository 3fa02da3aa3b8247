--------------------------- MODULE MCVotePayment ----------------------------
EXTENDS VotePayment, TLC

CONSTANT v1

(* The first vote buys two voices, the second one.                           *)
MCQuantity == [v \in Vote |-> IF v = v1 THEN 2 ELSE 1]

(* Rows and workers are interchangeable; votes are not, they differ in price.*)
Symmetry == Permutations(Tx) \cup Permutations(Worker)
=============================================================================
