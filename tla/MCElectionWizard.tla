-------------------------- MODULE MCElectionWizard --------------------------
EXTENDS ElectionWizard

(* A private election judged by a jury, and one open to candidacies.       *)
MCForm ==
    {[mode |-> "private", weighted |-> TRUE, accepts |-> FALSE, cats |-> FALSE],
     [mode |-> "public", weighted |-> FALSE, accepts |-> TRUE, cats |-> TRUE]}

(* A file of two candidates, and one with an address missing that is       *)
(* longer than the threshold.                                              *)
MCFile ==
    {{Candidate(1, TRUE, FALSE), Candidate(2, TRUE, FALSE)},
     {Candidate(0, FALSE, FALSE), Candidate(1, TRUE, FALSE), Candidate(2, FALSE, FALSE)}}
=============================================================================
