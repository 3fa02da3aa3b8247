--------------------------- MODULE PublishedResults ---------------------------
(***************************************************************************)
(* The results of one election as its readers see them: the rows that the  *)
(* last calculation committed, and what is promised of them.               *)
(***************************************************************************)
EXTENDS Naturals

CONSTANT Vote       \* votes of the election
VARIABLE rows       \* the results rows: the votes they count, and their generation

VoteStates == {"none", "begun", "completed", "fraud_suspected"}
Count == [Vote -> VoteStates]
NoRows == [made |-> FALSE, of |-> [v \in Vote |-> "none"], generation |-> 0]

Age(s) == CASE s \in {"none", "begun"} -> 0 [] s = "completed" -> 1 [] OTHER -> 2

(* Published results never go back to an older count, even when the lock     *)
(* expires under a slow calculation and a second one overtakes it: the       *)
(* unique index refuses the rows of the one that counted first.              *)
ResultsNeverRegress ==
  [][rows.made => \A v \in Vote : Age(rows'.of[v]) >= Age(rows.of[v])]_rows

===============================================================================
