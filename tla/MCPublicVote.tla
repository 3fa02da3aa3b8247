---------------------------- MODULE MCPublicVote ----------------------------
(* Two candidates, and the elections whose pages differ.                    *)
EXTENDS PublicVote
CONSTANTS a, b
MCCandidate == {a, b}
Of(mode, type, payment) == [mode |-> mode, type |-> type, payment |-> payment]
MCKind == {Of("public", "single", "free"), Of("public", "single", "paid"),
           Of("public", "ranked", "free"), Of("public", "multiple", "paid"),
           Of("private", "single", "free")}
MCAmount == {2, 3}
=============================================================================
