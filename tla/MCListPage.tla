----------------------------- MODULE MCListPage -----------------------------
(* Two rows of two elections, one row to a page, on every page.             *)
EXTENDS ListPage, TLC
CONSTANTS ada, bob
MCPage == Pages
MCMoves == [p \in Pages |-> CASE p = "candidats" -> 5
                              [] p \in {"scrutins", "revenus", "retraits", "manager",
                                        "categories", "home", "open"} -> 3
                              [] OTHER -> 2]
MCLost == [p \in Pages |-> 1]
MCCalls == [p \in Pages |-> IF p = "candidats" THEN 2 ELSE 3]
MCFilter == {"pending", "ongoing", "active", "completed", "unread", "admin", "create"}
MCGroup == {"g1", "g2"}
MCText == {"found"}
MCEmail == {ada, bob}
MCEmails == Permutations(MCEmail)

(* On Candidats, two addresses and more than three moves where nothing is   *)
(* lost, imported or filtered.                                              *)
Unfiltered(v) == v.q.status = "all" /\ v.q.group = "all" /\ v.q.search = "" /\ v.typed = ""
Plain == lost = 0 /\ jobs = {} /\ Unfiltered(view)
MCOneAddress == Cardinality({r.email : r \in server} \ {"none"}) <= 1 \/ Plain

(* The fourth and the fifth are made where an application waited and its    *)
(* approval is under way: enough to edit the candidate that it became and   *)
(* to have it approved again.                                               *)
MCGoesOn ==
    page = "candidats" /\ moves' > moves /\ moves >= 3 =>
        /\ Plain /\ Unfiltered(view')
        /\ \E r \in server : r.id = 2 /\ r.tab = "applications"
        /\ \E c \in calls : c.op = "approveApplication"
        /\ \A c \in calls' : c.op \in {"load", "approveApplication", "save"}
=============================================================================
