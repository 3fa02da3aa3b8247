------------------------------ MODULE OrgLists ------------------------------
(***************************************************************************)
(* The list pages of an organisation's dashboard (pages/dashboards/        *)
(* DashboardAdminOrg).  Of each page: what an answer makes of the view     *)
(* (Load), what a change of the controls asks (Effects), where the         *)
(* controls lead (Bar), the calls its rows and buttons offer (Rows).       *)
(* The lists that only fill a select or a modal are left out.              *)
(***************************************************************************)
EXTENDS ListView

CONSTANT Group    \* elections of the organisation

-----------------------------------------------------------------------------
(* Candidats: the candidates, and the applications received.               *)
CandidatsView == FreshView(Asking("main", "all"), FALSE)

CandidatsLoad(v, c) == IF c.status = "ok" THEN Show(v, c) ELSE Cleared(v, c)

CandidatsEffects(v, w) == Dual(v, w)

(* A rejection without a reason is sent too, and refused.                  *)
CandidatsHandlers(v, r) ==
    IF v.q.tab = "applications"
    THEN [approve |-> On("approveApplication", r, v),
          reject  |-> {On("rejectApplication", r, v), On("rejectBlank", r, v)}]
    ELSE [approve |-> On("approve", r, v), reject |-> {On("reject", r, v), On("rejectBlank", r, v)},
          delete  |-> On("delete", r, v)]

(* The file is queued for the election chosen; its status is then polled,  *)
(* and page 1 loaded, whatever page is shown.                              *)
CandidatsImport(v) ==
    IF v.q.group = "all" \/ v.q.tab = "applications" THEN {}
    ELSE {Do("import", {}, <<Paged(v, 1).q>>, Free)}

CandidatsBar(v) ==
    {[v EXCEPT !.q.tab = t] : t \in Tab} \cup Elections(v, Group) \cup Types(v)
        \cup Selects(v, {"pending", "approved", "rejected"}) \cup {Reset(v)}

CandidatsApplications(v) ==
    UNION {LET h == CandidatsHandlers(v, r) IN {h.approve} \cup h.reject
           : r \in {x \in Shown(v) : x.status = "pending"}}

(* Rows and buttons: approve and reject while pending; edit and delete.    *)
CandidatsRows(v) ==
    IF v.loading THEN {}
    ELSE IF v.q.tab = "applications" THEN CandidatsApplications(v)
    ELSE UNION {LET h == CandidatsHandlers(v, r)
                IN  (IF r.status = "pending" THEN {h.approve} \cup h.reject ELSE {})
                        \cup {h.delete, On("save", r, v)} : r \in Shown(v)}

CandidatsTurns(v) == IF v.loading \/ v.last <= 1 THEN {} ELSE Clamped(v)

(* The modal that creates a candidate.                                     *)
CandidatsModal(v) == IF v.q.tab = "main" THEN {Do("create", {}, <<v.q>>, Free)} ELSE {}

-----------------------------------------------------------------------------
(* Electeurs: rows are selected, verified or sent their codes in bulk.     *)
ElecteursView == FreshView(Asking("main", "all"), FALSE)

(* A mutant: the rows change, the selection stays.                         *)
ElecteursLoad_KeepsSelection(v, c) == IF c.status = "ok" THEN Show(v, c) ELSE Cleared(v, c)

ElecteursLoad(v, c) ==
    IF c.status = "ok" THEN [Show(v, c) EXCEPT !.selected = {}] ELSE Cleared(v, c)

ElecteursEffects(v, w) == Dual(v, w)

Toggled(s, id) == IF id \in s THEN s \ {id} ELSE s \cup {id}

ElecteursSelect(v) ==
    IF v.loading THEN {}
    ELSE LET ids == {r.id : r \in Shown(v)} IN
         {[v EXCEPT !.selected = Toggled(v.selected, id)] : id \in ids} \cup
         (IF ids = {} THEN {}
          ELSE {[v EXCEPT !.selected = IF Cardinality(v.selected) = Cardinality(ids) THEN {} ELSE ids]})

(* To the selection, or to every elector of the election.                  *)
ElecteursSendCodes(v) ==
    IF v.q.group = "all" \/ <<"codes", 0>> \in v.busy THEN {}
    ELSE {Do("codes", v.selected, <<>>, <<"codes", 0>>)}

ElecteursVerify(v) ==
    IF v.q.group = "all" \/ v.selected = {} \/ <<"verify", 0>> \in v.busy THEN {}
    ELSE {Do("verify", v.selected, <<v.q>>, <<"verify", 0>>)}

(* Both empty the selection once answered.                                 *)
ElecteursSent(v) == [v EXCEPT !.selected = {}]

(* The import is announced, and page 1 loaded, as soon as it is queued.    *)
ElecteursImport(v) ==
    IF v.q.group = "all" THEN {} ELSE {Do("importNow", {}, <<Paged(v, 1).q>>, Free)}

(* A select puts page 1 with it (handleFilterChange); the search does not. *)
ElecteursBar(v) ==
    FirstPage(Selects(v, {"pending", "verified"}) \cup Elections(v, Group)) \cup Types(v) \cup {Reset(v)}

ElecteursRows(v) ==
    IF v.loading THEN {} ELSE UNION {{On("save", r, v), On("delete", r, v)} : r \in Shown(v)}

ElecteursTurns(v) == IF v.loading \/ v.last <= 1 THEN {} ELSE Clamped(v)

-----------------------------------------------------------------------------
(* Scrutins: an election's menu offers what its status allows.  Group g2   *)
(* stands for the elections that have received votes.                      *)
HasVotes(r) == r.group # "g1"

ScrutinsActions(r) ==
    (IF r.status = "draft" THEN {"publish"} ELSE {}) \cup
    (IF r.status = "published" THEN {"start"} ELSE {}) \cup
    (IF r.status = "ongoing" THEN {"pause"} ELSE {}) \cup
    (IF r.status = "paused" THEN {"resume"} ELSE {}) \cup
    (IF r.status \in {"ongoing", "paused"} THEN {"end"} ELSE {}) \cup
    (IF HasVotes(r) THEN {} ELSE {"delete"})

ScrutinsView == FreshView(Asking("main", "all"), TRUE)

(* The page shown is the page of the answer.                               *)
ScrutinsLoad(v, c) ==
    IF c.status = "ok" THEN [Show(v, c) EXCEPT !.q.page = c.q.page] ELSE Kept(v)

ScrutinsEffects(v, w) == Given(v, w)

(* actionLoading holds one election: the last that started an action.      *)
ScrutinsStart(v, a) == [v EXCEPT !.busy = {a.mark}]
ScrutinsDone(v)     == [v EXCEPT !.busy = {}]

handleAction(op, r, v) == Do(op, {r.id}, <<v.q>>, <<"action", r.id>>)

(* Every control puts page 1: the filter already chosen does it too, and   *)
(* loads nothing.                                                          *)
ScrutinsBar(v) ==
    FirstPage(Selects(v, {"draft", "published", "ongoing", "paused", "closed"}) \cup Types(v))
        \cup {Reset(v)}

ScrutinsRows(v) ==
    IF v.loading THEN {}
    ELSE UNION {{handleAction(op, r, v) : op \in ScrutinsActions(r)}
                : r \in {x \in Shown(v) : <<"action", x.id>> \notin v.busy}}

ScrutinsTurns(v) ==
    IF v.loading \/ v.last <= 1 THEN {}
    ELSE {GoTo(v, w.q.page) : w \in PrevNext(v, v.q.page # 1, v.q.page # v.last)}

-----------------------------------------------------------------------------
(* Resultats: the results of one election, chosen once the elections are   *)
(* there: its detail is asked first and, if it is closed, its results.     *)
ResultatsView == FreshView(Asking("main", "none"), FALSE)

(* The election of the URL if the organisation has it, or the first.       *)
ResultatsElections(v, g) == Effects(v, [v EXCEPT !.q.group = g])

isClosed(status) == status \in {"closed", "completed"}

(* The rows are dropped when a load starts, the election's detail is not.  *)
ResultatsStart(v) == [v EXCEPT !.rows["main"] = <<>>, !.notReady = FALSE]

ResultatsDetail(v, c) == [v EXCEPT !.detail = c.ans.detail]

(* The detail of an election not closed, or its results: no results (404)  *)
(* is "not ready" too.  What that hides stays hidden until a load starts.  *)
ResultatsLoad(v, c) ==
    CASE c.status = "ok" /\ c.op = "load" ->
           [Show(v, c) EXCEPT !.detail = c.ans.detail, !.rows["main"] = <<>>, !.notReady = TRUE]
      [] c.status = "ok" /\ c.op # "load" ->
           [Show(v, c) EXCEPT !.rows["main"] = IF v.notReady THEN <<>> ELSE c.ans.rows,
                              !.notReady = @ \/ c.ans.rows = <<>>]
      [] OTHER -> Kept(v)

ResultatsEffects(v, w) == Effects(v, w)

(* Recalculated in the background: the results are read again four seconds *)
(* after the order, for the election of then.                              *)
handleRecalculate(v) == Do("calculate", {}, <<v.q>>, <<"calculate", 0>>)

ResultatsBar(v) == {[v EXCEPT !.q.group = g] : g \in Group}

(* The button goes by the detail shown, the call by the election chosen;   *)
(* it stays once the results are there, to calculate them again.           *)
ResultatsRows(v) ==
    IF v.detail = "closed" /\ <<"calculate", 0>> \notin v.busy THEN {handleRecalculate(v)} ELSE {}

-----------------------------------------------------------------------------
(* Revenus: the transactions, and below them the withdrawals.              *)
RevenusView == FreshView(Asking("main", "all"), TRUE)

RevenusLoad(v, c) == IF c.status = "ok" THEN Show(v, c) ELSE Kept(v)

RevenusEffects(v, w) == Effects(v, w)

RevenusBar(v) == Selects(v, {"completed", "failed"})

RevenusTurns(v) == Clamped(v)

RetraitsLoad(v, c) == IF c.status = "ok" THEN Show(v, c) ELSE Kept(v)

RetraitsTurns(v) == IF v.total > 0 THEN Clamped(v) ELSE {}

(* The withdrawal modal, once it has created a request.                    *)
RetraitsModal(v) == {Do("create", {}, <<v.q>>, Free)}

-----------------------------------------------------------------------------
(* Equipe: the staff of the elections, one list per election fetched at    *)
(* once, each error an empty list; and the members of the organisation.    *)
StaffView == FreshView(Asking("main", "all"), TRUE)

(* The elections first: without them no list is asked.                     *)
StaffElections(v) == Change([v EXCEPT !.loading = FALSE], <<v.q>>)

StaffLoad(v, c) ==
    [Show(v, c) EXCEPT !.rows["main"] =
        IF c.status = "ok" THEN c.ans.rows ELSE SelectSeq(c.ans.rows, LAMBDA r : r.group \in c.part)]

StaffEffects(v, w) == Effects(v, w)

StaffHandlers(v, r) == {On("delete", r, v), On("save", r, v)}

(* The search filters what is loaded.                                      *)
StaffBar(v) == Elections(v, Group) \cup {Reset(v)}

StaffRows(v) ==
    {Do("create", {}, <<v.q>>, Free)} \cup
    (IF v.loading THEN {} ELSE UNION {StaffHandlers(v, r) : r \in Shown(v)})

MembersLoad(v, c) == IF c.status = "ok" THEN Show(v, c) ELSE Kept(v)

MembersHandlers(v, r) == {On("delete", r, v), On("save", r, v)}

(* The whole section is a spinner while it loads; the owner stays.         *)
MembersRows(v) ==
    IF v.loading THEN {}
    ELSE {Do("create", {}, <<v.q>>, Free)} \cup
         UNION {MembersHandlers(v, r) : r \in {x \in Shown(v) : x.status # "owner"}}

-----------------------------------------------------------------------------
(* Jurys: as the staff, for the elections with a weighted vote.            *)
JurysView == FreshView(Asking("main", "all"), TRUE)

JurysLoad(v, c) ==
    [Show(v, c) EXCEPT !.rows["main"] =
        IF c.status = "ok" THEN c.ans.rows ELSE SelectSeq(c.ans.rows, LAMBDA r : r.group \in c.part)]

JurysEffects(v, w) == Effects(v, w)

JurysHandlers(v, r) == {On("delete", r, v), On("save", r, v)}

JurysBar(v) == Elections(v, Group) \cup {Reset(v)}

JurysRows(v) ==
    {Do("create", {}, <<v.q>>, Free)} \cup
    (IF v.loading THEN {} ELSE UNION {JurysHandlers(v, r) : r \in Shown(v)})

-----------------------------------------------------------------------------
(* AuditLogs: read only; each control puts page 1 with it.                 *)
AuditLogsLoad(v, c) == IF c.status = "ok" THEN Show(v, c) ELSE Kept(v)

AuditLogsEffects(v, w) == Batched(v, w)

AuditLogsBar(v) == FirstPage(Selects(v, {"create", "delete"}) \cup Types(v)) \cup {Reset(v)}

AuditLogsTurns(v) == Clamped(v)

-----------------------------------------------------------------------------
(* Categories: read only; CategoryManager changes those of one election.   *)
CategoriesLoad(v, c) == IF c.status = "ok" THEN Show(v, c) ELSE Emptied(v, c)

CategoriesEffects(v, w) == Effects(v, w)

CategoriesBar(v) == Selects(v, {"active", "inactive"}) \cup Types(v)

CategoriesTurns(v) == IF v.loading \/ v.total = 0 THEN {} ELSE Clamped(v)

CategoryManagerLoad(v, c) == IF c.status = "ok" THEN Show(v, c) ELSE Kept(v)

(* Adding and renaming share one flag, deleting has none.                  *)
CategoryManagerHandlers(v, r) ==
    (IF <<"submit", 0>> \in v.busy THEN {} ELSE {Do("save", {r.id}, <<v.q>>, <<"submit", 0>>)})
        \cup {On("delete", r, v)}

CategoryManagerAdd(v) ==
    IF <<"submit", 0>> \in v.busy THEN {} ELSE {Do("create", {}, <<v.q>>, <<"submit", 0>>)}

CategoryManagerRows(v) ==
    IF v.loading THEN {} ELSE UNION {CategoryManagerHandlers(v, r) : r \in Shown(v)}
=============================================================================
