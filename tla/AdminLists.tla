----------------------------- MODULE AdminLists -----------------------------
(***************************************************************************)
(* The list pages of the super administrator (pages/dashboards/            *)
(* DashboardSuperAdmin), and the two public lists of elections.  As in     *)
(* OrgLists: Load, Effects, Bar and Turns, Rows of each page.              *)
(***************************************************************************)
EXTENDS ListView

SuperView(loading) == FreshView(Asking("main", "all"), loading)

-----------------------------------------------------------------------------
(* Users, over useUsers: every change of the filters loads page 1, and so  *)
(* does every action; a page is loaded by its button.                      *)
fetchUsers(v, c) ==
    IF c.status = "ok" THEN [Show(v, c) EXCEPT !.q.page = c.q.page] ELSE Kept(v)

(* Two effects load page 1 when the page is mounted.                       *)
UsersMount(v) == <<v.q, v.q>>

(* A new object for the filters is a change, whatever it holds.            *)
applyFilters(w) == Change(Paged(w, 1), <<Criteria(w.q)>>)

goToPage(v, p) == IF p > 0 /\ p <= v.last THEN GoTo(v, p) ELSE Change(v, <<>>)

refresh(v) == <<Criteria(v.q)>>

(* The text typed is searched at once, and the selects send the debounced  *)
(* text instead, four seconds late: choosing a role drops what was typed.  *)
UsersFilters(v) ==
    {applyFilters([v EXCEPT !.typed = s, !.q.search = s]) : s \in (Text \cup {""}) \ {v.typed}} \cup
    {applyFilters([v EXCEPT !.q.status = s, !.q.search = v.debounced])
        : s \in (({"active", "suspended"} \cap Filter) \cup {"all"}) \ {v.q.status}} \cup
    {applyFilters([v EXCEPT !.q.status = "all", !.q.search = "", !.typed = ""])}

UsersHandlers(v, r) ==
    [delete  |-> Do("delete", {r.id}, refresh(v), Free),
     suspend |-> Do("suspend", {r.id}, refresh(v), Free),
     activate |-> Do("activate", {r.id}, refresh(v), Free),
     save    |-> Do("save", {r.id}, refresh(v), Free)]

(* The page is a spinner while it loads, its controls included.            *)
UsersBar(v) == IF v.loading THEN {} ELSE UsersFilters(v) \cup {Change(v, refresh(v))}

UsersRows(v) ==
    IF v.loading THEN {}
    ELSE UNION {LET h == UsersHandlers(v, r)
                IN  {h.delete, h.save, IF r.status = "suspended" THEN h.activate ELSE h.suspend}
                : r \in Shown(v)}

UsersTurns(v) ==
    IF v.loading \/ v.last <= 1 THEN {}
    ELSE {goToPage(v, w.q.page) : w \in PrevNext(v, v.q.page # 1, v.q.page # v.last)}

-----------------------------------------------------------------------------
(* ElectionsPage.                                                          *)
ElectionsLoad(v, c) == IF c.status = "ok" THEN Show(v, c) ELSE Emptied(v, c)

ElectionsEffects(v, w) == Effects(v, w)

ElectionsDelete(v, r) == On("delete", r, v)

ElectionsBar(v) == Selects(v, {"draft", "ongoing"}) \cup Types(v) \cup {Reset(v)}

ElectionsRows(v) ==
    IF v.loading THEN {} ELSE UNION {{On("save", r, v), ElectionsDelete(v, r)} : r \in Shown(v)}

ElectionsTurns(v) == IF v.loading \/ v.total = 0 THEN {} ELSE ByMeta(v)

-----------------------------------------------------------------------------
(* OrganisationsPage.                                                      *)
OrganisationsLoad(v, c) == IF c.status = "ok" THEN Show(v, c) ELSE Emptied(v, c)

OrganisationsEffects(v, w) == Effects(v, w)

OrganisationsDelete(v, r) == On("delete", r, v)

OrganisationsBar(v) == Selects(v, {"active", "suspended"}) \cup Types(v) \cup {Reset(v)}

(* suspend stands for the statuses of UpdateStatusModal.                   *)
OrganisationsRows(v) ==
    IF v.loading THEN {}
    ELSE UNION {{On("save", r, v), On("suspend", r, v), OrganisationsDelete(v, r)} : r \in Shown(v)}

OrganisationsTurns(v) == IF v.loading \/ v.total = 0 THEN {} ELSE ByMeta(v)

-----------------------------------------------------------------------------
(* SubscriptionsPage: what is active can be cancelled.                     *)
SubscriptionsLoad(v, c) == IF c.status = "ok" THEN Show(v, c) ELSE Emptied(v, c)

SubscriptionsEffects(v, w) == Effects(v, w)

SubscriptionsHandlers(v, r) == {On("save", r, v), On("cancel", r, v)}

SubscriptionsBar(v) == Selects(v, {"active", "cancelled"}) \cup Types(v) \cup {Reset(v)}

SubscriptionsRows(v) ==
    IF v.loading THEN {}
    ELSE UNION {SubscriptionsHandlers(v, r) : r \in {x \in Shown(v) : x.status = "active"}}

SubscriptionsTurns(v) == IF v.loading \/ v.total = 0 THEN {} ELSE ByPage(v)

-----------------------------------------------------------------------------
(* AuditLogsPage: read only.                                               *)
AuditsLoad(v, c) == IF c.status = "ok" THEN Show(v, c) ELSE Emptied(v, c)

AuditsEffects(v, w) == Effects(v, w)

AuditsBar(v) == Selects(v, {"create", "delete"}) \cup Types(v) \cup {Reset(v)}

AuditsTurns(v) == IF v.loading \/ v.total = 0 THEN {} ELSE ByPage(v)

-----------------------------------------------------------------------------
(* WithdrawalsPage: a request is reviewed in a modal.                      *)
WithdrawalsLoad(v, c) == IF c.status = "ok" THEN Show(v, c) ELSE Emptied(v, c)

WithdrawalsEffects(v, w) == Effects(v, w)

WithdrawalsBar(v) == Selects(v, {"pending", "approved", "paid"}) \cup Types(v)

WithdrawalsRows(v) == IF v.loading THEN {} ELSE {On("review", r, v) : r \in Shown(v)}

WithdrawalsTurns(v) == IF v.loading \/ v.total = 0 THEN {} ELSE ByMeta(v)

-----------------------------------------------------------------------------
(* NotificationsPage: what is opened is marked as read.                    *)
NotificationsLoad(v, c) == IF c.status = "ok" THEN Show(v, c) ELSE Emptied(v, c)

NotificationsEffects(v, w) == Effects(v, w)

openView(v, r) == IF r.status = "unread" THEN {On("read", r, v)} ELSE {}

NotificationsBar(v) == Selects(v, {"unread"}) \cup Types(v) \cup {Reset(v)}

NotificationsRows(v) ==
    IF v.loading THEN {} ELSE UNION {openView(v, r) \cup {On("delete", r, v)} : r \in Shown(v)}

NotificationsTurns(v) == IF v.loading \/ v.total = 0 THEN {} ELSE ByPage(v)

-----------------------------------------------------------------------------
(* AdminsPage: an error keeps the rows; the reset leaves the page alone.   *)
AdminsLoad(v, c) == IF c.status = "ok" THEN Show(v, c) ELSE Kept(v)

AdminsEffects(v, w) == Effects(v, w)

AdminsBar(v) ==
    Selects(v, {"admin", "super_admin"}) \cup Types(v) \cup {Paged(Reset(v), v.q.page)}

AdminsRows(v) == IF v.loading THEN {} ELSE {On("save", r, v) : r \in Shown(v)}

AdminsTurns(v) == IF v.loading \/ v.total = 0 THEN {} ELSE ByPage(v)

-----------------------------------------------------------------------------
(* HomeElection and ElectionsOpenForCandidacy: the query is one state, the *)
(* debounced text and every filter put page 1 in it.                       *)
HomeLoad(v, c) == IF c.status = "ok" THEN Show(v, c) ELSE Cleared(v, c)

HomeEffects(v, w) == Batched(v, IF w.debounced # v.debounced THEN Paged(w, 1) ELSE w)

HomeBar(v) ==
    FirstPage(Selects(v, {"published", "ongoing"})) \cup Types(v) \cup {[Reset(v) EXCEPT !.q.search = ""]}

HomeTurns(v) ==
    IF v.loading \/ v.last <= 1 THEN {}
    ELSE (IF v.at # 1 THEN {Paged(v, v.at - 1)} ELSE {}) \cup (IF v.at # v.last THEN {Paged(v, v.at + 1)} ELSE {})

OpenLoad(v, c) == IF c.status = "ok" THEN Show(v, c) ELSE Cleared(v, c)

OpenEffects(v, w) == Batched(v, IF w.debounced # v.debounced THEN Paged(w, 1) ELSE w)

OpenBar(v) == Types(v) \cup {[Reset(v) EXCEPT !.q.search = ""]}

OpenTurns(v) ==
    IF v.loading \/ v.last <= 1 THEN {}
    ELSE (IF v.at # 1 THEN {Paged(v, v.at - 1)} ELSE {}) \cup (IF v.at # v.last THEN {Paged(v, v.at + 1)} ELSE {})
=============================================================================
