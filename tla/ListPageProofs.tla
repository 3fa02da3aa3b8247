---------------------------- MODULE ListPageProofs ----------------------------
(***************************************************************************)
(* For every one of the twenty-two list pages, any elections, filters,     *)
(* rows, clicks, losses and orders of answers, of ListPage: a spinner, and *)
(* a button that a call keeps disabled, waits for a call that is still in  *)
(* flight; the electors selected are on the screen; an application becomes *)
(* a second candidate only after the first one's address was changed; and, *)
(* once nothing is in flight, the rows are those the server has for the    *)
(* controls.                                                               *)
(*                                                                         *)
(* The first half says of the pages' operators, page by page, what they    *)
(* can make of a view: a control changes the query, an effect asks at most *)
(* twice, an answer ends the spinner, an offer is a call of the page.  The *)
(* steps of the tab then need no page, except Resultats and Electeurs.     *)
(* The last part is about the rows: what is in flight ends with a load of  *)
(* the query shown.                                                        *)
(***************************************************************************)
EXTENDS ListPage, FiniteSetTheorems, SequenceTheorems, WellFoundedInduction, TLAPS

(* Queries, views and what a change asks, by their fields.                 *)
IsQuery(q) ==
    /\ DOMAIN q = {"tab", "search", "status", "group", "page"}
    /\ q.tab \in Tab
    /\ page # "candidats" => q.tab = "main"

IsView(v) ==
    /\ DOMAIN v = {"q", "rows", "of", "last", "at", "total", "loading", "selected", "busy", "typed",
                   "debounced", "detail", "failed", "notReady"}
    /\ IsQuery(v.q) /\ DOMAIN v.rows = Tab /\ DOMAIN v.of = Tab
    /\ v.loading \in BOOLEAN /\ v.failed \in BOOLEAN /\ v.notReady \in BOOLEAN

IsAsks(asks) == \/ asks = <<>>
                \/ \E p : IsQuery(p) /\ asks = <<p>>
                \/ \E p, r : IsQuery(p) /\ IsQuery(r) /\ asks = <<p, r>>

(* What the controls ask, and what an answer brings, is about the query    *)
(* that the controls show: the same criteria, and the same page but where  *)
(* RowsAreCurrent lets it differ.                                          *)
Loose(q) == page \in {"candidats", "electeurs"} \/ (page = "scrutins" /\ q.page = 1)

Agrees(o, q) == Criteria(o) = Criteria(q) /\ (o.page = q.page \/ Loose(q))

(* On two pages the answer puts the pager on its own page.                 *)
Brings(o, q) == Agrees(o, q) \/ (Criteria(o) = Criteria(q) /\ page \in {"scrutins", "users"})

(* What a control leaves of the view: only electors are selected, among    *)
(* those shown.                                                            *)
Keeps(v, w) ==
    /\ IsView(w) /\ w.rows = v.rows /\ w.of = v.of /\ w.detail = v.detail
    /\ w.busy = v.busy /\ w.failed = v.failed /\ w.notReady = v.notReady
    /\ IF page = "electeurs" THEN w.selected \subseteq v.selected \cup {r.id : r \in Shown(v)}
                             ELSE w.selected = v.selected

Only(v, w) == Keeps(v, w) /\ w.loading = v.loading

Asked(v, m) == Keeps(v, m.view) /\ IsAsks(m.asks) /\ m.view.loading = (v.loading \/ m.asks # <<>>)

(* Every change of the controls goes through Change.                       *)
LEMMA ChangeKeeps ==
  ASSUME NEW v, IsView(v), NEW w, Only(v, w), NEW asks, IsAsks(asks)
  PROVE  Asked(v, Change(w, asks))
  BY DEF IsView, IsQuery, Keeps, Only, Asked, Change

(* Another page of a query, and its criteria, are queries.                 *)
LEMMA QueriesOf ==
  ASSUME NEW q, IsQuery(q), NEW p
  PROVE  IsQuery([q EXCEPT !.page = p]) /\ IsQuery(Criteria(q))
  BY DEF IsQuery, Criteria

(* So is a control together with another page.                             *)
LEMMA PagedOnly ==
  ASSUME NEW v, NEW w, Only(v, w), NEW p
  PROVE  Only(v, Paged(w, p)) /\ Only(v, [w EXCEPT !.q.page = p])
  BY DEF IsView, IsQuery, Keeps, Only, Paged

(* To leave the view as it is, is to keep it.                              *)
LEMMA OnlyItself ==
  ASSUME NEW v, IsView(v)
  PROVE  Only(v, v)
  BY DEF Keeps, Only

(* Two queries asked one after the other.                                  *)
LEMMA TwoAsks ==
  ASSUME NEW p, NEW r
  PROVE  <<p>> \o <<r>> = <<p, r>> /\ <<p>> # <<>> /\ <<p, r>> # <<>>
<1>1. <<p>> \in Seq({p, r}) /\ <<r>> \in Seq({p, r}) /\ <<p, r>> \in Seq({p, r})
  OBVIOUS
<1>2. <<p>> \o <<r>> \in Seq({p, r}) /\ Len(<<p>> \o <<r>>) = 2
  BY <1>1
<1>3. (<<p>> \o <<r>>)[1] = p /\ (<<p>> \o <<r>>)[2] = r
  BY <1>1
<1>4. Len(<<p, r>>) = 2 /\ <<p, r>>[1] = p /\ <<p, r>>[2] = r
  OBVIOUS
<1>5. \A i \in 1..Len(<<p>> \o <<r>>) : (<<p>> \o <<r>>)[i] = <<p, r>>[i]
  <2> SUFFICES ASSUME NEW i \in 1..2
               PROVE  (<<p>> \o <<r>>)[i] = <<p, r>>[i]
    BY <1>2
  <2>1. CASE i = 1
    BY <2>1, <1>3, <1>4
  <2>2. CASE i = 2
    BY <2>2, <1>3, <1>4
  <2> QED
    BY <2>1, <2>2
<1> DEFINE s == <<p>> \o <<r>>
           t == <<p, r>>
<1>6. s \in Seq({p, r}) /\ t \in Seq({p, r}) /\ Len(s) = Len(t)
  BY <1>1, <1>2, <1>4
<1> HIDE DEF s, t
<1> QED
  <2>1. s = t
    BY <1>5, <1>6, SeqEqual DEF s, t
  <2>2. <<p>> # <<>>
    OBVIOUS
  <2>3. <<p, r>> # <<>>
    OBVIOUS
  <2> QED
    BY <2>1, <2>2, <2>3 DEF s, t

(* The three ways in which the effects ask for rows.                       *)
LEMMA DualAsks ==
  ASSUME NEW v, IsView(v), NEW w, Only(v, w)
  PROVE  Asked(v, Dual(v, w))
<1>0. IsQuery(w.q) /\ IsQuery(Criteria(w.q)) /\ Only(v, [w EXCEPT !.q.page = 1])
  BY QueriesOf, PagedOnly DEF Only, Keeps, IsView
<1>1. CASE Criteria(w.q) # Criteria(v.q) /\ w.q.page = 1
  <2>1. Dual(v, w) = Change([w EXCEPT !.q.page = 1], <<Criteria(w.q)>>)
    BY <1>1 DEF Dual
  <2> QED
    BY <2>1, <1>0, ChangeKeeps DEF IsAsks
<1>2. CASE Criteria(w.q) # Criteria(v.q) /\ w.q.page # 1
  <2>1. Dual(v, w) = Change([w EXCEPT !.q.page = 1], <<Criteria(w.q), w.q>>)
    BY <1>2, TwoAsks DEF Dual
  <2> QED
    BY <2>1, <1>0, ChangeKeeps DEF IsAsks
<1>3. CASE Criteria(w.q) = Criteria(v.q)
  <2>1. Dual(v, w) = Change(w, <<w.q>>) \/ Dual(v, w) = Change(w, <<>>)
    BY <1>3 DEF Dual
  <2> QED
    BY <2>1, <1>0, ChangeKeeps DEF IsAsks
<1> QED
  BY <1>1, <1>2, <1>3

(* Old page first.                                                         *)
LEMMA EffectsAsk ==
  ASSUME NEW v, IsView(v), NEW w, Only(v, w)
  PROVE  Asked(v, Effects(v, w))
<1>0. IsQuery(w.q) /\ IsQuery(Criteria(w.q)) /\ Only(v, [w EXCEPT !.q.page = 1])
  BY QueriesOf, PagedOnly DEF Only, Keeps, IsView
<1>1. CASE Criteria(w.q) # Criteria(v.q) /\ w.q.page = 1
  <2>1. Effects(v, w) = Change([w EXCEPT !.q.page = 1], <<w.q>>)
    BY <1>1 DEF Effects
  <2> QED
    BY <2>1, <1>0, ChangeKeeps DEF IsAsks
<1>2. CASE Criteria(w.q) # Criteria(v.q) /\ w.q.page # 1
  <2>1. Effects(v, w) = Change([w EXCEPT !.q.page = 1], <<w.q, Criteria(w.q)>>)
    BY <1>2, TwoAsks DEF Effects
  <2> QED
    BY <2>1, <1>0, ChangeKeeps DEF IsAsks
<1>3. CASE Criteria(w.q) = Criteria(v.q)
  <2>1. Effects(v, w) = Change(w, <<w.q>>) \/ Effects(v, w) = Change(w, <<>>)
    BY <1>3 DEF Effects
  <2> QED
    BY <2>1, <1>0, ChangeKeeps DEF IsAsks
<1> QED
  BY <1>1, <1>2, <1>3

(* One load at most.                                                       *)
LEMMA BatchedAsks ==
  ASSUME NEW v, IsView(v), NEW w, Only(v, w)
  PROVE  Asked(v, Batched(v, w)) /\ Asked(v, Given(v, w))
<1>0. IsQuery(w.q) /\ IsQuery(Criteria(w.q))
  BY QueriesOf DEF Only, Keeps, IsView
<1> QED
  BY <1>0, ChangeKeeps DEF IsAsks, Batched, Given

(* What the controls can leave: a select, a text, a page.                  *)
LEMMA ControlsOnly ==
  ASSUME NEW v, IsView(v)
  PROVE  /\ \A S : \A w \in Selects(v, S) : Only(v, w)
         /\ \A S : \A w \in Elections(v, S) : Only(v, w)
         /\ \A w \in Types(v) : Only(v, w)
         /\ \A p : Only(v, Paged(v, p))
         /\ Only(v, Reset(v)) /\ Only(v, Debounced(v))
         /\ Only(v, [Reset(v) EXCEPT !.q.search = ""])
         /\ \A s, t : Only(v, [v EXCEPT !.typed = s, !.q.search = t])
         /\ \A s, t : Only(v, [v EXCEPT !.q.status = s, !.q.search = t])
         /\ Only(v, [v EXCEPT !.q.status = "all", !.q.search = "", !.typed = ""])
         /\ \A d : Only(v, [v EXCEPT !.debounced = d])
<1>1. \A S : \A w \in Selects(v, S) : Only(v, w)
  <2> SUFFICES ASSUME NEW s
               PROVE  Only(v, [v EXCEPT !.q.status = s])
    BY DEF Selects
  <2> QED
    BY DEF IsView, IsQuery, Keeps, Only
<1>2. \A S : \A w \in Elections(v, S) : Only(v, w)
  <2> SUFFICES ASSUME NEW g
               PROVE  Only(v, [v EXCEPT !.q.group = g])
    BY DEF Elections
  <2> QED
    BY DEF IsView, IsQuery, Keeps, Only
<1>3. \A w \in Types(v) : Only(v, w)
  <2> SUFFICES ASSUME NEW s
               PROVE  Only(v, [v EXCEPT !.typed = s])
    BY DEF Types
  <2> QED
    BY DEF IsView, IsQuery, Keeps, Only
<1>4. \A p : Only(v, Paged(v, p))
  BY DEF IsView, IsQuery, Keeps, Only, Paged
<1>5. Only(v, Reset(v)) /\ Only(v, Debounced(v))
  BY DEF IsView, IsQuery, Keeps, Only, Reset, Debounced
<1>6. Only(v, [Reset(v) EXCEPT !.q.search = ""])
  BY DEF IsView, IsQuery, Keeps, Only, Reset
<1>7. ASSUME NEW s, NEW t
      PROVE  Only(v, [v EXCEPT !.typed = s, !.q.search = t])
  BY DEF IsView, IsQuery, Keeps, Only
<1>8. ASSUME NEW s, NEW t
      PROVE  Only(v, [v EXCEPT !.q.status = s, !.q.search = t])
  BY DEF IsView, IsQuery, Keeps, Only
<1>9. Only(v, [v EXCEPT !.q.status = "all", !.q.search = "", !.typed = ""])
  BY DEF IsView, IsQuery, Keeps, Only
<1>10. ASSUME NEW d
       PROVE  Only(v, [v EXCEPT !.debounced = d])
  BY DEF IsView, IsQuery, Keeps, Only
<1> QED
  BY <1>1, <1>2, <1>3, <1>4, <1>5, <1>6, <1>7, <1>8, <1>9, <1>10

(* The pagers.                                                             *)
LEMMA TurnsOnly ==
  ASSUME NEW v, IsView(v)
  PROVE  /\ \A prev, next : \A w \in PrevNext(v, prev, next) : Only(v, w)
         /\ \A w \in Clamped(v) \cup ByPage(v) \cup ByMeta(v) : Only(v, w)
<1>1. \A prev, next : \A w \in PrevNext(v, prev, next) : Only(v, w)
  <2> SUFFICES ASSUME NEW prev, NEW next, NEW w \in PrevNext(v, prev, next)
               PROVE  Only(v, w)
    OBVIOUS
  <2>1. w = Paged(v, v.q.page - 1) \/ w = Paged(v, v.q.page + 1)
    BY DEF PrevNext
  <2>2. Only(v, Paged(v, v.q.page - 1)) /\ Only(v, Paged(v, v.q.page + 1))
    BY OnlyItself, PagedOnly
  <2> QED
    BY <2>1, <2>2
<1> QED
  BY <1>1 DEF Clamped, ByPage, ByMeta

(* A select that puts page 1 with it.                                      *)
LEMMA FirstPageOnly ==
  ASSUME NEW v, NEW ws, \A w \in ws : Only(v, w)
  PROVE  \A w \in FirstPage(ws) : Only(v, w)
<1> SUFFICES ASSUME NEW w \in ws
             PROVE  Only(v, Paged(w, 1))
  BY DEF FirstPage
<1> QED
  BY PagedOnly

(* Electeurs: what is selected is shown, or was selected.                  *)
LEMMA SelectOnly ==
  ASSUME IsView(view), page = "electeurs"
  PROVE  \A w \in ElecteursSelect(view) : Only(view, w)
<1> DEFINE ids == {r.id : r \in Shown(view)}
<1> HIDE DEF ids
<1> SUFFICES ASSUME NEW w \in ElecteursSelect(view)
             PROVE  Only(view, w)
  OBVIOUS
<1>1. \E s : w = [view EXCEPT !.selected = s] /\ s \subseteq view.selected \cup ids
  <2>1. CASE \E id \in ids : w = [view EXCEPT !.selected = Toggled(view.selected, id)]
    BY <2>1 DEF Toggled
  <2>2. CASE w = [view EXCEPT !.selected = {}] \/ w = [view EXCEPT !.selected = ids]
    BY <2>2
  <2> QED
    BY <2>1, <2>2 DEF ElecteursSelect, ids
<1> QED
  BY <1>1 DEF IsView, IsQuery, Keeps, Only, ids

(* Page by page: a control keeps what it must.                             *)
LEMMA BarOnly ==
  ASSUME IsView(view)
  PROVE  \A w \in Bar : Only(view, w)
<1> USE ControlsOnly, TurnsOnly
<1>1. CASE page = "candidats"
  <2>1. ASSUME NEW t \in Tab
        PROVE  Only(view, [view EXCEPT !.q.tab = t])
    <3> DEFINE w == [view EXCEPT !.q.tab = t]
    <3>1. w = [view EXCEPT !.q = [view.q EXCEPT !.tab = t]] /\ IsQuery([view.q EXCEPT !.tab = t])
      BY <1>1 DEF IsView, IsQuery
    <3>2. DOMAIN w = DOMAIN view /\ w.q = [view.q EXCEPT !.tab = t]
      BY <3>1 DEF IsView
    <3> QED
      BY <1>1, <3>1, <3>2 DEF IsView, Keeps, Only
  <2>2. \A w \in CandidatsBar(view) : Only(view, w)
    BY <2>1 DEF CandidatsBar
  <2>3. \A w \in CandidatsTurns(view) : Only(view, w)
    BY DEF CandidatsTurns
  <2>4. Bar = CandidatsBar(view) \cup CandidatsTurns(view)
    BY <1>1 DEF Bar
  <2> SUFFICES ASSUME NEW w \in CandidatsBar(view) \cup CandidatsTurns(view)
               PROVE  Only(view, w)
    BY <2>4
  <2> QED
    BY <2>2, <2>3
<1>2. CASE page = "electeurs"
  BY <1>2, SelectOnly, FirstPageOnly DEF Bar, ElecteursBar, ElecteursTurns
<1>3. CASE page = "scrutins"
  BY <1>3, FirstPageOnly DEF Bar, ScrutinsBar
<1>4. CASE page = "resultats"
  <2>1. \A g : Only(view, [view EXCEPT !.q.group = g])
    BY <1>4 DEF IsView, IsQuery, Keeps, Only
  <2>2. Bar = {} \/ Bar = ResultatsBar(view)
    BY <1>4 DEF Bar
  <2>3. \A w \in ResultatsBar(view) : \E g : w = [view EXCEPT !.q.group = g]
    BY DEF ResultatsBar
  <2>4. ASSUME NEW w \in ResultatsBar(view)
        PROVE  Only(view, w)
    <3>1. PICK g : w = [view EXCEPT !.q.group = g]
      BY <2>3
    <3> QED
      BY <2>1, <3>1
  <2> QED
    BY <2>2, <2>4
<1>5. CASE page = "revenus"
  BY <1>5 DEF Bar, RevenusBar, RevenusTurns
<1>6. CASE page = "retraits"
  BY <1>6 DEF Bar, RetraitsTurns
<1>7. CASE page = "staff"
  BY <1>7 DEF Bar, StaffBar
<1>8. CASE page = "jurys"
  BY <1>8 DEF Bar, JurysBar
<1>9. CASE page = "journal"
  BY <1>9, FirstPageOnly DEF Bar, AuditLogsBar, AuditLogsTurns
<1>10. CASE page = "categories"
  BY <1>10 DEF Bar, CategoriesBar, CategoriesTurns
<1>11. CASE page = "elections"
  BY <1>11 DEF Bar, ElectionsBar, ElectionsTurns
<1>12. CASE page = "organisations"
  BY <1>12 DEF Bar, OrganisationsBar, OrganisationsTurns
<1>13. CASE page = "subscriptions"
  BY <1>13 DEF Bar, SubscriptionsBar, SubscriptionsTurns
<1>14. CASE page = "audits"
  BY <1>14 DEF Bar, AuditsBar, AuditsTurns
<1>15. CASE page = "withdrawals"
  BY <1>15 DEF Bar, WithdrawalsBar, WithdrawalsTurns
<1>16. CASE page = "notifications"
  BY <1>16 DEF Bar, NotificationsBar, NotificationsTurns
<1>17. CASE page = "admins"
  <2>1. Only(view, Paged(Reset(view), view.q.page))
    BY PagedOnly
  <2> QED
    BY <1>17, <2>1 DEF Bar, AdminsBar, AdminsTurns
<1>18. CASE page = "home"
  <2>1. \A w \in HomeBar(view) : Only(view, w)
    BY FirstPageOnly DEF HomeBar
  <2>2. \A w \in HomeTurns(view) : \E p : w = Paged(view, p)
    BY DEF HomeTurns
  <2>3. ASSUME NEW w \in HomeTurns(view)
        PROVE  Only(view, w)
    <3>1. PICK p : w = Paged(view, p)
      BY <2>2
    <3> QED
      BY <3>1
  <2>4. Bar = HomeBar(view) \cup HomeTurns(view)
    BY <1>18 DEF Bar
  <2> SUFFICES ASSUME NEW w \in HomeBar(view) \cup HomeTurns(view)
               PROVE  Only(view, w)
    BY <2>4
  <2> QED
    BY <2>1, <2>3
<1>19. CASE page = "open"
  <2>1. \A w \in OpenBar(view) : Only(view, w)
    BY FirstPageOnly DEF OpenBar
  <2>2. \A w \in OpenTurns(view) : \E p : w = Paged(view, p)
    BY DEF OpenTurns
  <2>3. ASSUME NEW w \in OpenTurns(view)
        PROVE  Only(view, w)
    <3>1. PICK p : w = Paged(view, p)
      BY <2>2
    <3> QED
      BY <3>1
  <2>4. Bar = OpenBar(view) \cup OpenTurns(view)
    BY <1>19 DEF Bar
  <2> SUFFICES ASSUME NEW w \in OpenBar(view) \cup OpenTurns(view)
               PROVE  Only(view, w)
    BY <2>4
  <2> QED
    BY <2>1, <2>3
<1>20. CASE page \notin {"candidats", "electeurs", "scrutins", "resultats", "revenus", "retraits", "staff", "jurys", "journal", "categories", "elections", "organisations", "subscriptions", "audits", "withdrawals", "notifications", "admins", "home", "open"}
  BY <1>20 DEF Bar
<1> QED
  BY <1>1, <1>2, <1>3, <1>4, <1>5, <1>6, <1>7, <1>8, <1>9, <1>10, <1>11, <1>12, <1>13, <1>14, <1>15, <1>16, <1>17, <1>18, <1>19, <1>20

(* Page by page: the effects of a control ask at most twice.               *)
LEMMA EffectAsked ==
  ASSUME IsView(view), NEW w, Only(view, w)
  PROVE  Asked(view, Effect(w))
<1>0. Only(view, Paged(w, 1))
  BY PagedOnly
<1> USE DualAsks, EffectsAsk, BatchedAsks
<1>1. CASE page = "candidats"
  BY <1>0, <1>1 DEF Effect, CandidatsEffects
<1>2. CASE page = "electeurs"
  BY <1>0, <1>2 DEF Effect, ElecteursEffects
<1>3. CASE page = "scrutins"
  BY <1>0, <1>3 DEF Effect, ScrutinsEffects
<1>4. CASE page = "resultats"
  BY <1>0, <1>4 DEF Effect, ResultatsEffects
<1>5. CASE page = "revenus"
  BY <1>0, <1>5 DEF Effect, RevenusEffects
<1>6. CASE page = "retraits"
  BY <1>0, <1>6 DEF Effect, RevenusEffects
<1>7. CASE page = "staff"
  BY <1>0, <1>7 DEF Effect, StaffEffects
<1>8. CASE page = "jurys"
  BY <1>0, <1>8 DEF Effect, JurysEffects
<1>9. CASE page = "journal"
  BY <1>0, <1>9 DEF Effect, AuditLogsEffects
<1>10. CASE page = "categories"
  BY <1>0, <1>10 DEF Effect, CategoriesEffects
<1>11. CASE page = "elections"
  BY <1>0, <1>11 DEF Effect, ElectionsEffects
<1>12. CASE page = "organisations"
  BY <1>0, <1>12 DEF Effect, OrganisationsEffects
<1>13. CASE page = "subscriptions"
  BY <1>0, <1>13 DEF Effect, SubscriptionsEffects
<1>14. CASE page = "audits"
  BY <1>0, <1>14 DEF Effect, AuditsEffects
<1>15. CASE page = "withdrawals"
  BY <1>0, <1>15 DEF Effect, WithdrawalsEffects
<1>16. CASE page = "notifications"
  BY <1>0, <1>16 DEF Effect, NotificationsEffects
<1>17. CASE page = "admins"
  BY <1>0, <1>17 DEF Effect, AdminsEffects
<1>18. CASE page = "home"
  BY <1>0, <1>18 DEF Effect, HomeEffects
<1>19. CASE page = "open"
  BY <1>0, <1>19 DEF Effect, OpenEffects
<1>20. CASE page \notin {"candidats", "electeurs", "scrutins", "resultats", "revenus", "retraits", "staff", "jurys", "journal", "categories", "elections", "organisations", "subscriptions", "audits", "withdrawals", "notifications", "admins", "home", "open"}
  BY <1>20, ChangeKeeps DEF Effect, IsAsks
<1> QED
  BY <1>1, <1>2, <1>3, <1>4, <1>5, <1>6, <1>7, <1>8, <1>9, <1>10, <1>11, <1>12, <1>13, <1>14, <1>15, <1>16, <1>17, <1>18, <1>19, <1>20

(* With the controls that ask by themselves (Scrutins' pager, Users).      *)
LEMMA ControlsAsked ==
  ASSUME IsView(view)
  PROVE  \A m \in Controls : Asked(view, m)
<1>1. \A w \in Bar : Asked(view, Effect(w))
  BY BarOnly, EffectAsked
<1>2. ASSUME NEW w, Only(view, w)
      PROVE  Asked(view, applyFilters(w))
  <2>1. IsAsks(<<Criteria(w.q)>>) /\ Only(view, Paged(w, 1))
    <3>1. IsQuery(Criteria(w.q))
      BY <1>2, QueriesOf DEF Only, Keeps, IsView
    <3> QED
      BY <1>2, <3>1, PagedOnly DEF IsAsks
  <2> QED
    BY <2>1, ChangeKeeps DEF applyFilters
<1>3. ASSUME NEW p
      PROVE  Asked(view, GoTo(view, p))
  <2>1. IsAsks(<<[view.q EXCEPT !.page = p]>>)
    BY QueriesOf DEF IsView, IsAsks
  <2> QED
    BY <2>1, OnlyItself, ChangeKeeps DEF GoTo
<1>4. Asked(view, Change(view, <<>>)) /\ Asked(view, Change(view, refresh(view)))
  BY OnlyItself, ChangeKeeps, QueriesOf DEF IsView, IsAsks, refresh
<1>5. ASSUME NEW m \in ScrutinsTurns(view)
      PROVE  Asked(view, m)
  <2>1. \E p : m = GoTo(view, p)
    BY DEF ScrutinsTurns
  <2> QED
    BY <2>1, <1>3
<1>6. ASSUME NEW m \in UsersTurns(view)
      PROVE  Asked(view, m)
  <2>1. m = Change(view, <<>>) \/ \E p : m = GoTo(view, p)
    BY DEF UsersTurns, goToPage
  <2> QED
    BY <2>1, <1>3, <1>4
<1>7. ASSUME NEW m \in UsersBar(view)
      PROVE  Asked(view, m)
  <2>1. \/ m = Change(view, refresh(view))
        \/ \E w : m = applyFilters(w) /\ Only(view, w)
    <3>1. m = Change(view, refresh(view)) \/ m \in UsersFilters(view)
      BY DEF UsersBar
    <3>2. ASSUME NEW t
          PROVE  /\ Only(view, [view EXCEPT !.typed = t, !.q.search = t])
                 /\ Only(view, [view EXCEPT !.q.status = t, !.q.search = view.debounced])
                 /\ Only(view, [view EXCEPT !.q.status = "all", !.q.search = "", !.typed = ""])
      BY ControlsOnly
    <3>3. CASE \E t \in (Text \cup {""}) \ {view.typed} :
                  m = applyFilters([view EXCEPT !.typed = t, !.q.search = t])
      BY <3>2, <3>3
    <3>4. CASE \E t \in (({"active", "suspended"} \cap Filter) \cup {"all"}) \ {view.q.status} :
                  m = applyFilters([view EXCEPT !.q.status = t, !.q.search = view.debounced])
      BY <3>2, <3>4
    <3>5. CASE m = applyFilters([view EXCEPT !.q.status = "all", !.q.search = "", !.typed = ""])
      BY <3>2, <3>5
    <3> QED
      BY <3>1, <3>3, <3>4, <3>5 DEF UsersFilters
  <2> QED
    BY <2>1, <1>2, <1>4
<1> SUFFICES ASSUME NEW m \in Controls
             PROVE  Asked(view, m)
  OBVIOUS
<1>8. \/ \E w \in Bar : m = Effect(w)
      \/ m \in ScrutinsTurns(view) \cup UsersBar(view) \cup UsersTurns(view)
  BY DEF Controls
<1> QED
  BY <1>8, <1>1, <1>5, <1>6, <1>7

(* What the answer of a load makes of a view.                              *)
Loaded(v, c, w) ==
    /\ IsView(w) /\ w.loading = FALSE /\ w.busy = v.busy
    /\ \/ w.failed /\ w.selected = v.selected
       \/ w.selected = IF page = "electeurs" THEN {} ELSE v.selected

(* The answer shown, and the three ways to take an error.                  *)
LEMMA ShowLoads ==
  ASSUME NEW v, IsView(v), NEW c, IsQuery(c.q)
  PROVE  /\ page = "electeurs" => Loaded(v, c, [Show(v, c) EXCEPT !.selected = {}])
         /\ page # "electeurs" => Loaded(v, c, Show(v, c))
         /\ Loaded(v, c, Kept(v)) /\ Loaded(v, c, Cleared(v, c)) /\ Loaded(v, c, Emptied(v, c))
<1>1. page = "electeurs" => Loaded(v, c, [Show(v, c) EXCEPT !.selected = {}])
  BY DEF IsView, IsQuery, Loaded, Show
<1>2. page # "electeurs" => Loaded(v, c, Show(v, c))
  BY DEF IsView, IsQuery, Loaded, Show
<1>3. Loaded(v, c, Kept(v))
  BY DEF IsView, IsQuery, Loaded, Kept
<1>4. Loaded(v, c, Cleared(v, c))
  BY DEF IsView, IsQuery, Loaded, Cleared, Kept
<1>5. Loaded(v, c, Emptied(v, c))
  BY DEF IsView, IsQuery, Loaded, Cleared, Kept, Emptied
<1> QED
  BY <1>1, <1>2, <1>3, <1>4, <1>5

(* Page by page: an answer ends the spinner; Electeurs drops its selection.*)
LEMMA AnswerLoads ==
  ASSUME IsView(view), page \in Pages, NEW c, IsQuery(c.q)
  PROVE  Loaded(view, c, Load(c))
<1> USE ShowLoads
<1>1. CASE page = "candidats"
  BY <1>1 DEF Load, CandidatsLoad
<1>2. CASE page = "electeurs"
  BY <1>2 DEF Load, ElecteursLoad
<1>3. CASE page = "scrutins"
  <2>1. Loaded(view, c, [Show(view, c) EXCEPT !.q.page = c.q.page])
    BY <1>3 DEF IsView, IsQuery, Loaded, Show
  <2> QED
    BY <1>3, <2>1 DEF Load, ScrutinsLoad
<1>4. CASE page = "resultats"
  <2>1. ASSUME NEW w, Loaded(view, c, w), NEW d, NEW rows, NEW b \in BOOLEAN
        PROVE  /\ Loaded(view, c, [w EXCEPT !.detail = d, !.rows["main"] = rows, !.notReady = b])
               /\ Loaded(view, c, [w EXCEPT !.rows["main"] = rows, !.notReady = b])
    BY <1>4, <2>1 DEF IsView, IsQuery, Tab, Loaded
  <2>2. Load(c) = ResultatsLoad(view, c)
    BY <1>4 DEF Load
  <2>3. Loaded(view, c, Show(view, c)) /\ Loaded(view, c, Kept(view))
    BY <1>4
  <2>4. CASE c.status = "ok" /\ c.op = "load"
    <3>1. Load(c) = [Show(view, c) EXCEPT !.detail = c.ans.detail, !.rows["main"] = <<>>,
                                          !.notReady = TRUE]
      BY <2>2, <2>4 DEF ResultatsLoad
    <3>2. Loaded(view, c, [Show(view, c) EXCEPT !.detail = c.ans.detail, !.rows["main"] = <<>>,
                                                !.notReady = TRUE])
      BY <2>1, <2>3
    <3> QED
      BY <3>1, <3>2
  <2>5. CASE c.status = "ok" /\ c.op # "load"
    <3> DEFINE b == Show(view, c).notReady \/ c.ans.rows = <<>>
    <3>1. b \in BOOLEAN
      OBVIOUS
    <3>2. Load(c) = [Show(view, c) EXCEPT !.rows["main"] = IF view.notReady THEN <<>> ELSE c.ans.rows,
                                          !.notReady = b]
      BY <2>2, <2>5 DEF ResultatsLoad
    <3> HIDE DEF b
    <3>3. \A rows : Loaded(view, c, [Show(view, c) EXCEPT !.rows["main"] = rows, !.notReady = b])
      BY <2>1, <2>3, <3>1
    <3> QED
      BY <3>2, <3>3
  <2>6. CASE c.status # "ok"
    BY <2>2, <2>3, <2>6 DEF ResultatsLoad
  <2> QED
    BY <2>4, <2>5, <2>6
<1>5. CASE page = "revenus"
  BY <1>5 DEF Load, RevenusLoad
<1>6. CASE page = "retraits"
  BY <1>6 DEF Load, RetraitsLoad
<1>7. CASE page = "staff"
  <2>1. \A rows : Loaded(view, c, [Show(view, c) EXCEPT !.rows["main"] = rows])
    BY <1>7 DEF IsView, IsQuery, Tab, Loaded, Show
  <2> QED
    BY <1>7, <2>1 DEF Load, StaffLoad
<1>8. CASE page = "members"
  BY <1>8 DEF Load, MembersLoad
<1>9. CASE page = "jurys"
  <2>1. \A rows : Loaded(view, c, [Show(view, c) EXCEPT !.rows["main"] = rows])
    BY <1>9 DEF IsView, IsQuery, Tab, Loaded, Show
  <2> QED
    BY <1>9, <2>1 DEF Load, JurysLoad
<1>10. CASE page = "journal"
  BY <1>10 DEF Load, AuditLogsLoad
<1>11. CASE page = "categories"
  BY <1>11 DEF Load, CategoriesLoad
<1>12. CASE page = "manager"
  BY <1>12 DEF Load, CategoryManagerLoad
<1>13. CASE page = "users"
  <2>1. Loaded(view, c, [Show(view, c) EXCEPT !.q.page = c.q.page])
    BY <1>13 DEF IsView, IsQuery, Loaded, Show
  <2> QED
    BY <1>13, <2>1 DEF Load, fetchUsers
<1>14. CASE page = "elections"
  BY <1>14 DEF Load, ElectionsLoad
<1>15. CASE page = "organisations"
  BY <1>15 DEF Load, OrganisationsLoad
<1>16. CASE page = "subscriptions"
  BY <1>16 DEF Load, SubscriptionsLoad
<1>17. CASE page = "audits"
  BY <1>17 DEF Load, AuditsLoad
<1>18. CASE page = "withdrawals"
  BY <1>18 DEF Load, WithdrawalsLoad
<1>19. CASE page = "notifications"
  BY <1>19 DEF Load, NotificationsLoad
<1>20. CASE page = "admins"
  BY <1>20 DEF Load, AdminsLoad
<1>21. CASE page = "home"
  BY <1>21 DEF Load, HomeLoad
<1>22. CASE page = "open"
  BY <1>22 DEF Load, OpenLoad
<1> QED
  BY <1>1, <1>2, <1>3, <1>4, <1>5, <1>6, <1>7, <1>8, <1>9, <1>10, <1>11, <1>12, <1>13, <1>14, <1>15, <1>16, <1>17, <1>18, <1>19, <1>20, <1>21, <1>22 DEF Pages

(* What a row, or the page, offers: the query shown is loaded again, but   *)
(* not after the codes are sent.                                           *)
Reloaded(op, then) ==
    \/ op = "codes" /\ then = <<>>
    \/ \E p : IsQuery(p) /\ Brings(p, view.q) /\ then = <<p>>

IsOffer(a) ==
    /\ DOMAIN a = {"op", "ids", "then", "mark"}
    /\ Reloaded(a.op, a.then)
    /\ a.op \notin Loads \cup {"poll", "timer"}
    /\ a.op = "approveApplication" \/ (a.op = "save" /\ page = "candidats") => \E i : a.ids = {i}
    /\ a.op = "import" => a.mark = Free /\ a.ids = {} /\ page = "candidats"
    /\ a.op = "calculate" => a.ids = {} /\ page = "resultats"
    /\ a.op = "importNow" => page = "electeurs"
    /\ page = "scrutins" => a.mark # Free

(* A row's action, then any call but an import or the approval of an       *)
(* application.                                                            *)
LEMMA OnOffer ==
  ASSUME IsView(view), NEW r,
         NEW op, op \notin Loads \cup Queues \cup {"poll", "timer"}
  PROVE  page # "scrutins" => IsOffer(On(op, r, view))
<1>1. IsQuery(view.q) /\ Brings(view.q, view.q)
  BY DEF IsView, Brings, Agrees
<1>2. Reloaded(op, <<view.q>>)
  BY <1>1 DEF Reloaded
<1> QED
  BY <1>2 DEF IsOffer, On, Do, Queues

(* Another call.                                                           *)
LEMMA DoOffer ==
  ASSUME NEW op, op \notin Loads \cup Queues \cup {"poll", "timer", "approveApplication"},
         page = "candidats" => op # "save",
         NEW ids, NEW then, Reloaded(op, then), NEW mark, page = "scrutins" => mark # Free
  PROVE  IsOffer(Do(op, ids, then, mark))
  BY DEF IsOffer, Do, Queues

(* Page by page: what is offered is an action, of one application at most. *)
LEMMA OfferedOffers ==
  ASSUME IsView(view)
  PROVE  \A a \in Offered : IsOffer(a)
<1> SUFFICES ASSUME NEW a \in Offered
             PROVE  IsOffer(a)
  OBVIOUS
<1> USE DEF Loads, Reads, Queues
<1>0. /\ Reloaded("codes", <<>>) /\ \A op : Reloaded(op, <<view.q>>)
      /\ page \in {"candidats", "electeurs"} => \A op : Reloaded(op, <<Paged(view, 1).q>>)
      /\ page = "users" => \A op : Reloaded(op, <<Criteria(view.q)>>)
  <2>1. IsQuery(view.q) /\ IsQuery(Paged(view, 1).q) /\ IsQuery(Criteria(view.q))
    BY QueriesOf, PagedOnly, OnlyItself DEF Only, Keeps, IsView
  <2>2. Criteria(Paged(view, 1).q) = Criteria(view.q) /\ Criteria(Criteria(view.q)) = Criteria(view.q)
    BY <2>1 DEF Criteria, Paged, IsQuery, IsView
  <2>3. /\ Brings(view.q, view.q)
        /\ page = "users" => Brings(Criteria(view.q), view.q)
        /\ page \in {"candidats", "electeurs"} => Brings(Paged(view, 1).q, view.q)
    BY <2>2 DEF Brings, Agrees, Loose
  <2> QED
    BY <2>1, <2>3 DEF Reloaded
<1>1. ASSUME NEW r, NEW op, op \notin Loads \cup Queues \cup {"poll", "timer"}, page # "scrutins"
      PROVE  IsOffer(On(op, r, view))
  BY <1>1, OnOffer
<1>2. ASSUME NEW op, op \notin Loads \cup Queues \cup {"poll", "timer", "approveApplication"},
             page = "candidats" => op # "save",
             NEW ids, NEW then, Reloaded(op, then), NEW mark, page = "scrutins" => mark # Free
      PROVE  IsOffer(Do(op, ids, then, mark))
  BY <1>2, DoOffer
<1>3. CASE page = "candidats"
  <2>1. CASE a \in CandidatsImport(view)
    <3>1. a = Do("import", {}, <<Paged(view, 1).q>>, Free)
      BY <2>1 DEF CandidatsImport
    <3> QED
      BY <3>1, <1>0, <1>3 DEF IsOffer, Do
  <2>2. CASE a \in CandidatsModal(view)
    BY <2>2, <1>0, <1>2, <1>3 DEF CandidatsModal
  <2>3. CASE a \in CandidatsRows(view)
    <3>1. \E r : a \in {On(op, r, view) : op \in {"approveApplication", "rejectApplication",
                                     "rejectBlank", "approve", "reject", "delete", "save"}}
      <4>1. CASE a \in CandidatsApplications(view)
        BY <4>1 DEF CandidatsApplications, CandidatsHandlers
      <4>2. CASE view.q.tab # "applications"
        BY <2>3, <4>2 DEF CandidatsRows, CandidatsHandlers
      <4> QED
        BY <2>3, <4>1, <4>2 DEF CandidatsRows
    <3> QED
      BY <3>1, <1>1, <1>3
  <2> QED
    BY <1>3, <2>1, <2>2, <2>3 DEF Offered
<1>4. CASE page = "electeurs"
  <2>1. CASE a \in ElecteursImport(view)
    <3>1. a = Do("importNow", {}, <<Paged(view, 1).q>>, Free)
      BY <2>1 DEF ElecteursImport
    <3> QED
      BY <3>1, <1>0, <1>4 DEF IsOffer, Do
  <2>2. CASE a \in ElecteursVerify(view) \cup ElecteursSendCodes(view)
    BY <2>2, <1>0, <1>2, <1>4 DEF ElecteursVerify, ElecteursSendCodes
  <2>3. CASE a \in ElecteursRows(view)
    BY <2>3, <1>1, <1>4 DEF ElecteursRows
  <2> QED
    BY <1>4, <2>1, <2>2, <2>3 DEF Offered
<1>5. CASE page = "scrutins"
  <2>1. \E r : \E op \in {"publish", "start", "pause", "resume", "end", "delete"} :
           a = Do(op, {r.id}, <<view.q>>, <<"action", r.id>>)
    <3>1. PICK r : a \in {handleAction(op, r, view) : op \in ScrutinsActions(r)}
      BY <1>5 DEF Offered, ScrutinsRows
    <3>2. ScrutinsActions(r) \subseteq {"publish", "start", "pause", "resume", "end", "delete"}
      BY DEF ScrutinsActions
    <3>3. PICK op \in ScrutinsActions(r) : a = handleAction(op, r, view)
      BY <3>1
    <3> QED
      BY <3>2, <3>3 DEF handleAction
  <2>2. PICK r : \E op \in {"publish", "start", "pause", "resume", "end", "delete"} :
           a = Do(op, {r.id}, <<view.q>>, <<"action", r.id>>)
    BY <2>1
  <2>3. <<"action", r.id>> # Free
    BY DEF Free
  <2> QED
    BY <2>2, <2>3, <1>0, <1>2, <1>5
<1>6. CASE page = "resultats"
  <2>1. a = Do("calculate", {}, <<view.q>>, <<"calculate", 0>>)
    BY <1>6 DEF Offered, ResultatsRows, handleRecalculate
  <2> QED
    BY <2>1, <1>0, <1>6 DEF IsOffer, Do
<1>7. CASE page = "retraits"
  BY <1>0, <1>1, <1>2, <1>7 DEF Offered, RetraitsModal
<1>8. CASE page = "staff"
  BY <1>0, <1>1, <1>2, <1>8 DEF Offered, StaffRows, StaffHandlers
<1>9. CASE page = "members"
  BY <1>0, <1>1, <1>2, <1>9 DEF Offered, MembersRows, MembersHandlers
<1>10. CASE page = "jurys"
  BY <1>0, <1>1, <1>2, <1>10 DEF Offered, JurysRows, JurysHandlers
<1>11. CASE page = "manager"
  <2>1. CASE a \in CategoryManagerAdd(view)
    BY <2>1, <1>0, <1>2, <1>11 DEF CategoryManagerAdd
  <2>2. CASE a \in CategoryManagerRows(view)
    <3>1. \E r : a = On("delete", r, view) \/ a = Do("save", {r.id}, <<view.q>>, <<"submit", 0>>)
      BY <2>2 DEF CategoryManagerRows, CategoryManagerHandlers
    <3> QED
      BY <3>1, <1>0, <1>1, <1>2, <1>11
  <2> QED
    BY <1>11, <2>1, <2>2 DEF Offered
<1>12. CASE page = "users"
  <2>1. \E r : a \in {Do(op, {r.id}, <<Criteria(view.q)>>, Free)
                    : op \in {"delete", "save", "activate", "suspend"}}
    BY <1>12 DEF Offered, UsersRows, UsersHandlers, refresh
  <2> QED
    BY <2>1, <1>0, <1>2, <1>12
<1>13. CASE page = "elections"
  BY <1>0, <1>1, <1>2, <1>13 DEF Offered, ElectionsRows, ElectionsDelete
<1>14. CASE page = "organisations"
  BY <1>0, <1>1, <1>2, <1>14 DEF Offered, OrganisationsRows, OrganisationsDelete
<1>15. CASE page = "subscriptions"
  BY <1>0, <1>1, <1>2, <1>15 DEF Offered, SubscriptionsRows, SubscriptionsHandlers
<1>16. CASE page = "withdrawals"
  BY <1>0, <1>1, <1>2, <1>16 DEF Offered, WithdrawalsRows
<1>17. CASE page = "notifications"
  BY <1>0, <1>1, <1>2, <1>17 DEF Offered, NotificationsRows, openView
<1>18. CASE page = "admins"
  BY <1>0, <1>1, <1>2, <1>18 DEF Offered, AdminsRows
<1>30. page \in {"candidats", "electeurs", "scrutins", "resultats", "retraits", "staff", "members", "jurys", "manager", "users", "elections", "organisations", "subscriptions", "withdrawals", "notifications", "admins"}
  BY DEF Offered
<1> QED
  BY <1>3, <1>4, <1>5, <1>6, <1>7, <1>8, <1>9, <1>10, <1>11, <1>12, <1>13, <1>14, <1>15, <1>16, <1>17, <1>18, <1>30

(* The text that useDebounce lets through asks as a control does.          *)
LEMMA DebounceAsked ==
  ASSUME IsView(view)
  PROVE  /\ Asked(view, Change([view EXCEPT !.debounced = view.typed], <<>>))
         /\ Asked(view, Effect(Debounced(view)))
<1>1. Only(view, [view EXCEPT !.debounced = view.typed]) /\ Only(view, Debounced(view))
  BY ControlsOnly
<1> QED
  BY <1>1, EffectAsked, ChangeKeeps DEF IsAsks

(* A call in flight: a load, the elections and an import keep no button.   *)
IsCall(c) ==
    /\ DOMAIN c = {"n", "op", "q", "ids", "then", "mark", "status", "ans", "part", "tries", "job",
                   "done"}
    /\ IsQuery(c.q) /\ IsAsks(c.then)
    /\ c.op = "approveApplication" \/ (c.op = "save" /\ page = "candidats") => \E i : c.ids = {i}
    /\ c.op \in Loads \cup {"import", "poll"} => c.mark = Free

(* Queries sent are loads in flight.                                       *)
LEMMA SentAre ==
  ASSUME NEW cs, NEW asks, IsAsks(asks)
  PROVE  /\ cs \subseteq Sent(cs, asks)
         /\ \A d \in Sent(cs, asks) : d \in cs \/ (IsCall(d) /\ d.op = "load")
         /\ asks # <<>> => \E d \in Sent(cs, asks) : d.op = "load"
<1> DEFINE nth(i) == Call(Latest(cs) + i, "load", asks[i])
<1>1. ASSUME NEW i \in DOMAIN asks
      PROVE  IsCall(nth(i)) /\ nth(i).op = "load"
  <2>1. IsQuery(asks[i])
    <3>1. CASE \E p : IsQuery(p) /\ asks = <<p>>
      BY <1>1, <3>1
    <3>2. CASE \E p, r : IsQuery(p) /\ IsQuery(r) /\ asks = <<p, r>>
      BY <1>1, <3>2
    <3>3. CASE asks = <<>>
      BY <1>1, <3>3
    <3> QED
      BY <3>1, <3>2, <3>3 DEF IsAsks
  <2> QED
    BY <2>1 DEF Call, IsCall, Loads, Reads, IsAsks
<1>2. asks # <<>> => 1 \in DOMAIN asks
  BY DEF IsAsks
<1>3. Sent(cs, asks) = cs \cup {nth(i) : i \in DOMAIN asks}
  BY DEF Sent
<1> HIDE DEF nth
<1> QED
  BY <1>1, <1>2, <1>3

(* Asking changes the spinner, and on Resultats the rows.                  *)
LEMMA AsksLeave ==
  ASSUME NEW w, IsView(w), NEW asks, IsAsks(asks)
  PROVE  LET u == Asks(w, asks) IN
         /\ IsView(u) /\ u.loading = (w.loading \/ asks # <<>>)
         /\ u.q = w.q /\ u.busy = w.busy /\ u.failed = w.failed /\ u.selected = w.selected
         /\ u.of = w.of /\ u.detail = w.detail /\ u.typed = w.typed /\ u.debounced = w.debounced
         /\ page # "resultats" \/ asks = <<>> => u.rows = w.rows /\ u.notReady = w.notReady
         /\ page = "resultats" /\ asks # <<>> => ~u.notReady
<1>1. CASE page = "resultats" /\ asks # <<>>
  BY <1>1 DEF Asks, ResultatsStart, IsView, IsQuery, Tab
<1>2. CASE ~(page = "resultats" /\ asks # <<>>)
  BY <1>2 DEF Asks, IsView, IsQuery
<1> QED
  BY <1>1, <1>2

-----------------------------------------------------------------------------
(* The invariant.  Unchosen: on Resultats the elections are heard once,    *)
(* with no election chosen, so that the one then chosen is loaded, and     *)
(* ends the spinner that the page started with.                            *)
Selected == IF page = "electeurs" THEN SelectionIsShown ELSE view.selected = {}
Busy == \A b \in view.busy : b # Free /\ \E c \in calls : c.mark = b
Spins == view.loading => \E c \in calls : c.op \in Loads
Unchosen ==
    page = "resultats" =>
        \A c \in calls : c.op = "elections" =>
            view.q.group = "none" /\ \A d \in calls : d.op = "elections" => d = c
Typed == page \in Pages /\ IsView(view) /\ \A c \in calls : IsCall(c)

ListInv == Typed /\ Spins /\ Busy /\ Selected /\ Unchosen

(* The page stays, so that what a call is does not change.                 *)
LEMMA SamePage ==
  ASSUME UNCHANGED page
  PROVE  /\ \A c : IsCall(c) => IsCall(c)'
         /\ IsView(view') => IsView(view)'
<1>1. \A q : IsQuery(q) <=> IsQuery(q)'
  BY DEF IsQuery
<1>2. \A asks : IsAsks(asks) => IsAsks(asks)'
  <2> SUFFICES ASSUME NEW asks, IsAsks(asks)
               PROVE  IsAsks(asks)'
    OBVIOUS
  <2> QED
    BY <1>1 DEF IsAsks
<1>3. \A c : IsCall(c) => IsCall(c)'
  BY <1>1, <1>2 DEF IsCall
<1> QED
  BY <1>3 DEF IsView, IsQuery

(* The view a page starts with.                                            *)
Blank(v) ==
    /\ IsView(v) /\ v.busy = {} /\ v.selected = {} /\ v.q.tab = "main"
    /\ v.typed = "" /\ v.debounced = "" /\ v.detail = "none"

LEMMA InitView ==
  ASSUME Init
  PROVE  Blank(view) /\ (page = "resultats" => view.q.group = "none")
<1>1. Blank(View) /\ (page = "resultats" => View.q.group = "none")
  <2> DEFINE ask(g) == Asking("main", g)
  <2>1. \A g : IsQuery(ask(g)) /\ ask(g).group = g /\ ask(g).tab = "main"
    BY DEF Asking, IsQuery, Tab
  <2>2. \A g, l : l \in BOOLEAN => LET v == FreshView(ask(g), l) IN Blank(v) /\ v.q = ask(g)
    BY <2>1 DEF FreshView, IsView, Blank
  <2> HIDE DEF ask
  <2>3. CASE page = "resultats"
    <3>1. View = [FreshView(ask("none"), FALSE) EXCEPT !.loading = TRUE]
      BY <2>3 DEF View, ResultatsView, ask
    <3> DEFINE v == FreshView(ask("none"), FALSE)
    <3>2. Blank(v) /\ v.q = ask("none")
      BY <2>2
    <3> HIDE DEF v
    <3>3. LET w == [v EXCEPT !.loading = TRUE] IN Blank(w) /\ w.q = ask("none")
      BY <3>2 DEF IsView, Blank
    <3> QED
      BY <2>1, <3>1, <3>3 DEF v
  <2>4. CASE page # "resultats"
    <3>1. \E l \in BOOLEAN : View = FreshView(ask("all"), l)
      BY <2>4 DEF View, CandidatsView, ElecteursView, ScrutinsView, RevenusView, StaffView, JurysView,
                  SuperView, ask
    <3> QED
      BY <2>2, <2>4, <3>1
  <2> QED
    BY <2>3, <2>4
<1>2. view = [View EXCEPT !.loading = TRUE]
  BY DEF Init
<1> QED
  BY <1>1, <1>2 DEF IsView, Blank

(* A page starts with a load, or the elections, in flight.                 *)
LEMMA InitList ==
  ASSUME Init
  PROVE  ListInv
<1>1. page \in Pages
  BY ListConstants DEF Init
<1>3. IsView(view) /\ view.busy = {} /\ view.selected = {} /\ view.q.tab = "main"
      /\ (page = "resultats" => view.q.group = "none")
  BY InitView DEF Blank
<1>4. /\ \A c \in calls : IsCall(c)
      /\ \E c \in calls : c.op \in Loads
      /\ \A c, d \in calls : c.op = "elections" /\ d.op = "elections" => c = d
  <2>1. CASE page \in Chosen
    <3>1. calls = {Call(1, "elections", view.q)}
      BY <2>1 DEF Init, Chosen
    <3>2. IsCall(Call(1, "elections", view.q)) /\ Call(1, "elections", view.q).op \in Loads
      BY <1>3 DEF Call, IsCall, IsView, IsAsks, Loads, Reads
    <3> QED
      BY <3>1, <3>2
  <2>2. CASE page \notin Chosen
    <3>1. \E asks : IsAsks(asks) /\ asks # <<>> /\ calls = Sent({}, asks)
      <4>1. IsAsks(<<view.q>>) /\ IsAsks(<<view.q, view.q>>)
        BY <1>3 DEF IsAsks, IsView
      <4>2. calls = Sent({}, <<view.q>>) \/ calls = Sent({}, <<view.q, view.q>>)
        BY <2>2 DEF Init, Chosen, UsersMount
      <4> QED
        BY <4>1, <4>2
    <3> QED
      BY <3>1, SentAre DEF Loads, Reads
  <2> QED
    BY <2>1, <2>2
<1> QED
  BY <1>1, <1>3, <1>4 DEF ListInv, Typed, Spins, Busy, Selected, Unchosen, SelectionIsShown

(* A change of the view and the queries it asks.                           *)
LEMMA AskStep ==
  ASSUME ListInv, UNCHANGED page, NEW m, Asked(view, m),
         view' = Asks(m.view, m.asks), calls' = Sent(calls, m.asks),
         page = "resultats" /\ view.q.group = "none" => m.view.q.group = "none"
  PROVE  ListInv'
<1> USE DEF ListInv
<1>1. IsView(m.view) /\ IsAsks(m.asks)
  BY DEF Asked, Keeps
<1>2. /\ IsView(view') /\ view'.loading = (m.view.loading \/ m.asks # <<>>)
      /\ view'.q = m.view.q /\ view'.busy = m.view.busy /\ view'.failed = m.view.failed
      /\ view'.selected = m.view.selected /\ (page # "resultats" => view'.rows = m.view.rows)
  BY <1>1, AsksLeave
<1>3. /\ calls \subseteq calls'
      /\ \A d \in calls' : d \in calls \/ (IsCall(d) /\ d.op = "load")
      /\ m.asks # <<>> => \E d \in calls' : d.op = "load"
  BY <1>1, SentAre
<1>4. Typed'
  BY <1>2, <1>3, SamePage DEF Typed
<1>5. Spins'
  <2>1. view'.loading => view.loading \/ m.asks # <<>>
    BY <1>2 DEF Asked
  <2> QED
    BY <2>1, <1>3 DEF Spins, Loads, Reads
<1>6. Busy'
  BY <1>2, <1>3 DEF Busy, Asked, Keeps
<1>7. Selected'
  <2>1. CASE page = "electeurs"
    <3>1. IsQuery(view.q) /\ IsQuery(view'.q)
      BY <1>2 DEF Typed, IsView
    <3>2. view'.rows = view.rows /\ view'.q.tab = view.q.tab /\ view'.failed = view.failed
      BY <1>2, <2>1, <3>1 DEF Asked, Keeps, IsQuery
    <3>3. Shown(view') = Shown(view)
      BY <3>2 DEF Shown
    <3>4. view'.selected \subseteq view.selected \cup {r.id : r \in Shown(view)}
      BY <1>2, <2>1 DEF Asked, Keeps
    <3> QED
      BY <2>1, <3>2, <3>3, <3>4 DEF Selected, SelectionIsShown
  <2>2. CASE page # "electeurs"
    BY <1>2, <2>2 DEF Selected, Asked, Keeps
  <2> QED
    BY <2>1, <2>2
<1>8. Unchosen'
  <2> SUFFICES ASSUME page = "resultats", NEW c \in calls', c.op = "elections"
               PROVE  view'.q.group = "none" /\ \A d \in calls' : d.op = "elections" => d = c
    BY DEF Unchosen
  <2>1. c \in calls /\ \A d \in calls' : d.op = "elections" => d \in calls
    BY <1>3
  <2> QED
    BY <2>1, <1>2 DEF Unchosen
<1> QED
  BY <1>4, <1>5, <1>6, <1>7, <1>8

(* An answer is served, lost, or awaited further.                          *)
LEMMA ReplaceStep ==
  ASSUME ListInv, UNCHANGED <<page, view>>, NEW c \in calls, NEW d, IsCall(d), d.mark = c.mark,
         d.op = c.op \/ {c.op, d.op} \cap Loads = {}, Set(c, d)
  PROVE  ListInv'
<1> USE DEF ListInv, Set
<1>1. Typed'
  BY SamePage DEF Typed
<1>2. Spins'
  BY DEF Spins
<1>3. Busy'
  BY DEF Busy
<1>4. Selected'
  BY DEF Selected, SelectionIsShown, Shown
<1>5. Unchosen'
  BY DEF Unchosen, Loads, Reads
<1> QED
  BY <1>1, <1>2, <1>3, <1>4, <1>5

(* A call has ended, and the lists of asks are asked.                      *)
LEMMA EndStep ==
  ASSUME ListInv, UNCHANGED page, NEW c \in calls, c.op \notin Loads,
         IsView(view'), view'.q = view.q, view'.failed = view.failed,
         page # "resultats" => view'.rows = view.rows,
         view'.selected = view.selected \/ view'.selected = {},
         view'.busy \subseteq view.busy, c.mark = Free \/ c.mark \notin view'.busy,
         calls \ {c} \subseteq calls',
         \A d \in calls' : d \in calls \/ (IsCall(d) /\ d.op = "load"),
         view'.loading => view.loading \/ \E d \in calls' : d.op = "load"
  PROVE  ListInv'
<1> USE DEF ListInv
<1>1. Typed'
  BY SamePage DEF Typed
<1>2. Spins'
  BY DEF Spins, Loads, Reads
<1>3. Busy'
  BY DEF Busy
<1>4. Selected'
  BY DEF Selected, SelectionIsShown, Shown
<1>5. Unchosen'
  BY DEF Unchosen
<1> QED
  BY <1>1, <1>2, <1>3, <1>4, <1>5

(* Neither the view nor the calls change.                                  *)
LEMMA StillStep ==
  ASSUME ListInv, UNCHANGED <<page, view, calls>>
  PROVE  ListInv'
<1>1. Typed'
  BY SamePage DEF ListInv, Typed
<1>2. Spins' /\ Busy' /\ Selected' /\ Unchosen'
  BY DEF ListInv, Spins, Busy, Selected, SelectionIsShown, Shown, Unchosen
<1> QED
  BY <1>1, <1>2 DEF ListInv

(* A control; on Resultats there is none before an election is chosen.     *)
LEMMA TurnStep ==
  ASSUME ListInv, Turn
  PROVE  ListInv'
<1>1. PICK m \in Controls : view' = Asks(m.view, m.asks) /\ calls' = Sent(calls, m.asks)
  BY DEF Turn
<1>2. Asked(view, m)
  BY ControlsAsked DEF ListInv, Typed
<1>3. page = "resultats" => view.q.group # "none"
  <2>1. page = "resultats" /\ view.q.group = "none" => Bar = {}
    BY DEF Bar
  <2>2. page = "resultats" => Controls = {Effect(w) : w \in Bar}
    BY DEF Controls
  <2> QED
    BY <2>1, <2>2
<1>4. UNCHANGED page
  BY DEF Turn
<1> QED
  BY <1>1, <1>2, <1>3, <1>4, AskStep

(* The text searched.                                                      *)
LEMMA DebounceStep ==
  ASSUME ListInv, Debounce
  PROVE  ListInv'
<1>1. PICK m : /\ m = IF page = "users" THEN Change([view EXCEPT !.debounced = view.typed], <<>>)
                                        ELSE Effect(Debounced(view))
               /\ view' = Asks(m.view, m.asks) /\ calls' = Sent(calls, m.asks)
  BY DEF Debounce
<1>2. Asked(view, m)
  BY <1>1, DebounceAsked DEF ListInv, Typed
<1>3. page = "resultats" => m.view.q.group = view.q.group
  <2> SUFFICES ASSUME page = "resultats"
               PROVE  m.view.q.group = view.q.group
    OBVIOUS
  <2> DEFINE w == Debounced(view)
  <2>1. m = Effects(view, w)
    BY <1>1 DEF Effect, ResultatsEffects
  <2>2. IsView(w) /\ w.q.group = view.q.group
    BY DEF ListInv, Typed, Debounced, IsView, IsQuery
  <2> HIDE DEF w
  <2>3. m.view.q.group = w.q.group
    BY <2>1, <2>2 DEF Effects, Change, IsView, IsQuery
  <2> QED
    BY <2>2, <2>3
<1>4. UNCHANGED page
  BY DEF Debounce
<1> QED
  BY <1>1, <1>2, <1>3, <1>4, AskStep

(* An action is sent, with its button.                                     *)
LEMMA ActStep ==
  ASSUME ListInv, Act
  PROVE  ListInv'
<1> USE DEF ListInv
<1>1. PICK a \in Offered :
         /\ calls' = calls \cup {[Call(Latest(calls) + 1, a.op, view.q) EXCEPT
                                      !.ids = a.ids, !.then = a.then, !.mark = a.mark]}
         /\ view' = CASE page = "scrutins" -> ScrutinsStart(view, a)
                      [] page # "scrutins" /\ a.mark # Free -> [view EXCEPT !.busy = @ \cup {a.mark}]
                      [] OTHER -> view
  BY DEF Act
<1>2. PICK c : /\ c = [Call(Latest(calls) + 1, a.op, view.q) EXCEPT
                           !.ids = a.ids, !.then = a.then, !.mark = a.mark]
               /\ calls' = calls \cup {c}
  BY <1>1
<1>3. IsOffer(a) /\ page' = page
  BY OfferedOffers DEF Typed, Act
<1>4. IsCall(c) /\ c.mark = a.mark /\ c.op \notin Loads
  <2>1. IsQuery(view.q)
    BY DEF Typed, IsView
  <2>2. IsAsks(a.then)
    BY <1>3 DEF IsOffer, Reloaded, IsAsks
  <2> QED
    BY <1>2, <1>3, <2>1, <2>2 DEF Call, IsCall, IsOffer, Loads, Reads
<1>5. /\ IsView(view') /\ view'.q = view.q /\ view'.rows = view.rows /\ view'.failed = view.failed
      /\ view'.selected = view.selected /\ view'.loading = view.loading
      /\ \A b \in view'.busy : b \in view.busy \/ (b = a.mark /\ b # Free)
  <2>1. CASE page = "scrutins"
    <3>1. view' = [view EXCEPT !.busy = {a.mark}]
      BY <1>1, <2>1 DEF ScrutinsStart
    <3> QED
      BY <2>1, <3>1, <1>3 DEF Typed, IsView, IsQuery, IsOffer
  <2>2. CASE page # "scrutins" /\ a.mark # Free
    <3>1. view' = [view EXCEPT !.busy = @ \cup {a.mark}]
      BY <1>1, <2>2
    <3> QED
      BY <2>2, <3>1 DEF Typed, IsView, IsQuery
  <2>3. CASE page # "scrutins" /\ a.mark = Free
    BY <1>1, <2>3 DEF Typed
  <2> QED
    BY <2>1, <2>2, <2>3
<1>6. Typed'
  <2>1. IsView(view)'
    BY <1>3, <1>5, SamePage
  <2>2. \A d : IsCall(d) => IsCall(d)'
    BY <1>3, SamePage
  <2> QED
    BY <1>2, <1>3, <1>4, <2>1, <2>2 DEF Typed
<1>7. Spins' /\ Busy'
  <2>1. calls \subseteq calls' /\ c \in calls' /\ c.mark = a.mark
    BY <1>2, <1>4
  <2>2. Spins'
    BY <2>1, <1>5 DEF Spins
  <2>3. Busy'
    BY <2>1, <1>5 DEF Busy
  <2> QED
    BY <2>2, <2>3
<1>8. Selected'
  <2>1. Shown(view') = Shown(view)
    BY <1>5 DEF Shown
  <2> QED
    BY <1>3, <1>5, <2>1 DEF Selected, SelectionIsShown
<1>9. Unchosen'
  <2>1. c.op # "elections"
    BY <1>4 DEF Loads, Reads
  <2>2. \A d \in calls' : d.op = "elections" => d \in calls
    BY <1>2, <2>1
  <2> QED
    BY <1>3, <1>5, <2>2 DEF Unchosen
<1> QED
  BY <1>6, <1>7, <1>8, <1>9

(* The server answers, or the answer is lost: the call is still in flight. *)
LEMMA ServeStep ==
  ASSUME ListInv, NEW c \in calls, ServeRows(c) \/ ServeAction(c) \/ ServePoll(c) \/ Lose(c)
  PROVE  ListInv'
<1>0. IsCall(c)
  BY DEF ListInv, Typed
<1>1. \E d : IsCall(d) /\ d.mark = c.mark /\ d.op = c.op /\ Set(c, d)
  <2>1. CASE ServeRows(c)
    BY <1>0, <2>1 DEF ServeRows, IsCall
  <2>2. CASE ServeAction(c)
    BY <1>0, <2>2 DEF ServeAction, IsCall
  <2>3. CASE ServePoll(c)
    BY <1>0, <2>3 DEF ServePoll, IsCall
  <2>4. CASE Lose(c)
    BY <1>0, <2>4 DEF Lose, IsCall
  <2> QED
    BY <2>1, <2>2, <2>3, <2>4
<1>2. UNCHANGED <<page, view>>
  BY DEF ServeRows, ServeAction, ServePoll, Lose
<1> QED
  BY <1>1, <1>2, ReplaceStep

(* An answer ends the spinner, and keeps no button.                        *)
LEMMA HearRowsStep ==
  ASSUME ListInv, NEW c \in calls, HearRows(c)
  PROVE  ListInv'
<1> USE DEF ListInv
<1>1. IsCall(c) /\ c.op \in Reads /\ c.mark = Free /\ page' = page
      /\ view' = Load(c) /\ calls' = calls \ {c}
  BY DEF Typed, HearRows, IsCall, Loads, Reads
<1>2. Loaded(view, c, view')
  BY <1>1, AnswerLoads DEF Typed, IsCall
<1>3. Typed'
  BY <1>1, <1>2, SamePage DEF Typed, Loaded
<1>4. Spins' /\ Busy'
  BY <1>1, <1>2 DEF Spins, Busy, Loaded
<1>5. Selected'
  BY <1>1, <1>2 DEF Selected, SelectionIsShown, Loaded
<1>6. Unchosen'
  <2>1. page = "resultats" => view'.q = view.q
    <3> SUFFICES ASSUME page = "resultats"
                 PROVE  view'.q = view.q
      OBVIOUS
    <3>1. view' = ResultatsLoad(view, c)
      BY <1>1 DEF Load
    <3>2. Show(view, c).q = view.q /\ DOMAIN Show(view, c) = DOMAIN view
          /\ Kept(view).q = view.q /\ DOMAIN Kept(view) = DOMAIN view
      BY DEF Typed, IsView, Show, Kept
    <3>3. CASE c.status = "ok"
      BY <3>1, <3>2, <3>3 DEF ResultatsLoad, Typed, IsView
    <3>4. CASE c.status # "ok"
      BY <3>1, <3>2, <3>4 DEF ResultatsLoad, Typed, IsView
    <3> QED
      BY <3>3, <3>4
  <2> QED
    BY <1>1, <2>1 DEF Unchosen
<1> QED
  BY <1>3, <1>4, <1>5, <1>6

(* The election is there: its results are asked, the spinner turns on.      *)
LEMMA HearDetailStep ==
  ASSUME ListInv, NEW c \in calls, HearDetail(c)
  PROVE  ListInv'
<1> USE DEF ListInv
<1>1. PICK d : d = [c EXCEPT !.op = "final", !.status = "sent", !.ans = NoAnswer]
  OBVIOUS
<1>2. /\ page' = page /\ page = "resultats" /\ IsCall(c) /\ c.op = "load"
      /\ calls' = (calls \ {c}) \cup {d} /\ view' = [view EXCEPT !.detail = c.ans.detail]
  BY <1>1 DEF HearDetail, GoesOn, Set, ResultatsDetail, Typed
<1>3. IsCall(d) /\ d.op = "final" /\ d.mark = c.mark
  BY <1>1, <1>2 DEF IsCall, Loads, Reads
<1>4. /\ IsView(view') /\ view'.q = view.q /\ view'.busy = view.busy
      /\ view'.selected = view.selected
  BY <1>2 DEF Typed, IsView, IsQuery
<1>5. Typed'
  BY <1>2, <1>3, <1>4, SamePage DEF Typed
<1>6. Spins' /\ Busy'
  BY <1>2, <1>3, <1>4 DEF Spins, Busy, Loads, Reads
<1>7. Selected' /\ Unchosen'
  BY <1>2, <1>3, <1>4 DEF Selected, Unchosen
<1> QED
  BY <1>5, <1>6, <1>7

(* The elections came: a load is asked, or the spinner ended.              *)
LEMMA HearElectionsStep ==
  ASSUME ListInv, NEW c \in calls, HearElections(c)
  PROVE  ListInv'
<1> USE DEF ListInv
<1>1. PICK g \in Group :
         LET m == CASE c.status # "ok"       -> [view |-> [view EXCEPT !.loading = FALSE], asks |-> <<>>]
                    [] c.status = "ok" /\ page = "resultats" -> ResultatsElections(view, g)
                    [] OTHER                 -> StaffElections(view)
         IN  view' = Asks(m.view, m.asks) /\ calls' = Sent(calls \ {c}, m.asks)
  BY DEF HearElections
<1>2. PICK m : /\ m = CASE c.status # "ok"  -> [view |-> [view EXCEPT !.loading = FALSE], asks |-> <<>>]
                         [] c.status = "ok" /\ page = "resultats" -> ResultatsElections(view, g)
                         [] OTHER            -> StaffElections(view)
               /\ view' = Asks(m.view, m.asks) /\ calls' = Sent(calls \ {c}, m.asks)
  BY <1>1
<1>3. IsCall(c) /\ c.op = "elections" /\ c.mark = Free /\ page' = page /\ IsView(view)
  BY DEF Typed, HearElections, IsCall, Loads, Reads
<1>4. /\ IsView(m.view) /\ IsAsks(m.asks) /\ m.view.rows = view.rows /\ m.view.busy = view.busy
      /\ m.view.failed = view.failed /\ m.view.selected = view.selected
      /\ m.view.loading = (m.asks # <<>>)
      /\ page # "candidats" => m.view.q.tab = view.q.tab
  <2>1. CASE c.status # "ok"
    <3>1. m = [view |-> [view EXCEPT !.loading = FALSE], asks |-> <<>>]
      BY <1>2, <2>1
    <3> QED
      BY <1>3, <3>1 DEF IsView, IsQuery, IsAsks
  <2>2. CASE c.status = "ok" /\ page = "resultats"
    <3> DEFINE w == [view EXCEPT !.q.group = g]
    <3>1. m = Effects(view, w)
      BY <1>2, <2>2 DEF ResultatsElections
    <3>2. Only(view, w) /\ w.q.group = g
      BY <1>3, <2>2 DEF Only, Keeps, IsView, IsQuery
    <3>3. Asked(view, m)
      BY <1>3, <3>1, <3>2, EffectsAsk
    <3>4. m.asks # <<>>
      <4>1. view.q.group = "none" /\ g # "none"
        BY <1>3, <2>2, ListConstants DEF Unchosen
      <4>2. Criteria(w.q) # Criteria(view.q)
        <5>1. Criteria(w.q).group = g /\ Criteria(view.q).group = "none"
          <6>1. IsQuery(w.q) /\ IsQuery(view.q)
            BY <1>3, <3>2 DEF Only, Keeps, IsView
          <6> HIDE DEF w
          <6> QED
            BY <3>2, <4>1, <6>1 DEF Criteria, IsQuery
        <5> QED
          BY <4>1, <5>1
      <4> HIDE DEF w
      <4>3. m.asks = <<w.q>> \/ m.asks = <<w.q, Criteria(w.q)>>
        <5>1. CASE w.q.page = 1
          <6>1. m = Change([w EXCEPT !.q.page = 1], <<w.q>>)
            BY <3>1, <4>2, <5>1, TwoAsks DEF Effects
          <6> QED
            BY <6>1 DEF Change
        <5>2. CASE w.q.page # 1
          <6>1. m = Change([w EXCEPT !.q.page = 1], <<w.q, Criteria(w.q)>>)
            BY <3>1, <4>2, <5>2, TwoAsks DEF Effects
          <6> QED
            BY <6>1 DEF Change
        <5> QED
          BY <5>1, <5>2
      <4> QED
        BY <4>3, TwoAsks
    <3> QED
      BY <2>2, <3>3, <3>4, <1>3 DEF Asked, Keeps, IsView, IsQuery
  <2>3. CASE c.status = "ok" /\ page # "resultats"
    <3>1. m = Change([view EXCEPT !.loading = FALSE], <<view.q>>)
      BY <1>2, <2>3 DEF StaffElections
    <3>2. IsAsks(<<view.q>>) /\ <<view.q>> # <<>>
      BY <1>3 DEF IsAsks, IsView
    <3> QED
      BY <1>3, <3>1, <3>2 DEF Change, IsView, IsQuery
  <2> QED
    BY <2>1, <2>2, <2>3
<1>5. /\ IsView(view') /\ view'.loading = (m.asks # <<>>)
      /\ view'.q = m.view.q /\ view'.busy = view.busy /\ view'.failed = view.failed
      /\ view'.selected = view.selected /\ (page # "resultats" => view'.rows = view.rows)
  <2>1. LET u == Asks(m.view, m.asks) IN
        /\ IsView(u) /\ u.loading = (m.view.loading \/ m.asks # <<>>)
        /\ u.q = m.view.q /\ u.busy = m.view.busy /\ u.failed = m.view.failed
        /\ u.selected = m.view.selected /\ (page # "resultats" => u.rows = m.view.rows)
    BY <1>4, AsksLeave
  <2>2. (m.view.loading \/ m.asks # <<>>) = (m.asks # <<>>)
    BY <1>4
  <2> QED
    BY <1>2, <1>4, <2>1, <2>2
<1>6. /\ calls \ {c} \subseteq calls'
      /\ \A d \in calls' : d \in calls \ {c} \/ (IsCall(d) /\ d.op = "load")
      /\ m.asks # <<>> => \E d \in calls' : d.op = "load"
  BY <1>2, <1>4, SentAre
<1>7. Typed'
  BY <1>3, <1>5, <1>6, SamePage DEF Typed
<1>8. Spins' /\ Busy'
  BY <1>3, <1>5, <1>6 DEF Spins, Busy, Loads, Reads
<1>9. Selected'
  BY <1>3, <1>4, <1>5 DEF Selected, SelectionIsShown, Shown
<1>10. Unchosen'
  BY <1>3, <1>6 DEF Unchosen
<1> QED
  BY <1>7, <1>8, <1>9, <1>10

(* A view in which the call c has ended.                                   *)
Freed(c, w) ==
    /\ IsView(w) /\ w.q = view.q /\ w.rows = view.rows /\ w.failed = view.failed
    /\ w.loading = view.loading /\ (w.selected = view.selected \/ w.selected = {})
    /\ w.busy \subseteq view.busy /\ (c.mark = Free \/ c.mark \notin w.busy)
    /\ w.of = view.of /\ w.notReady = view.notReady /\ w.typed = view.typed
    /\ w.debounced = view.debounced

(* What the end of a call makes of the view.                               *)
LEMMA EndedFrees ==
  ASSUME IsView(view), NEW c
  PROVE  /\ Freed(c, Ended(view, c)) /\ Freed(c, Ended(ElecteursSent(view), c))
         /\ c.mark = Free => Freed(c, view)
<1>1. Freed(c, Ended(view, c))
  BY DEF Freed, Ended, ScrutinsDone, IsView, IsQuery
<1>2. Freed(c, Ended(ElecteursSent(view), c))
  BY DEF Freed, Ended, ScrutinsDone, ElecteursSent, IsView, IsQuery
<1>3. c.mark = Free => Freed(c, view)
  BY DEF Freed
<1> QED
  BY <1>1, <1>2, <1>3

(* A call ends, with the loads that follow it; or without.                 *)
LEMMA FreedStep ==
  ASSUME ListInv, UNCHANGED page, NEW c \in calls, c.op \notin Loads, NEW w, Freed(c, w),
         NEW asks, IsAsks(asks), view' = Asks(w, asks), calls' = Sent(calls \ {c}, asks)
  PROVE  ListInv'
<1>1. /\ IsView(view') /\ view'.loading = (w.loading \/ asks # <<>>)
      /\ view'.q = w.q /\ view'.busy = w.busy /\ view'.failed = w.failed
      /\ view'.selected = w.selected /\ (page # "resultats" => view'.rows = w.rows)
  BY AsksLeave DEF Freed
<1>2. /\ calls \ {c} \subseteq calls'
      /\ \A d \in calls' : d \in calls \/ (IsCall(d) /\ d.op = "load")
      /\ asks # <<>> => \E d \in calls' : d.op = "load"
  BY SentAre
<1>3. view'.loading => view.loading \/ \E d \in calls' : d.op = "load"
  BY <1>1, <1>2 DEF Freed
<1> QED
  BY <1>1, <1>2, <1>3, EndStep DEF Freed

(* A call ends, and nothing follows.                                       *)
LEMMA DroppedStep ==
  ASSUME ListInv, UNCHANGED page, NEW c \in calls, c.op \notin Loads, Freed(c, view'),
         calls' = calls \ {c}
  PROVE  ListInv'
  BY EndStep DEF Freed

(* An action succeeded, failed; an import was polled; a timer fired.       *)
LEMMA HearActionStep ==
  ASSUME ListInv, NEW c \in calls, HearAction(c)
  PROVE  ListInv'
<1>1. /\ IsCall(c) /\ IsView(view) /\ UNCHANGED page
      /\ c.op \notin Loads \cup {"poll", "timer"}
  BY DEF ListInv, Typed, HearAction
<1>2. CASE c.op = "import"
  <2>1. Set(c, [c EXCEPT !.op = "poll", !.status = "sent"]) /\ UNCHANGED view
    BY <1>2 DEF HearAction
  <2>2. LET d == [c EXCEPT !.op = "poll", !.status = "sent"] IN
        IsCall(d) /\ d.mark = c.mark /\ d.op = "poll"
    BY <1>1, <1>2 DEF IsCall, Loads, Reads
  <2>3. {c.op, "poll"} \cap Loads = {}
    BY <1>2 DEF Loads, Reads
  <2> QED
    BY <1>1, <2>1, <2>2, <2>3, ReplaceStep
<1>3. CASE c.op = "calculate"
  <2>1. Set(c, [c EXCEPT !.op = "timer"]) /\ UNCHANGED view
    BY <1>3 DEF HearAction
  <2>2. LET d == [c EXCEPT !.op = "timer"] IN
        IsCall(d) /\ d.mark = c.mark /\ d.op = "timer"
    BY <1>1, <1>3 DEF IsCall, Loads, Reads
  <2>3. {c.op, "timer"} \cap Loads = {}
    BY <1>3 DEF Loads, Reads
  <2> QED
    BY <1>1, <2>1, <2>2, <2>3, ReplaceStep
<1>4. CASE c.op \notin {"import", "calculate"}
  <2>1. PICK w : /\ w = Ended(view, c) \/ w = Ended(ElecteursSent(view), c)
                 /\ view' = Asks(w, c.then) /\ calls' = Sent(calls \ {c}, c.then)
    BY <1>4 DEF HearAction
  <2>2. Freed(c, w)
    BY <1>1, <2>1, EndedFrees
  <2> QED
    BY <1>1, <2>1, <2>2, FreedStep DEF IsCall
<1> QED
  BY <1>2, <1>3, <1>4

(* It failed: the button is free again.                                    *)
LEMMA HearErrorStep ==
  ASSUME ListInv, NEW c \in calls, HearError(c)
  PROVE  ListInv'
<1>1. UNCHANGED page /\ c.op \notin Loads /\ calls' = calls \ {c} /\ view' = Ended(view, c)
  BY DEF HearError
<1>2. Freed(c, view')
  BY <1>1, EndedFrees DEF ListInv, Typed
<1> QED
  BY <1>1, <1>2, DroppedStep

(* A poll is heard.                                                        *)
LEMMA HearPollStep ==
  ASSUME ListInv, NEW c \in calls, HearPoll(c)
  PROVE  ListInv'
<1>1. IsCall(c) /\ IsView(view) /\ UNCHANGED page /\ c.op = "poll" /\ c.op \notin Loads
  BY DEF ListInv, Typed, HearPoll, Loads, Reads
<1>2. Freed(c, view)
  BY <1>1, EndedFrees DEF IsCall
<1>3. CASE calls' = Sent(calls \ {c}, c.then) /\ view' = Asks(view, c.then)
  BY <1>1, <1>2, <1>3, FreedStep DEF IsCall
<1>4. CASE calls' = calls \ {c} /\ UNCHANGED view
  BY <1>1, <1>2, <1>4, DroppedStep
<1>5. CASE calls' = (calls \ {c}) \cup {[c EXCEPT !.status = "sent", !.tries = @ + 1]} /\ UNCHANGED view
  <2>1. LET d == [c EXCEPT !.status = "sent", !.tries = @ + 1] IN
        IsCall(d) /\ d.mark = c.mark /\ d.op = c.op
    BY <1>1 DEF IsCall
  <2> QED
    BY <1>1, <1>5, <2>1, ReplaceStep DEF Set
<1>6. \/ calls' = Sent(calls \ {c}, c.then) /\ view' = Asks(view, c.then)
      \/ calls' = calls \ {c} /\ UNCHANGED view
      \/ calls' = (calls \ {c}) \cup {[c EXCEPT !.status = "sent", !.tries = @ + 1]} /\ UNCHANGED view
  BY DEF HearPoll
<1> QED
  BY <1>3, <1>4, <1>5, <1>6

(* The timer of a calculation fires.                                       *)
LEMMA FireStep ==
  ASSUME ListInv, NEW c \in calls, Fire(c)
  PROVE  ListInv'
<1>1. IsCall(c) /\ IsView(view) /\ UNCHANGED page /\ c.op \notin Loads
  BY DEF ListInv, Typed, Fire, Loads, Reads
<1>2. Freed(c, Ended(view, c))
  BY <1>1, EndedFrees
<1>3. calls' = Sent(calls \ {c}, c.then) /\ view' = Asks(Ended(view, c), c.then)
  BY DEF Fire
<1> QED
  BY <1>1, <1>2, <1>3, FreedStep DEF IsCall

(* Every step keeps the invariant.                                         *)
LEMMA ListStep ==
  ASSUME ListInv, [Next]_vars
  PROVE  ListInv'
<1>1. CASE UNCHANGED vars
  BY <1>1, StillStep DEF vars
<1>2. ASSUME NEW j \in jobs, Work(j)
      PROVE  ListInv'
  BY <1>2, StillStep DEF Work
<1>3. ASSUME NEW c \in calls,
             ServeRows(c) \/ ServeAction(c) \/ ServePoll(c) \/ Lose(c) \/ HearDetail(c) \/ HearRows(c)
                 \/ HearElections(c) \/ HearAction(c) \/ HearError(c) \/ HearPoll(c) \/ Fire(c)
      PROVE  ListInv'
  BY <1>3, ServeStep, HearDetailStep, HearRowsStep, HearElectionsStep, HearActionStep, HearErrorStep,
     HearPollStep, FireStep
<1> QED
  BY <1>1, <1>2, <1>3, TurnStep, DebounceStep, ActStep DEF Next

(* The invariant holds always.                                             *)
LEMMA ListHolds == Spec => []ListInv
  BY InitList, ListStep, PTL DEF Spec

(* SpinnersHaveCalls: whatever is clicked, lost or answered late, a        *)
(* spinner has a load in flight, and a disabled button the call whose end  *)
(* enables it again.                                                       *)
THEOREM SpinnersEnd == Spec => []SpinnersHaveCalls
<1>1. ListInv => SpinnersHaveCalls
  BY DEF ListInv, Spins, Busy, SpinnersHaveCalls
<1> QED
  BY <1>1, ListHolds, PTL

(* SelectionIsShown: a bulk action of Electeurs is about electors on the   *)
(* screen, or the last load failed.                                        *)
THEOREM SelectedAreShown == Spec => []SelectionIsShown
<1>1. ListInv => SelectionIsShown
  BY DEF ListInv, Selected, SelectionIsShown
<1> QED
  BY <1>1, ListHolds, PTL

-----------------------------------------------------------------------------
(* The rows of the server, deleted ones included, have distinct numbers up *)
(* to their count, so that the next one is free.                           *)
Fields == {"id", "tab", "group", "status", "from", "email", "edited", "results"}

NumberedIn(S) ==
    /\ IsFiniteSet(S)
    /\ \A r \in S : DOMAIN r = Fields /\ r.id \in 1..Cardinality(S)
    /\ \A r, s \in S : r.id = s.id => r = s

(* The candidates of an election have distinct addresses, the index sees   *)
(* to it; one that comes of an application has that of the application, or *)
(* had it changed.                                                         *)
Twice(r, s) ==
    r.tab = "main" /\ s.tab = "main" /\ r.group = s.group /\ r.email = s.email /\ r.email # "none"

Origin(r, a) ==
    /\ a.id = r.from /\ a.tab = "applications" /\ a.group = r.group
    /\ r.edited \/ r.email = a.email

IndexedIn(S) ==
    /\ \A r \in S : r.edited \in BOOLEAN /\ (r.tab = "applications" => r.email # "none")
    /\ \A r, s \in S : Twice(r, s) => r = s
    /\ \A r \in S : r.from # 0 => r.tab = "main" /\ \E a \in S : Origin(r, a)

Numbered == NumberedIn(server)
Indexed == IndexedIn(server)

Inv == ListInv /\ Numbered /\ Indexed

(* The same row, with another status, or other results, or edited.         *)
Same(r, k) ==
    /\ DOMAIN k = DOMAIN r /\ k.id = r.id /\ k.tab = r.tab /\ k.group = r.group /\ k.from = r.from
    /\ k.edited \in BOOLEAN /\ (r.edited => k.edited)
    /\ k.email = r.email \/ (k.tab = "main" /\ k.edited)

(* The same rows, whose addresses are still distinct.                      *)
Twins(kept) ==
    \E f \in [server -> kept] :
        /\ kept = {f[r] : r \in server}
        /\ \A r \in server : Same(r, f[r])
        /\ \A r, s \in server : Twice(f[r], f[s]) => r = s

(* Both facts hold of them.                                                *)
LEMMA TwinsAre ==
  ASSUME Numbered, Indexed, NEW kept, Twins(kept)
  PROVE  NumberedIn(kept) /\ IndexedIn(kept) /\ Cardinality(kept) = Cardinality(server)
<1>1. PICK f \in [server -> kept] :
        /\ kept = {f[r] : r \in server}
        /\ \A r \in server : Same(r, f[r])
        /\ \A r, s \in server : Twice(f[r], f[s]) => r = s
  BY DEF Twins
<1>2. f \in Surjection(server, kept)
  BY <1>1 DEF Surjection
<1>3. \A r, s \in server : f[r] = f[s] => r = s
  BY <1>1 DEF Numbered, NumberedIn, Same
<1>4. f \in Injection(server, kept)
  BY <1>3 DEF Injection, IsInjective
<1>5. IsFiniteSet(kept) /\ Cardinality(kept) = Cardinality(server)
  BY <1>2, <1>4, FS_Surjection DEF Numbered, NumberedIn
<1>6. NumberedIn(kept)
  <2>1. \A k \in kept : DOMAIN k = Fields /\ k.id \in 1..Cardinality(server)
    BY <1>1 DEF Numbered, NumberedIn, Same
  <2>2. \A k, l \in kept : k.id = l.id => k = l
    BY <1>1 DEF Numbered, NumberedIn, Same
  <2> QED
    BY <1>5, <2>1, <2>2 DEF NumberedIn
<1>7. \A k \in kept : k.edited \in BOOLEAN /\ (k.tab = "applications" => k.email # "none")
  BY <1>1 DEF Indexed, IndexedIn, Same
<1>8. \A k, l \in kept : Twice(k, l) => k = l
  BY <1>1
<1>9. ASSUME NEW r \in server, f[r].from # 0
      PROVE  f[r].tab = "main" /\ \E a \in kept : Origin(f[r], a)
  <2>1. Same(r, f[r]) /\ r.from # 0
    BY <1>1, <1>9 DEF Same
  <2>2. r.tab = "main"
    BY <2>1 DEF Indexed, IndexedIn
  <2>3. PICK a \in server : Origin(r, a)
    BY <2>1 DEF Indexed, IndexedIn
  <2>4. Same(a, f[a]) /\ f[a] \in kept
    BY <1>1
  <2>5. f[a].email = a.email
    BY <2>3, <2>4 DEF Origin, Same
  <2>6. Origin(f[r], f[a])
    BY <2>1, <2>3, <2>4, <2>5 DEF Origin, Same
  <2> QED
    BY <2>1, <2>2, <2>4, <2>6 DEF Same
<1>10. \A k \in kept : k.from # 0 => k.tab = "main" /\ \E a \in kept : Origin(k, a)
  BY <1>1, <1>9
<1> QED
  BY <1>5, <1>6, <1>7, <1>8, <1>10 DEF IndexedIn

(* A row is added under the next number: a candidate, whose address no     *)
(* other of the election has.                                              *)
LEMMA RowAdded ==
  ASSUME NEW S, NumberedIn(S), IndexedIn(S), NEW new,
         DOMAIN new = Fields, new.id = Cardinality(S) + 1, new.tab = "main", new.edited = FALSE,
         \A r \in S : ~Twice(r, new) /\ ~Twice(new, r),
         new.from = 0 \/ \E a \in S : Origin(new, a)
  PROVE  NumberedIn(S \cup {new}) /\ IndexedIn(S \cup {new})
<1> DEFINE n == Cardinality(S)
           T == S \cup {new}
<1>1. n \in Nat
  BY FS_CardinalityType DEF NumberedIn
<1>2. \A k \in S : k.id \in 1..n /\ k.id # new.id
  BY <1>1 DEF NumberedIn
<1>3. IsFiniteSet(T) /\ Cardinality(T) = n + 1
  BY <1>2, FS_AddElement DEF NumberedIn
<1>4. new.id = n + 1
  OBVIOUS
<1> HIDE DEF n
<1>5. \A k \in T : DOMAIN k = Fields /\ k.id \in 1..(n + 1)
  BY <1>1, <1>2, <1>4 DEF NumberedIn
<1>6. \A k, l \in T : k.id = l.id => k = l
  BY <1>2 DEF NumberedIn
<1>7. NumberedIn(T)
  BY <1>3, <1>5, <1>6 DEF NumberedIn
<1>8. \A k \in T : k.edited \in BOOLEAN /\ (k.tab = "applications" => k.email # "none")
  BY DEF IndexedIn
<1>9. \A k, l \in T : Twice(k, l) => k = l
  BY DEF IndexedIn
<1>10. \A k \in T : k.from # 0 => k.tab = "main" /\ \E a \in T : Origin(k, a)
  BY DEF IndexedIn
<1>11. IndexedIn(T)
  BY <1>8, <1>9, <1>10 DEF IndexedIn
<1> QED
  BY <1>7, <1>11

(* New rows, by their fields.                                              *)
LEMMA NewRows ==
  \A tab, group, status, email, from :
     LET r == Row(Fresh, tab, group, status)
         s == [r EXCEPT !.email = email]
         t == [r EXCEPT !.from = from, !.email = email]
     IN  /\ DOMAIN r = Fields /\ DOMAIN s = Fields /\ DOMAIN t = Fields
         /\ r.id = Cardinality(server) + 1 /\ s.id = Cardinality(server) + 1
         /\ t.id = Cardinality(server) + 1
         /\ r.tab = tab /\ s.tab = tab /\ t.tab = tab
         /\ r.edited = FALSE /\ s.edited = FALSE /\ t.edited = FALSE
         /\ r.group = group /\ s.group = group /\ t.group = group
         /\ r.email = "none" /\ s.email = email /\ t.email = email
         /\ r.from = 0 /\ s.from = 0 /\ t.from = from
  BY DEF Row, Fresh, Fields

(* A queued job: a row added, or the results calculated.                   *)
LEMMA WorkRows ==
  ASSUME Numbered, Indexed, NEW j \in jobs, Work(j)
  PROVE  Numbered' /\ Indexed'
<1>1. server' = server \/ server' \in Done(j)
  BY DEF Work
<1>2. CASE server' = server
  BY <1>2 DEF Numbered, Indexed
<1>3. CASE server' = {IF r.group = j.group THEN [r EXCEPT !.results = @ + 1] ELSE r : r \in server}
  <2> DEFINE f == [r \in server |-> IF r.group = j.group THEN [r EXCEPT !.results = @ + 1] ELSE r]
  <2>1. f \in [server -> server'] /\ server' = {f[r] : r \in server}
    BY <1>3
  <2>2. \A r \in server : DOMAIN r = Fields
    BY DEF Numbered, NumberedIn
  <2>3. ASSUME NEW r \in server
        PROVE  /\ DOMAIN f[r] = DOMAIN r /\ f[r].id = r.id /\ f[r].tab = r.tab
               /\ f[r].group = r.group /\ f[r].from = r.from /\ f[r].edited = r.edited
               /\ f[r].email = r.email
    BY <2>2 DEF Fields
  <2> HIDE DEF f
  <2>4. \A r \in server : Same(r, f[r])
    BY <2>3 DEF Same, Indexed, IndexedIn
  <2>5. \A r, s \in server : Twice(f[r], f[s]) => r = s
    BY <2>3 DEF Twice, Indexed, IndexedIn
  <2>6. Twins(server')
    BY <2>1, <2>4, <2>5 DEF Twins
  <2>7. PICK kept : kept = server'
    OBVIOUS
  <2> QED
    BY <2>6, <2>7, TwinsAre DEF Numbered, Indexed
<1>4. CASE \E e \in Email : /\ ~Taken(e, j.group, 0)
                            /\ server' = server \cup {[Row(Fresh, "main", j.group, "approved") EXCEPT
                                                          !.email = e]}
  <2>1. PICK e : /\ ~Taken(e, j.group, 0)
                 /\ server' = server \cup {[Row(Fresh, "main", j.group, "approved") EXCEPT !.email = e]}
    BY <1>4
  <2>2. PICK new : new = [Row(Fresh, "main", j.group, "approved") EXCEPT !.email = e]
    OBVIOUS
  <2>3. /\ DOMAIN new = Fields /\ new.id = Cardinality(server) + 1 /\ new.tab = "main"
        /\ new.edited = FALSE /\ new.group = j.group /\ new.email = e /\ new.from = 0
    BY <2>2, NewRows
  <2>4. \A s \in server : s.id # 0
    BY FS_CardinalityType DEF Numbered, NumberedIn
  <2>5. \A r \in server : ~Twice(r, new) /\ ~Twice(new, r)
    BY <2>1, <2>3, <2>4 DEF Twice, Taken
  <2> QED
    BY <2>1, <2>2, <2>3, <2>5, RowAdded DEF Numbered, Indexed
<1>5. CASE server' = server \cup {Row(Fresh, "main", j.group, "pending")}
  <2>1. PICK new : new = Row(Fresh, "main", j.group, "pending")
    OBVIOUS
  <2>2. /\ DOMAIN new = Fields /\ new.id = Cardinality(server) + 1 /\ new.tab = "main"
        /\ new.edited = FALSE /\ new.email = "none" /\ new.from = 0
    BY <2>1, NewRows
  <2>3. \A r \in server : ~Twice(r, new) /\ ~Twice(new, r)
    BY <2>2 DEF Twice
  <2> QED
    BY <1>5, <2>1, <2>2, <2>3, RowAdded DEF Numbered, Indexed
<1>6. \/ server' = server
      \/ server' = {IF r.group = j.group THEN [r EXCEPT !.results = @ + 1] ELSE r : r \in server}
      \/ \E e \in Email : /\ ~Taken(e, j.group, 0)
                          /\ server' = server \cup {[Row(Fresh, "main", j.group, "approved") EXCEPT
                                                        !.email = e]}
      \/ server' = server \cup {Row(Fresh, "main", j.group, "pending")}
  BY <1>1 DEF Done
<1> QED
  BY <1>2, <1>3, <1>4, <1>5, <1>6

(* What a call writes in the rows it hits: an address only when a form is  *)
(* saved, which is that of one candidate.                                  *)
LEMMA WrittenTwins ==
  ASSUME Numbered, Indexed, NEW c, IsCall(c), NEW typed \in Typable(c.op),
         NEW hit, hit \subseteq server, \A r \in hit : r.id \in c.ids /\ Accepts(c.op, r, typed)
  PROVE  Twins((server \ hit) \cup {Written(c.op, r, typed) : r \in hit})
<1> DEFINE kept == (server \ hit) \cup {Written(c.op, r, typed) : r \in hit}
           f == [r \in server |-> IF r \in hit THEN Written(c.op, r, typed) ELSE r]
<1>1. f \in [server -> kept] /\ kept = {f[r] : r \in server}
  OBVIOUS
<1>2. /\ \A r \in hit : f[r] = Written(c.op, r, typed)
      /\ \A r \in server \ hit : f[r] = r
  OBVIOUS
<1> HIDE DEF f, kept
<1>3. \A r \in server : DOMAIN r = Fields /\ r.edited \in BOOLEAN
  BY DEF Numbered, NumberedIn, Indexed, IndexedIn
<1>4. ASSUME NEW r \in server
      PROVE  /\ Same(r, f[r])
             /\ f[r].email = r.email \/ (c.op = "save" /\ r \in hit /\ f[r].email = typed)
  <2>1. CASE r \notin hit
    BY <1>2, <1>3, <2>1 DEF Same
  <2>2. CASE r \in hit /\ c.op = "save" /\ r.tab = "main" /\ typed # "none"
    <3>1. f[r] = [r EXCEPT !.email = typed, !.edited = r.edited \/ typed # r.email]
      BY <1>2, <2>2 DEF Written, Becomes
    <3>2. /\ DOMAIN f[r] = DOMAIN r /\ f[r].id = r.id /\ f[r].tab = r.tab /\ f[r].group = r.group
          /\ f[r].from = r.from /\ f[r].email = typed /\ f[r].edited = (r.edited \/ typed # r.email)
      BY <1>3, <3>1 DEF Fields
    <3> QED
      BY <1>3, <2>2, <3>2 DEF Same
  <2>3. CASE r \in hit /\ ~(c.op = "save" /\ r.tab = "main" /\ typed # "none")
    <3>1. f[r] = r \/ f[r] = [r EXCEPT !.status = Onto(c.op, r)]
      BY <1>2, <2>3 DEF Written
    <3>2. /\ DOMAIN f[r] = DOMAIN r /\ f[r].id = r.id /\ f[r].tab = r.tab /\ f[r].group = r.group
          /\ f[r].from = r.from /\ f[r].email = r.email /\ f[r].edited = r.edited
      BY <1>3, <3>1 DEF Fields
    <3> QED
      BY <1>3, <3>2 DEF Same
  <2> QED
    BY <2>1, <2>2, <2>3
<1>5. c.op = "save" => typed = "none" \/ \A r, s \in hit : r = s
  <2> SUFFICES ASSUME c.op = "save", typed # "none"
               PROVE  \A r, s \in hit : r = s
    OBVIOUS
  <2>1. page = "candidats"
    BY DEF Typable
  <2> QED
    BY <2>1 DEF IsCall, Numbered, NumberedIn
<1>6. ASSUME NEW r \in server, NEW s \in server, Twice(f[r], f[s])
      PROVE  r = s
  <2>1. /\ r.tab = "main" /\ s.tab = "main" /\ r.group = s.group /\ f[r].email = f[s].email
        /\ f[r].email # "none"
    BY <1>4, <1>6 DEF Twice, Same
  <2>2. CASE f[r].email = r.email /\ f[s].email = s.email
    BY <2>1, <2>2 DEF Twice, Indexed, IndexedIn
  <2>3. ASSUME NEW x \in server, NEW y \in server, x.tab = "main", y.tab = "main",
               x.group = y.group, f[x].email = f[y].email, f[x].email # "none",
               c.op = "save", x \in hit, f[x].email = typed
        PROVE  x = y
    <3>1. ~Taken(typed, x.group, x.id)
      BY <2>3 DEF Accepts
    <3>2. CASE f[y].email = y.email
      <4>1. y.id = x.id
        BY <2>3, <3>1, <3>2 DEF Taken
      <4> QED
        BY <4>1 DEF Numbered, NumberedIn
    <3>3. CASE y \in hit
      BY <1>5, <2>3, <3>3
    <3> QED
      BY <1>4, <3>2, <3>3
  <2> QED
    BY <1>4, <2>1, <2>2, <2>3
<1> QED
  BY <1>1, <1>4, <1>6 DEF Twins, kept

(* What a call does to the rows.                                           *)
LEMMA AfterRows ==
  ASSUME Numbered, Indexed, NEW c, IsCall(c), NEW typed \in Typable(c.op), ~Refused(c, typed),
         server' \in After(c, typed)
  PROVE  Numbered' /\ Indexed'
<1> DEFINE hit  == {r \in server : r.id \in c.ids /\ Accepts(c.op, r, typed)
                                    /\ (c.op = "verify" => r.group = c.q.group)}
           kept == (server \ hit) \cup {Written(c.op, r, typed) : r \in hit}
<1>1. Twins(kept)
  <2>1. hit \subseteq server /\ \A r \in hit : r.id \in c.ids /\ Accepts(c.op, r, typed)
    OBVIOUS
  <2> HIDE DEF hit
  <2> QED
    BY <2>1, WrittenTwins
<1>2. \/ server' = kept
      \/ c.op = "create" /\ \E s : server' = kept \cup {[Row(Fresh, "main", Target(c), s) EXCEPT
                                                            !.email = typed]}
      \/ /\ c.op = "approveApplication" /\ hit # {}
         /\ server' = kept \cup {[Row(Fresh, "main", r.group, "approved") EXCEPT
                                     !.from = r.id, !.email = r.email] : r \in hit}
  BY DEF After
<1>3. NumberedIn(kept) /\ IndexedIn(kept) /\ Cardinality(kept) = Cardinality(server)
  BY <1>1, TwinsAre
<1>4. CASE server' = kept
  BY <1>3, <1>4 DEF Numbered, Indexed
<1>5. PICK f \in [server -> kept] :
        /\ kept = {f[r] : r \in server}
        /\ \A r \in server : Same(r, f[r])
        /\ \A r, s \in server : Twice(f[r], f[s]) => r = s
  BY <1>1 DEF Twins
<1>6. c.op # "save" => \A k \in kept : \E s \in server : /\ s.id = k.id /\ s.tab = k.tab
                                                         /\ s.group = k.group /\ s.email = k.email
  <2> SUFFICES ASSUME c.op # "save", NEW k \in kept
               PROVE  \E s \in server : /\ s.id = k.id /\ s.tab = k.tab
                                        /\ s.group = k.group /\ s.email = k.email
    OBVIOUS
  <2>1. CASE k \in server
    BY <2>1
  <2>2. CASE \E r \in hit : k = Written(c.op, r, typed)
    <3>1. PICK r \in hit : k = r \/ k = [r EXCEPT !.status = Onto(c.op, r)]
      BY <2>2 DEF Written
    <3>2. r \in server /\ DOMAIN r = Fields
      BY DEF Numbered, NumberedIn
    <3>3. k.id = r.id /\ k.tab = r.tab /\ k.group = r.group /\ k.email = r.email
      BY <3>1, <3>2 DEF Fields
    <3> QED
      BY <3>2, <3>3
  <2> QED
    BY <2>1, <2>2
<1>7. \A s \in server : s.id # 0
  BY FS_CardinalityType DEF Numbered, NumberedIn
<1>8. CASE c.op = "create" /\ \E s : server' = kept \cup {[Row(Fresh, "main", Target(c), s) EXCEPT
                                                              !.email = typed]}
  <2>1. PICK s, new : /\ new = [Row(Fresh, "main", Target(c), s) EXCEPT !.email = typed]
                      /\ server' = kept \cup {new}
    BY <1>8
  <2>2. /\ DOMAIN new = Fields /\ new.id = Cardinality(server) + 1 /\ new.tab = "main"
        /\ new.edited = FALSE /\ new.group = Target(c) /\ new.email = typed /\ new.from = 0
    BY <2>1, NewRows
  <2>3. ~Taken(typed, Target(c), 0)
    BY <1>8 DEF Refused
  <2> HIDE DEF kept, hit
  <2>4. \A r \in kept : ~Twice(r, new) /\ ~Twice(new, r)
    BY <1>6, <1>7, <1>8, <2>2, <2>3 DEF Twice, Taken
  <2> QED
    BY <1>3, <2>1, <2>2, <2>4, RowAdded DEF Numbered, Indexed
<1>9. CASE /\ c.op = "approveApplication" /\ hit # {}
           /\ server' = kept \cup {[Row(Fresh, "main", r.group, "approved") EXCEPT
                                       !.from = r.id, !.email = r.email] : r \in hit}
  <2>1. PICK r : r \in hit
    BY <1>9
  <2>2. \A s \in hit : s = r
    BY <1>9, <2>1 DEF IsCall, Numbered, NumberedIn
  <2>3. r \in server /\ r.tab = "applications" /\ ~Taken(r.email, r.group, r.id)
    BY <1>9, <2>1 DEF Accepts, Accepts_NoIndex
  <2> HIDE DEF hit, kept
  <2>4. PICK new : new = [Row(Fresh, "main", r.group, "approved") EXCEPT !.from = r.id, !.email = r.email]
    OBVIOUS
  <2>5. server' = kept \cup {new}
    BY <1>9, <2>1, <2>2, <2>4
  <2>6. /\ DOMAIN new = Fields /\ new.id = Cardinality(server) + 1 /\ new.tab = "main"
        /\ new.edited = FALSE /\ new.group = r.group /\ new.email = r.email /\ new.from = r.id
    BY <2>4, NewRows
  <2>7. \A s \in server : s.tab = "main" => s.id # r.id
    BY <2>3 DEF Numbered, NumberedIn
  <2>8. \A k \in kept : ~Twice(k, new) /\ ~Twice(new, k)
    BY <1>6, <1>9, <2>3, <2>6, <2>7 DEF Twice, Taken
  <2>9. f[r] \in kept /\ Same(r, f[r])
    BY <1>5, <2>3
  <2>10. f[r].email = r.email
    BY <2>3, <2>9 DEF Same
  <2>11. Origin(new, f[r])
    BY <2>3, <2>6, <2>9, <2>10 DEF Origin, Same
  <2> QED
    BY <1>3, <2>5, <2>6, <2>8, <2>9, <2>11, RowAdded DEF Numbered, Indexed
<1> QED
  BY <1>2, <1>4, <1>8, <1>9

(* The two rows of the start.                                              *)
LEMMA InitRows ==
  ASSUME Init
  PROVE  Numbered /\ Indexed
<1>1. PICK s, t, tab, e, k :
         /\ page = "candidats" \/ tab = "main"
         /\ page = "candidats" => e # "none"
         /\ server = {Row(1, "main", "g1", s), [Row(2, tab, "g2", t) EXCEPT !.email = e, !.results = k]}
  BY ListConstants DEF Init
<1>2. PICK a, b : a = Row(1, "main", "g1", s) /\ b = [Row(2, tab, "g2", t) EXCEPT !.email = e, !.results = k]
  OBVIOUS
<1>3. /\ DOMAIN a = Fields /\ a.id = 1 /\ a.from = 0 /\ a.tab = "main" /\ a.email = "none"
      /\ a.edited = FALSE
      /\ DOMAIN b = Fields /\ b.id = 2 /\ b.from = 0 /\ b.tab = tab /\ b.email = e
      /\ b.edited = FALSE
  BY <1>2 DEF Row, Fields
<1>4. server = {a} \cup {b}
  BY <1>1, <1>2
<1>5. IsFiniteSet(server) /\ Cardinality(server) = 2
  <2>1. IsFiniteSet({a}) /\ Cardinality({a}) = 1
    BY FS_Singleton
  <2>2. b \notin {a}
    BY <1>3
  <2> QED
    BY <1>4, <2>1, <2>2, FS_AddElement
<1>6. Numbered
  BY <1>3, <1>4, <1>5 DEF Numbered, NumberedIn
<1>7. Indexed
  <2>1. \A r \in server : r = a \/ r = b
    BY <1>4
  <2>2. \A r \in server : r.edited \in BOOLEAN /\ r.from = 0
    BY <1>3, <2>1
  <2>3. \A r \in server : r.tab = "applications" => r.email # "none"
    BY <1>1, <1>3, <2>1
  <2>4. \A x, y \in server : Twice(x, y) => x = y
    BY <1>3, <2>1 DEF Twice
  <2> QED
    BY <2>2, <2>3, <2>4 DEF Indexed, IndexedIn
<1> QED
  BY <1>6, <1>7

(* Every step keeps both.                                                  *)
LEMMA RowsStep ==
  ASSUME Inv, [Next]_vars
  PROVE  Inv'
<1>1. ListInv'
  BY ListStep DEF Inv
<1>2. UNCHANGED server => Numbered' /\ Indexed'
  BY DEF Inv, Numbered, Indexed
<1>3. ASSUME NEW j \in jobs, Work(j)
      PROVE  Numbered' /\ Indexed'
  BY <1>3, WorkRows DEF Inv
<1>4. ASSUME NEW c \in calls, ServeAction(c)
      PROVE  Numbered' /\ Indexed'
  <2>1. IsCall(c)
    BY DEF Inv, ListInv, Typed
  <2>2. \/ UNCHANGED server
        \/ \E typed \in Typable(c.op) : ~Refused(c, typed) /\ server' \in After(c, typed)
    BY <1>4 DEF ServeAction
  <2> QED
    BY <1>2, <2>1, <2>2, AfterRows DEF Inv
<1>5. \/ UNCHANGED server
      \/ \E j \in jobs : Work(j)
      \/ \E c \in calls : ServeAction(c)
  <2>1. UNCHANGED vars \/ Turn \/ Debounce \/ Act => UNCHANGED server
    BY DEF vars, Turn, Debounce, Act
  <2>2. ASSUME NEW c \in calls,
               ServeRows(c) \/ ServePoll(c) \/ Lose(c) \/ HearDetail(c) \/ HearRows(c) \/ HearElections(c)
        PROVE  UNCHANGED server
    BY <2>2 DEF ServeRows, ServePoll, Lose, HearDetail, HearRows, HearElections
  <2>3. ASSUME NEW c \in calls, HearAction(c) \/ HearError(c) \/ HearPoll(c) \/ Fire(c)
        PROVE  UNCHANGED server
    BY <2>3 DEF HearAction, HearError, HearPoll, Fire
  <2> QED
    BY <2>1, <2>2, <2>3 DEF Next
<1>6. Numbered' /\ Indexed'
  BY <1>2, <1>3, <1>4, <1>5
<1> QED
  BY <1>1, <1>6 DEF Inv

(* SecondNeedsEdit: however often a list that was not reloaded offers the  *)
(* approval again, and whichever of the calls is served first, the second  *)
(* is refused as long as the candidate has the address it was made with.   *)
THEOREM NoSecondCandidate == Spec => []SecondNeedsEdit
<1>1. Init => Inv
  BY InitList, InitRows DEF Inv
<1>2. Inv /\ [Next]_vars => Inv'
  BY RowsStep
<1>3. Inv => SecondNeedsEdit
  <2> SUFFICES ASSUME Inv, NEW r \in server, NEW s \in server, r # s, r.from = s.from,
                      r.from # 0, ~r.edited, ~s.edited
               PROVE  FALSE
    BY DEF SecondNeedsEdit
  <2>1. PICK a \in server : r.tab = "main" /\ Origin(r, a)
    BY DEF Inv, Indexed, IndexedIn
  <2>2. PICK b \in server : s.tab = "main" /\ Origin(s, b)
    BY DEF Inv, Indexed, IndexedIn
  <2>3. a = b
    BY <2>1, <2>2 DEF Origin, Inv, Numbered, NumberedIn
  <2>4. a.email # "none"
    BY <2>1 DEF Origin, Inv, Indexed, IndexedIn
  <2>5. Twice(r, s)
    BY <2>1, <2>2, <2>3, <2>4 DEF Twice, Origin
  <2> QED
    BY <2>5 DEF Inv, Indexed, IndexedIn
<1> QED
  BY <1>1, <1>2, <1>3, PTL DEF Spec

-----------------------------------------------------------------------------
Final(asks) == asks[Len(asks)]

Follows(v, m) ==
    /\ m.asks = <<>> => Agrees(v.q, m.view.q)
    /\ m.asks # <<>> => Brings(Final(m.asks), m.view.q)

LEMMA FinalOf ==
  ASSUME NEW p, NEW r
  PROVE  Final(<<p>>) = p /\ Final(<<p, r>>) = r
  BY DEF Final

LEMMA SameCriteria ==
  ASSUME NEW q, IsQuery(q), NEW p
  PROVE  /\ Criteria(Criteria(q)) = Criteria(q) /\ Criteria(q).page = 1
         /\ Criteria([q EXCEPT !.page = p]) = Criteria(q) /\ [q EXCEPT !.page = p].page = p
  BY DEF IsQuery, Criteria

(* A change whose last query is that of the view it leaves.                *)
LEMMA ChangeFollows ==
  ASSUME NEW v, NEW w, IsView(w)
  PROVE  /\ Agrees(v.q, w.q) => Follows(v, Change(w, <<>>))
         /\ \A p : Brings(p, w.q) => Follows(v, Change(w, <<p>>))
         /\ \A p, r : Brings(r, w.q) => Follows(v, Change(w, <<p, r>>))
<1> DEFINE u == [w EXCEPT !.loading = TRUE]
<1>1. \A asks : Change(w, asks).asks = asks /\ Change(w, asks).view.q = w.q
  BY DEF Change, IsView
<1>2. Agrees(v.q, w.q) => Follows(v, Change(w, <<>>))
  BY <1>1 DEF Follows
<1>3. ASSUME NEW p, Brings(p, w.q)
      PROVE  Follows(v, Change(w, <<p>>))
  BY <1>1, <1>3, TwoAsks, FinalOf DEF Follows
<1>4. ASSUME NEW p, NEW r, Brings(r, w.q)
      PROVE  Follows(v, Change(w, <<p, r>>))
  <2> DEFINE both == <<p, r>>
  <2>1. both # <<>> /\ Final(both) = r
    BY TwoAsks, FinalOf
  <2> HIDE DEF both
  <2>2. Follows(v, Change(w, both))
    BY <1>1, <1>4, <2>1 DEF Follows
  <2> QED
    BY <2>2 DEF both
<1> QED
  BY <1>2, <1>3, <1>4

LEMMA DualFollows ==
  ASSUME NEW v, IsView(v), NEW w, IsView(w), page \in {"candidats", "electeurs"}
  PROVE  Follows(v, Dual(v, w))
<1> DEFINE x == [w EXCEPT !.q.page = 1]
<1>0. /\ IsQuery(w.q) /\ IsView(x) /\ x.q = [w.q EXCEPT !.page = 1]
      /\ Criteria(x.q) = Criteria(w.q) /\ Criteria(Criteria(w.q)) = Criteria(w.q)
  <2>1. IsQuery(w.q) /\ x.q = [w.q EXCEPT !.page = 1] /\ IsView(x)
    BY DEF IsView, IsQuery
  <2> HIDE DEF x
  <2> QED
    BY <2>1, SameCriteria
<1> HIDE DEF x
<1>1. \A o, q : Criteria(o) = Criteria(q) => Agrees(o, q) /\ Brings(o, q)
  BY DEF Agrees, Brings, Loose
<1>2. CASE Criteria(w.q) # Criteria(v.q) /\ w.q.page = 1
  <2>1. Dual(v, w) = Change(x, <<Criteria(w.q)>>)
    BY <1>2, TwoAsks DEF Dual, x
  <2>2. Brings(Criteria(w.q), x.q)
    BY <1>0, <1>1
  <2> QED
    BY <2>1, <2>2, <1>0, ChangeFollows
<1>3. CASE Criteria(w.q) # Criteria(v.q) /\ w.q.page # 1
  <2>1. Dual(v, w) = Change(x, <<Criteria(w.q), w.q>>)
    BY <1>3, TwoAsks DEF Dual, x
  <2>2. Brings(w.q, x.q) /\ IsView(x)
    BY <1>0, <1>1
  <2>3. Follows(v, Change(x, <<Criteria(w.q), w.q>>))
    BY <2>2, ChangeFollows, Zenon
  <2> QED
    BY <2>1, <2>3
<1>4. CASE Criteria(w.q) = Criteria(v.q)
  <2>1. Dual(v, w) = Change(w, <<w.q>>) \/ Dual(v, w) = Change(w, <<>>)
    BY <1>4 DEF Dual
  <2> QED
    BY <2>1, <1>1, <1>4, ChangeFollows
<1> QED
  BY <1>2, <1>3, <1>4

LEMMA EffectsFollow ==
  ASSUME NEW v, IsView(v), NEW w, IsView(w)
  PROVE  Follows(v, Effects(v, w))
<1> DEFINE x == [w EXCEPT !.q.page = 1]
<1>0. /\ IsQuery(w.q) /\ IsView(x) /\ x.q.page = 1
      /\ Criteria(x.q) = Criteria(w.q) /\ Criteria(Criteria(w.q)) = Criteria(w.q)
      /\ Criteria(w.q).page = 1
  <2>1. IsQuery(w.q) /\ x.q = [w.q EXCEPT !.page = 1] /\ IsView(x)
    BY DEF IsView, IsQuery
  <2> HIDE DEF x
  <2> QED
    BY <2>1, SameCriteria
<1> HIDE DEF x
<1>1. \A o, q : Criteria(o) = Criteria(q) /\ o.page = q.page => Agrees(o, q) /\ Brings(o, q)
  BY DEF Agrees, Brings
<1>2. CASE Criteria(w.q) # Criteria(v.q) /\ w.q.page = 1
  <2>1. Effects(v, w) = Change(x, <<w.q>>)
    BY <1>2, TwoAsks DEF Effects, x
  <2>2. Brings(w.q, x.q)
    BY <1>0, <1>1, <1>2
  <2> QED
    BY <2>1, <2>2, <1>0, ChangeFollows
<1>3. CASE Criteria(w.q) # Criteria(v.q) /\ w.q.page # 1
  <2>1. Effects(v, w) = Change(x, <<w.q, Criteria(w.q)>>)
    BY <1>3, TwoAsks DEF Effects, x
  <2>2. Brings(Criteria(w.q), x.q)
    BY <1>0, <1>1
  <2> QED
    BY <2>1, <2>2, <1>0, ChangeFollows
<1>4. CASE Criteria(w.q) = Criteria(v.q) /\ w.q.page # v.q.page
  <2>1. Effects(v, w) = Change(w, <<w.q>>)
    BY <1>4 DEF Effects
  <2> QED
    BY <2>1, <1>1, ChangeFollows
<1>5. CASE Criteria(w.q) = Criteria(v.q) /\ w.q.page = v.q.page
  <2>1. Effects(v, w) = Change(w, <<>>)
    BY <1>5 DEF Effects
  <2> QED
    BY <2>1, <1>1, <1>5, ChangeFollows
<1> QED
  BY <1>2, <1>3, <1>4, <1>5

LEMMA BatchedFollows ==
  ASSUME NEW v, NEW w, IsView(w)
  PROVE  Follows(v, Batched(v, w))
<1>1. \A q : Agrees(q, q) /\ Brings(q, q)
  BY DEF Agrees, Brings
<1>2. w.q # v.q => Batched(v, w) = Change(w, <<w.q>>)
  BY DEF Batched
<1>3. w.q = v.q => Batched(v, w) = Change(w, <<>>)
  BY DEF Batched
<1> QED
  BY <1>1, <1>2, <1>3, ChangeFollows

LEMMA GivenFollows ==
  ASSUME NEW v, NEW w, IsView(w), page = "scrutins", w.q.page = 1 \/ w.q.page = v.q.page
  PROVE  Follows(v, Given(v, w))
<1>1. Criteria(Criteria(w.q)) = Criteria(w.q)
  BY SameCriteria DEF IsView
<1>2. CASE Criteria(w.q) # Criteria(v.q)
  <2>1. Given(v, w) = Change(w, <<Criteria(w.q)>>)
    BY <1>2 DEF Given
  <2>2. Brings(Criteria(w.q), w.q)
    BY <1>1 DEF Brings
  <2> QED
    BY <2>1, <2>2, ChangeFollows
<1>3. CASE Criteria(w.q) = Criteria(v.q)
  <2>1. Given(v, w) = Change(w, <<>>)
    BY <1>3 DEF Given
  <2>2. Agrees(v.q, w.q)
    BY <1>3 DEF Agrees, Loose
  <2> QED
    BY <2>1, <2>2, ChangeFollows
<1> QED
  BY <1>2, <1>3

(* Page by page: the last query that a control asks is the one it leaves.  *)
LEMMA EffectFollows ==
  ASSUME IsView(view), page \in Pages \ {"members", "manager", "users"}, NEW w, IsView(w),
         page = "scrutins" => w.q.page \in {1, view.q.page}
  PROVE  Follows(view, Effect(w))
<1>1. CASE page \in {"candidats", "electeurs"}
  <2>1. Effect(w) = Dual(view, w)
    BY <1>1 DEF Effect, CandidatsEffects, ElecteursEffects
  <2> QED
    BY <1>1, <2>1, DualFollows
<1>2. CASE page = "scrutins"
  <2>1. Effect(w) = Given(view, w)
    BY <1>2 DEF Effect, ScrutinsEffects
  <2> QED
    BY <1>2, <2>1, GivenFollows
<1>3. CASE page \in {"journal", "home", "open"}
  <2>1. IsView(Paged(w, 1))
    BY DEF IsView, IsQuery, Paged
  <2>2. \E x : IsView(x) /\ Effect(w) = Batched(view, x)
    BY <1>3, <2>1 DEF Effect, AuditLogsEffects, HomeEffects, OpenEffects
  <2> QED
    BY <2>2, BatchedFollows
<1>4. CASE page \notin {"candidats", "electeurs", "scrutins", "journal", "home", "open"}
  <2>1. Effect(w) = Effects(view, w)
    BY <1>4 DEF Effect, Pages, ResultatsEffects, RevenusEffects, StaffEffects, JurysEffects,
                CategoriesEffects, ElectionsEffects, OrganisationsEffects, SubscriptionsEffects,
                AuditsEffects, WithdrawalsEffects, NotificationsEffects, AdminsEffects
  <2> QED
    BY <2>1, EffectsFollow
<1> QED
  BY <1>1, <1>2, <1>3, <1>4

(* The controls of Users load page 1, or go to a page.                     *)
LEMMA UsersFollow ==
  ASSUME IsView(view), page = "users"
  PROVE  \A m \in UsersBar(view) \cup UsersTurns(view) : Follows(view, m)
<1>1. ASSUME NEW w, IsView(w)
      PROVE  Follows(view, applyFilters(w))
  <2>1. IsView(Paged(w, 1)) /\ Paged(w, 1).q = Criteria(w.q)
    BY <1>1 DEF IsView, IsQuery, Paged, Criteria
  <2>2. Brings(Criteria(w.q), Criteria(w.q))
    BY DEF Brings, Agrees
  <2> QED
    BY <2>1, <2>2, ChangeFollows DEF applyFilters
<1>2. \A m \in UsersFilters(view) : Follows(view, m)
  <2>1. \A s : IsView([view EXCEPT !.typed = s, !.q.search = s])
    BY ControlsOnly DEF Only, Keeps
  <2>2. \A s : IsView([view EXCEPT !.q.status = s, !.q.search = view.debounced])
    BY ControlsOnly DEF Only, Keeps
  <2>3. IsView([view EXCEPT !.q.status = "all", !.q.search = "", !.typed = ""])
    BY ControlsOnly DEF Only, Keeps
  <2> QED
    BY <1>1, <2>1, <2>2, <2>3 DEF UsersFilters
<1>3. Criteria(Criteria(view.q)) = Criteria(view.q)
  BY SameCriteria DEF IsView
<1>4. Follows(view, Change(view, refresh(view)))
  <2>1. Brings(Criteria(view.q), view.q)
    BY <1>3 DEF Brings
  <2> QED
    BY <2>1, ChangeFollows DEF refresh
<1>5. ASSUME NEW p
      PROVE  Follows(view, goToPage(view, p))
  <2>1. Brings([view.q EXCEPT !.page = p], view.q)
    BY SameCriteria DEF Brings, IsView
  <2>2. Agrees(view.q, view.q)
    BY DEF Agrees
  <2> QED
    BY <2>1, <2>2, ChangeFollows DEF goToPage, GoTo
<1> QED
  BY <1>2, <1>4, <1>5 DEF UsersBar, UsersTurns

(* Every control of every page.                                            *)
LEMMA ControlsFollow ==
  ASSUME IsView(view), page \in Pages
  PROVE  \A m \in Controls : Follows(view, m)
<1>1. CASE page = "users"
  <2>1. Controls = UsersBar(view) \cup UsersTurns(view)
    BY <1>1 DEF Controls, Bar
  <2> QED
    BY <1>1, <2>1, UsersFollow
<1>2. CASE page = "scrutins"
  <2>1. ASSUME NEW w \in Bar
        PROVE  Follows(view, Effect(w))
    <3>1. IsView(w)
      BY BarOnly DEF Only, Keeps
    <3>2. w.q.page = 1
      <4>1. \A s \in Selects(view, {"draft", "published", "ongoing", "paused", "closed"})
                       \cup Types(view) : IsView(s)
        BY ControlsOnly DEF Only, Keeps
      <4>2. \A s : IsView(s) => Paged(s, 1).q.page = 1
        BY DEF Paged, IsView, IsQuery
      <4>3. Reset(view).q.page = 1
        BY DEF Reset, IsView, IsQuery
      <4>4. w \in ScrutinsBar(view)
        BY <1>2 DEF Bar
      <4> QED
        BY <4>1, <4>2, <4>3, <4>4 DEF ScrutinsBar, FirstPage
    <3> QED
      BY <1>2, <3>1, <3>2, EffectFollows DEF Pages
  <2>2. ASSUME NEW p
        PROVE  Follows(view, GoTo(view, p))
    <3>1. Brings([view.q EXCEPT !.page = p], view.q)
      BY <1>2, SameCriteria DEF Brings, IsView
    <3> QED
      BY <3>1, ChangeFollows DEF GoTo
  <2>3. \A m \in ScrutinsTurns(view) : \E p : m = GoTo(view, p)
    BY DEF ScrutinsTurns
  <2>4. ASSUME NEW m \in ScrutinsTurns(view)
        PROVE  Follows(view, m)
    BY <2>2, <2>3
  <2> QED
    BY <1>2, <2>1, <2>4 DEF Controls
<1>3. CASE page \in {"members", "manager"}
  BY <1>3 DEF Controls, Bar
<1>4. CASE page \notin {"users", "scrutins", "members", "manager"}
  <2>1. \A w \in Bar : IsView(w)
    BY BarOnly DEF Only, Keeps
  <2>2. \A w \in Bar : Follows(view, Effect(w))
    BY <1>4, <2>1, EffectFollows
  <2> QED
    BY <1>4, <2>2 DEF Controls
<1> QED
  BY <1>1, <1>2, <1>3, <1>4

-----------------------------------------------------------------------------
(* Pages that read no text have no search box; on Resultats a control only *)
(* chooses an election.                                                    *)
Boxless == {"members", "manager", "resultats"}

LEMMA BoxlessControls ==
  ASSUME IsView(view), page \in Boxless
  PROVE  \A m \in Controls : m.view.typed = view.typed /\ m.view.debounced = view.debounced
<1>1. CASE page \in {"members", "manager"}
  BY <1>1 DEF Controls, Bar
<1>2. CASE page = "resultats"
  <2>1. Controls \subseteq {Effects(view, [view EXCEPT !.q.group = g]) : g \in Group}
    BY <1>2 DEF Controls, Bar, ResultatsBar, Effect, ResultatsEffects
  <2>2. ASSUME NEW g
        PROVE  LET u == Effects(view, [view EXCEPT !.q.group = g]).view IN
               u.typed = view.typed /\ u.debounced = view.debounced
    <3> DEFINE w == [view EXCEPT !.q.group = g]
               x == [w EXCEPT !.q.page = 1]
    <3>1. /\ DOMAIN w = DOMAIN view /\ w.typed = view.typed /\ w.debounced = view.debounced
          /\ DOMAIN x = DOMAIN view /\ x.typed = view.typed /\ x.debounced = view.debounced
      BY DEF IsView
    <3>2. \E asks : Effects(view, w) = Change(w, asks) \/ Effects(view, w) = Change(x, asks)
      BY DEF Effects
    <3> HIDE DEF w, x
    <3>3. \A asks : /\ Change(w, asks).view.typed = w.typed
                    /\ Change(w, asks).view.debounced = w.debounced
                    /\ Change(x, asks).view.typed = x.typed
                    /\ Change(x, asks).view.debounced = x.debounced
      BY <3>1 DEF Change, IsView
    <3> QED
      BY <3>1, <3>2, <3>3 DEF w
  <2> QED
    BY <2>1, <2>2
<1> QED
  BY <1>1, <1>2 DEF Boxless

(* The rows of an answer are shown, under its query; on Resultats they are *)
(* unless it is not ready, and only the second call has some.              *)
Pager(c, w) ==
    w.q = IF page \in {"scrutins", "users"} THEN [view.q EXCEPT !.page = c.q.page] ELSE view.q

Showing(c, w) ==
    /\ w.of = [view.of EXCEPT ![c.q.tab] = c.q]
    /\ w.rows = [view.rows EXCEPT ![c.q.tab] = c.ans.rows]

LEMMA AnswerShown ==
  ASSUME IsView(view), page \in Pages, NEW c, IsQuery(c.q), c.status = "ok"
  PROVE  /\ Pager(c, Load(c))
         /\ (page = "resultats" => ~view.notReady /\ (c.op = "load" => c.ans.rows = <<>>))
               => Showing(c, Load(c))
<1>1. CASE page \in {"scrutins", "users"}
  <2>1. Load(c) = [Show(view, c) EXCEPT !.q.page = c.q.page]
    BY <1>1 DEF Load, ScrutinsLoad, fetchUsers
  <2> QED
    BY <1>1, <2>1 DEF Pager, Showing, Show, IsView, IsQuery
<1>2. CASE page = "resultats"
  <2>1. CASE c.op = "load"
    <3>1. Load(c) = [Show(view, c) EXCEPT !.detail = c.ans.detail, !.rows["main"] = <<>>,
                                          !.notReady = TRUE]
      BY <1>2, <2>1 DEF Load, ResultatsLoad
    <3> QED
      BY <1>2, <2>1, <3>1 DEF Pager, Showing, Show, IsView, IsQuery, Tab
  <2>2. CASE c.op # "load"
    <3>1. PICK rows, b :
             /\ Load(c) = [Show(view, c) EXCEPT !.rows["main"] = rows, !.notReady = b]
             /\ ~view.notReady => rows = c.ans.rows
      BY <1>2, <2>2 DEF Load, ResultatsLoad
    <3> QED
      BY <1>2, <3>1 DEF Pager, Showing, Show, IsView, IsQuery, Tab
  <2> QED
    BY <2>1, <2>2
<1>3. CASE page \in {"staff", "jurys"}
  <2>1. Load(c) = [Show(view, c) EXCEPT !.rows["main"] = c.ans.rows]
    BY <1>3 DEF Load, StaffLoad, JurysLoad
  <2> QED
    BY <1>3, <2>1 DEF Pager, Showing, Show, IsView, IsQuery, Tab
<1>4. CASE page = "electeurs"
  <2>1. Load(c) = [Show(view, c) EXCEPT !.selected = {}]
    BY <1>4 DEF Load, ElecteursLoad
  <2> QED
    BY <1>4, <2>1 DEF Pager, Showing, Show, IsView, IsQuery
<1>5. CASE page \notin {"scrutins", "users", "resultats", "staff", "jurys", "electeurs"}
  <2>1. Load(c) = Show(view, c)
    BY <1>5 DEF Load, Pages, CandidatsLoad, RevenusLoad, RetraitsLoad, MembersLoad, AuditLogsLoad,
                CategoriesLoad, CategoryManagerLoad, ElectionsLoad, OrganisationsLoad,
                SubscriptionsLoad, AuditsLoad, WithdrawalsLoad, NotificationsLoad, AdminsLoad,
                HomeLoad, OpenLoad
  <2> QED
    BY <1>5, <2>1 DEF Pager, Showing, Show, IsView, IsQuery
<1> QED
  BY <1>1, <1>2, <1>3, <1>4, <1>5

(* Nor does an answer write in a box.                                      *)
LEMMA BoxlessLoads ==
  ASSUME IsView(view), page \in Boxless, NEW c, IsQuery(c.q)
  PROVE  Load(c).typed = view.typed /\ Load(c).debounced = view.debounced
<1>1. /\ Show(view, c).typed = view.typed /\ Show(view, c).debounced = view.debounced
      /\ Kept(view).typed = view.typed /\ Kept(view).debounced = view.debounced
      /\ DOMAIN Show(view, c) = DOMAIN view
  BY DEF IsView, Show, Kept
<1>2. CASE page = "resultats"
  <2>1. PICK d, rows, b : \/ Load(c) = [Show(view, c) EXCEPT !.detail = d, !.rows["main"] = rows, !.notReady = b]
                          \/ Load(c) = [Show(view, c) EXCEPT !.rows["main"] = rows, !.notReady = b]
                          \/ Load(c) = Kept(view)
    BY <1>2 DEF Load, ResultatsLoad
  <2> QED
    BY <1>1, <2>1 DEF IsView
<1>3. CASE page \in {"members", "manager"}
  BY <1>1, <1>3 DEF Load, MembersLoad, CategoryManagerLoad
<1> QED
  BY <1>2, <1>3 DEF Boxless

-----------------------------------------------------------------------------
(* Calls are numbered in the order in which they are sent: the latest of   *)
(* them is later than all the others.                                      *)
LEMMA LatestIs ==
  ASSUME NEW cs, NEW b \in Nat, \A c \in cs : c.n \in 0..b
  PROVE  Latest(cs) \in Nat /\ \A c \in cs : c.n <= Latest(cs)
<1>1. CASE cs = {}
  BY <1>1 DEF Latest
<1>2. CASE cs # {}
  <2> DEFINE Above == {k \in Nat : \A c \in cs : c.n <= k}
  <2>1. b \in Above
    OBVIOUS
  <2>2. PICK k \in Above : \A j \in Above : ~(<<j, k>> \in OpToRel(<, Nat))
    <3>1. Above \subseteq Nat /\ Above # {}
      BY <2>1
    <3> HIDE DEF Above
    <3> QED
      BY <3>1, WFMin, NatLessThanWellFounded
  <2>3. k \in Nat /\ \A c \in cs : c.n \in Nat /\ c.n <= k
    <3>1. k \in Nat /\ \A c \in cs : c.n <= k
      OBVIOUS
    <3>2. \A c \in cs : c.n \in Nat
      OBVIOUS
    <3> QED
      BY <3>1, <3>2
  <2>4. \E c \in cs : c.n = k
    <3>1. SUFFICES ASSUME \A c \in cs : c.n # k
                   PROVE  FALSE
      OBVIOUS
    <3>2. k - 1 \in Nat /\ \A c \in cs : c.n <= k - 1
      BY <1>2, <2>3, <3>1
    <3>3. k - 1 \in Above /\ <<k - 1, k>> \in OpToRel(<, Nat)
      BY <2>3, <3>2 DEF OpToRel
    <3> QED
      BY <2>2, <3>3
  <2>5. \E m \in {c.n : c \in cs} : \A c \in cs : c.n <= m
    <3>1. k \in {c.n : c \in cs} /\ \A c \in cs : c.n <= k
      BY <2>3, <2>4
    <3> QED
      BY <3>1
  <2>6. /\ Latest(cs) \in {c.n : c \in cs}
        /\ \A c \in cs : c.n <= Latest(cs)
    BY <1>2, <2>5 DEF Latest
  <2> QED
    BY <2>3, <2>6
<1> QED
  BY <1>1, <1>2

(* The queries just sent: the last of them is the latest call.             *)
LEMMA SentLast ==
  ASSUME NEW cs, NEW b \in Nat, \A c \in cs : c.n \in 0..b, NEW asks, IsAsks(asks)
  PROVE  /\ \E k \in Nat : \A d \in Sent(cs, asks) : d.n \in 0..k
         /\ \A d \in Sent(cs, asks) : d \in cs \/ (d.op = "load" /\ d.status = "sent")
         /\ asks = <<>> => Sent(cs, asks) = cs
         /\ asks # <<>> => \E e \in Sent(cs, asks) :
               /\ e.op = "load" /\ e.status = "sent" /\ e.q = Final(asks)
               /\ \A d \in Sent(cs, asks) : d = e \/ d.n < e.n
<1> DEFINE m == Latest(cs)
           nth(i) == Call(m + i, "load", asks[i])
<1>1. m \in Nat /\ \A c \in cs : c.n \in Nat /\ c.n <= m
  BY LatestIs
<1>2. Sent(cs, asks) = cs \cup {nth(i) : i \in DOMAIN asks}
  BY DEF Sent
<1>3. \A i : /\ nth(i).op = "load" /\ nth(i).status = "sent" /\ nth(i).n = m + i
             /\ nth(i).q = asks[i]
  BY DEF Call
<1> HIDE DEF m, nth
<1>4. CASE asks = <<>>
  <2>1. Sent(cs, asks) = cs
    BY <1>2, <1>4
  <2> QED
    BY <1>4, <2>1
<1>5. CASE \E p : asks = <<p>>
  <2>1. asks # <<>> /\ DOMAIN asks = {1} /\ Final(asks) = asks[1]
    <3>1. PICK p : asks = <<p>>
      BY <1>5
    <3>2. asks # <<>>
      BY <3>1
    <3>3. DOMAIN asks = {1} /\ asks[1] = p
      BY <3>1
    <3>4. Final(asks) = p
      BY <3>1, FinalOf, Zenon
    <3> QED
      BY <3>2, <3>3, <3>4
  <2>2. Sent(cs, asks) = cs \cup {nth(1)}
    BY <1>2, <2>1
  <2>3. nth(1).n = m + 1 /\ \A c \in cs : c.n < m + 1
    BY <1>1, <1>3
  <2>4. \A d \in Sent(cs, asks) : d.n \in 0..(m + 1)
    BY <1>1, <2>2, <2>3
  <2>5. \A d \in Sent(cs, asks) : d = nth(1) \/ d.n < nth(1).n
    BY <2>2, <2>3
  <2>6. nth(1) \in Sent(cs, asks) /\ nth(1).q = Final(asks)
    BY <1>3, <2>1, <2>2
  <2> QED
    <3>1. m + 1 \in Nat
      BY <1>1
    <3>2. \A d \in Sent(cs, asks) : d \in cs \/ (d.op = "load" /\ d.status = "sent")
      BY <1>3, <2>2
    <3> QED
      BY <1>3, <2>1, <2>4, <2>5, <2>6, <3>1, <3>2
<1>6. CASE \E p, r : asks = <<p, r>>
  <2>1. asks # <<>> /\ DOMAIN asks = {1, 2} /\ Final(asks) = asks[2]
    <3>1. PICK p, r : asks = <<p, r>>
      BY <1>6
    <3>2. asks # <<>>
      BY <3>1
    <3>3. DOMAIN asks = {1, 2} /\ asks[2] = r
      BY <3>1
    <3>4. Final(asks) = r
      BY <3>1, FinalOf, Zenon
    <3> QED
      BY <3>2, <3>3, <3>4
  <2>2. Sent(cs, asks) = cs \cup {nth(1), nth(2)}
    BY <1>2, <2>1
  <2>3. /\ nth(1).n = m + 1 /\ nth(2).n = m + 2
        /\ \A c \in cs : c.n < m + 2
    BY <1>1, <1>3
  <2>4. \A d \in Sent(cs, asks) : d.n \in 0..(m + 2)
    BY <1>1, <2>2, <2>3
  <2>5. \A d \in Sent(cs, asks) : d = nth(2) \/ d.n < nth(2).n
    BY <1>1, <2>2, <2>3
  <2>6. nth(2) \in Sent(cs, asks) /\ nth(2).q = Final(asks)
    BY <1>3, <2>1, <2>2
  <2> QED
    <3>1. m + 2 \in Nat
      BY <1>1
    <3>2. \A d \in Sent(cs, asks) : d \in cs \/ (d.op = "load" /\ d.status = "sent")
      BY <1>3, <2>2
    <3> QED
      BY <1>3, <2>1, <2>4, <2>5, <2>6, <3>1, <3>2
<1> QED
  BY <1>4, <1>5, <1>6 DEF IsAsks

-----------------------------------------------------------------------------
(* The invariant of the rows.  Good: the answer of this load will be, or   *)
(* is, what the server has for the query shown.  Will: this call ends with *)
(* a load (an action done, an import done, the elections).                 *)
Good(c) ==
    /\ Brings(c.q, view.q)
    /\ page = "resultats" => ~view.notReady
    /\ c.status = "sent" \/ (c.status = "ok" /\ c.ans = Answer(c.q))

Will(c) ==
    \/ c.op = "elections"
    \/ /\ c.op \notin Loads \cup {"import", "poll", "timer", "calculate"}
       /\ c.status = "ok" /\ c.then # <<>>
    \/ /\ c.op \in {"import", "poll", "calculate", "timer"}
       /\ \E j \in jobs : j.id = c.job /\ j.state = "completed"

Current ==
    LET o == view.of[view.q.tab]
    IN  Agrees(o, view.q) /\ Shown(view) = ToSet(Answer(o).rows)

(* Of the loads in flight the latest is good; when there is none, the rows *)
(* are current: or a load is to follow.                                    *)
WillShow ==
    \/ \E c \in calls : Will(c)
    \/ /\ \A c \in calls : c.op \in Reads => Good(c) \/ \E d \in calls : d.op \in Reads /\ d.n > c.n
       /\ (\A c \in calls : c.op \notin Reads) => Current

Reloads == \A c \in calls : c.op \notin Loads => c.then = <<>> \/ Brings(Final(c.then), view.q)

(* An import that is running is awaited.                                   *)
Owner(c, j) == c.job = j.id /\ (c.op = "poll" \/ (c.op = "import" /\ c.status = "ok"))

Owned == \A j \in jobs : j.op = "import" /\ j.state = "running" => \E c \in calls : Owner(c, j)

Coming == (\A c \in calls : c.status # "lost") /\ Reloads /\ WillShow /\ Owned

(* Whether calm or not: the calls are numbered, the jobs too; what a poll  *)
(* was told of its job is so; and the pages without a search box.          *)
Bounded == \E b \in Nat : \A c \in calls : c.n \in 0..b

Queued ==
    /\ IsFiniteSet(jobs)
    /\ \A j \in jobs : /\ DOMAIN j = {"id", "op", "group", "state"}
                       /\ j.id \in 1..Cardinality(jobs)
                       /\ j.state \in {"running", "completed", "failed"}
                       /\ page = "candidats" => j.op = "import"
    /\ \A j, k \in jobs : j.id = k.id => j = k

Told(c) == \E j \in jobs : j.id = c.job /\ (c.done # "running" => j.state = c.done)

Served(c) ==
    /\ c.op \in Loads => c.status \in {"sent", "ok", "lost"}
    /\ c.op \notin Loads => \/ c.op = "codes" /\ c.then = <<>>
                            \/ \E p : IsQuery(p) /\ c.then = <<p>>
    /\ c.op \in {"import", "poll"} => page = "candidats"
    /\ c.op \in {"importNow", "calculate"} => page # "candidats"
    /\ c.op \in {"import", "calculate"} => c.ids = {}
    /\ c.op = "import" => c.tries = 0
    /\ c.op \in {"import", "calculate"} => (c.status \in {"sent", "refused"} => c.job = 0)
    /\ c.op = "poll" => /\ c.status \in {"sent", "ok", "lost"} /\ c.tries \in 0..(MaxPolls - 1)
                        /\ c.status = "ok" => Told(c)

Settled ==
    /\ page \in Boxless => view.typed = view.debounced
    /\ page = "resultats" =>
          \A c \in calls : c.op = "elections" => calls = {c} /\ view.detail = "none"

Rest ==
    /\ Bounded /\ Queued /\ Settled
    /\ \A c \in calls : Served(c)
    /\ calm => Coming

RowsInv == Inv /\ Rest

(* Queries that agree agree, and a server that stays answers the same.     *)
LEMMA AgreeOn ==
  /\ \A o, q, r : Agrees(o, q) /\ Agrees(q, r) => Agrees(o, r)
  /\ \A o, q, r : Brings(o, q) /\ Agrees(q, r) => Brings(o, r)
  /\ \A q : Agrees(q, q) /\ Brings(q, q)
<1>1. \A o, q, r : Agrees(o, q) /\ Agrees(q, r) => Agrees(o, r)
  BY DEF Agrees, Loose
<1>2. \A o, q, r : Agrees(q, r) /\ Criteria(o) = Criteria(q) => Criteria(o) = Criteria(r)
  BY DEF Agrees
<1>3. \A o, q, r : Brings(o, q) /\ Agrees(q, r) => Brings(o, r)
  BY <1>1, <1>2 DEF Brings
<1>4. \A q : Agrees(q, q) /\ Brings(q, q)
  BY DEF Agrees, Brings
<1> QED
  BY <1>1, <1>3, <1>4

LEMMA SameTab ==
  ASSUME NEW o, NEW q, IsQuery(o), IsQuery(q), Criteria(o) = Criteria(q)
  PROVE  o.tab = q.tab
<1>1. Criteria(o).tab = o.tab /\ Criteria(q).tab = q.tab
  BY DEF Criteria, IsQuery
<1> QED
  BY <1>1

LEMMA SameAnswer ==
  ASSUME UNCHANGED <<page, server>>
  PROVE  \A q : Answer(q)' = Answer(q)
<1>1. \A q : Listed(q)' = Listed(q)
  BY DEF Listed
<1> QED
  BY <1>1 DEF Answer

(* The results of an election that is not closed: none.                    *)
LEMMA OpenHasNone ==
  ASSUME page = "resultats", NEW q, ~isClosed(Answer(q).detail)
  PROVE  Answer(q).rows = <<>>
<1> DEFINE all == NewestFirst(Listed(q))
           shows == Len(all) > 0 /\ all[1].status = "closed" /\ all[1].results # 0
           status == IF Len(all) = 0 THEN "none" ELSE all[1].status
<1> HIDE DEF all
<1>1. Answer(q).rows = IF shows THEN <<all[1]>> ELSE <<>>
  BY DEF Answer, Whole, all
<1>2. Answer(q).detail = status
  BY DEF Answer, all
<1>3. ~shows
  <2>1. SUFFICES ASSUME shows PROVE FALSE
    OBVIOUS
  <2>2. status = "closed"
    BY <2>1
  <2> QED
    BY <1>2, <2>2 DEF isClosed
<1> QED
  BY <1>1, <1>3

LEMMA SameBrings ==
  ASSUME UNCHANGED page
  PROVE  /\ \A o : Brings(o, view'.q) <=> Brings(o, view.q)'
         /\ \A o : Agrees(o, view'.q) <=> Agrees(o, view.q)'
  BY DEF Brings, Agrees, Loose

(* A call that loads on pages where nothing changes for it.                *)
LEMMA StillGood ==
  ASSUME UNCHANGED <<page, server>>, NEW c, Good(c),
         \A o : Brings(o, view.q) => Brings(o, view'.q),
         page = "resultats" /\ view'.notReady => view.notReady
  PROVE  Good(c)'
<1>1. Brings(c.q, view.q)'
  BY SameBrings DEF Good
<1>2. Answer(c.q)' = Answer(c.q)
  BY SameAnswer
<1> QED
  BY <1>1, <1>2 DEF Good

(* Rows that are current stay so while neither they nor the server change. *)
LEMMA SameCurrent ==
  ASSUME Current, UNCHANGED <<page, server>>, view'.q = view.q, view'.rows = view.rows,
         view'.of = view.of
  PROVE  Current'
<1>1. PICK o : o = view.of[view.q.tab]
  OBVIOUS
<1>2. Agrees(o, view.q) /\ Shown(view) = ToSet(Answer(o).rows)
  BY <1>1 DEF Current
<1>3. Answer(o)' = Answer(o)
  BY SameAnswer
<1>4. Agrees(o, view.q)'
  BY <1>2, SameBrings
<1>5. Shown(view)' = Shown(view)
  BY DEF Shown
<1>6. o = view'.of[view'.q.tab]
  BY <1>1
<1>7. Shown(view)' = ToSet(Answer(o)'.rows)
  BY <1>2, <1>3, <1>5
<1> QED
  BY <1>4, <1>6, <1>7 DEF Current

-----------------------------------------------------------------------------
(* Some calls end (gone), and queries are sent: those of the view left.    *)
LEMMA AskShow ==
  ASSUME RowsInv, calm, UNCHANGED <<page, server, jobs>>, IsView(view'),
         NEW cs, cs \subseteq calls, NEW asks, IsAsks(asks), calls' = Sent(cs, asks),
         view'.of = view.of, view'.q = view.q \/ InFlight(cs) = {},
         asks # <<>> => /\ Brings(Final(asks), view'.q)
                        /\ page = "resultats" => ~view'.notReady,
         asks = <<>> => /\ Agrees(view.q, view'.q) /\ view'.rows = view.rows
                        /\ page = "resultats" => view'.notReady = view.notReady
                        /\ \A c \in calls \ cs : c.op \notin Reads /\ ~Will(c),
         \A c \in calls \ cs : \A j \in jobs : j.state = "running" => ~Owner(c, j)
  PROVE  Coming'
<1> USE DEF Coming
<1>0. Coming /\ IsView(view)
  BY DEF RowsInv, Rest, Inv, ListInv, Typed
<1>1. PICK b \in Nat : \A c \in cs : c.n \in 0..b
  BY DEF RowsInv, Rest, Bounded
<1>2. \A d \in calls' : d \in cs \/ (d.op = "load" /\ d.status = "sent")
  BY <1>1, SentLast
<1>3. cs \subseteq calls'
  BY SentAre
<1>4. \A c \in calls' : c.status # "lost"
  BY <1>0, <1>2
<1>5. Reloads'
  <2> SUFFICES ASSUME NEW c \in calls', c.op \notin Loads, c.then # <<>>
               PROVE  Brings(Final(c.then), view'.q)
    BY SameBrings DEF Reloads
  <2>1. c \in cs
    BY <1>2 DEF Loads, Reads
  <2>2. view'.q = view.q
    BY <2>1 DEF InFlight
  <2> QED
    BY <1>0, <2>1, <2>2 DEF Reloads
<1>6. Owned'
  <2> SUFFICES ASSUME NEW j \in jobs, j.op = "import", j.state = "running"
               PROVE  \E c \in calls' : Owner(c, j)
    BY DEF Owned, Owner
  <2>1. PICK c \in calls : Owner(c, j)
    BY <1>0 DEF Owned
  <2> QED
    BY <1>3, <2>1
<1>7. WillShow'
  <2>1. CASE \E c \in cs : Will(c)
    BY <1>3, <2>1 DEF WillShow, Will
  <2>2. CASE asks # <<>>
    <3>1. PICK e \in calls' : /\ e.op = "load" /\ e.status = "sent" /\ e.q = Final(asks)
                              /\ \A d \in calls' : d = e \/ d.n < e.n
      BY <1>1, <2>2, SentLast
    <3>2. Good(e)'
      BY <2>2, <3>1, SameBrings DEF Good
    <3>3. \A d \in calls' : d = e \/ d.n < e.n
      BY <3>1
    <3>4. \A d \in calls' : d.op \in Reads => Good(d)' \/ \E f \in calls' : f.op \in Reads /\ f.n > d.n
      <4> SUFFICES ASSUME NEW d \in calls', d # e
                   PROVE  \E f \in calls' : f.op \in Reads /\ f.n > d.n
        BY <3>2
      <4>1. PICK k \in Nat : \A f \in calls' : f.n \in 0..k
        BY <1>1, SentLast
      <4>2. d.n \in Nat /\ e.n \in Nat /\ d.n < e.n
        BY <3>3, <4>1
      <4>3. e.n > d.n
        BY <4>2
      <4> QED
        BY <3>1, <4>3 DEF Reads
    <3> QED
      BY <3>1, <3>4 DEF WillShow, Reads
  <2>3. CASE asks = <<>> /\ ~ \E c \in calls : Will(c)
    <3>1. calls' = cs
      BY <1>1, <2>3, SentLast
    <3>2. \A o : Brings(o, view.q) => Brings(o, view'.q)
      BY <2>3, AgreeOn
    <3>3. /\ \A c \in calls : c.op \in Reads => Good(c) \/ \E d \in calls : d.op \in Reads /\ d.n > c.n
          /\ (\A c \in calls : c.op \notin Reads) => Current
      BY <1>0, <2>3 DEF WillShow
    <3>4. \A c \in calls : c.op \in Reads => c \in calls'
      BY <2>3, <3>1
    <3>5. \A c \in calls' : c.op \in Reads => Good(c)' \/ \E d \in calls' : d.op \in Reads /\ d.n > c.n
      <4> SUFFICES ASSUME NEW c \in calls', c.op \in Reads
                   PROVE  Good(c)' \/ \E d \in calls' : d.op \in Reads /\ d.n > c.n
        OBVIOUS
      <4>1. c \in calls
        BY <3>1
      <4>2. Good(c) => Good(c)'
        BY <2>3, <3>2, StillGood
      <4> QED
        BY <3>3, <3>4, <4>1, <4>2
    <3>6. (\A c \in calls' : c.op \notin Reads) => Current'
      <4> SUFFICES ASSUME \A c \in calls' : c.op \notin Reads
                   PROVE  Current'
        OBVIOUS
      <4>1. Current
        BY <3>3, <3>4
      <4>2. view'.q.tab = view.q.tab
        BY <1>0, <2>3, SameTab DEF Agrees, IsView
      <4>0. PICK o : o = view.of[view.q.tab]
        OBVIOUS
      <4>3. (view.of[view.q.tab])' = o /\ Shown(view)' = Shown(view)
        BY <2>3, <4>0, <4>2 DEF Shown
      <4>4. Agrees(o, view.q)'
        BY <2>3, <4>0, <4>1, AgreeOn, SameBrings DEF Current
      <4>5. Answer(o)' = Answer(o)
        BY SameAnswer
      <4> QED
        BY <4>0, <4>1, <4>3, <4>4, <4>5 DEF Current
    <3> QED
      BY <3>5, <3>6 DEF WillShow
  <2>4. CASE asks = <<>> /\ \E c \in calls \ cs : Will(c)
    BY <2>4
  <2> QED
    BY <2>1, <2>2, <2>3, <2>4
<1> QED
  BY <1>4, <1>5, <1>6, <1>7

(* Calm or not, the calls that are left and those just sent are served.    *)
LEMMA AskServed ==
  ASSUME RowsInv, UNCHANGED <<page, server, jobs>>,
         NEW cs, cs \subseteq calls, NEW asks, IsAsks(asks), calls' = Sent(cs, asks)
  PROVE  Bounded' /\ Queued' /\ \A c \in calls' : Served(c)'
<1>1. PICK b \in Nat : \A c \in cs : c.n \in 0..b
  BY DEF RowsInv, Rest, Bounded
<1>2. Bounded'
  BY <1>1, SentLast DEF Bounded
<1>3. Queued'
  BY DEF RowsInv, Rest, Queued
<1>4. ASSUME NEW c \in calls'
      PROVE  Served(c)'
  <2>1. CASE c \in calls
    BY <2>1 DEF RowsInv, Rest, Served, Told, IsQuery
  <2>2. CASE c.op = "load" /\ c.status = "sent"
    BY <2>2 DEF Served, Loads, Reads
  <2>3. c \in cs \/ (c.op = "load" /\ c.status = "sent")
    BY <1>1, SentLast
  <2> QED
    BY <2>1, <2>2, <2>3
<1> QED
  BY <1>2, <1>3, <1>4

(* On Resultats, the elections are the first answer heard.                 *)
LEMMA AskSettled ==
  ASSUME RowsInv, UNCHANGED page, NEW cs, cs \subseteq calls, NEW asks, IsAsks(asks),
         calls' = Sent(cs, asks), page = "resultats" => \A c \in cs : c.op # "elections",
         page \in Boxless => view'.typed = view'.debounced
  PROVE  Settled'
<1>1. \A c \in calls' : c \in cs \/ c.op = "load"
  BY SentAre
<1> QED
  BY <1>1 DEF Settled

(* A control is changed, or a text let through.                            *)
LEMMA ChangeRest ==
  ASSUME RowsInv, UNCHANGED <<page, server, jobs>>, NEW m, Asked(view, m), Follows(view, m),
         view' = Asks(m.view, m.asks), calls' = Sent(calls, m.asks),
         calm' => calm /\ (m.view.q = view.q \/ InFlight(calls) = {}),
         page = "resultats" => \A c \in calls : c.op # "elections",
         page \in Boxless => m.view.typed = m.view.debounced
  PROVE  Rest'
<1>1. IsView(m.view) /\ IsAsks(m.asks)
  BY DEF Asked, Keeps
<1>2. /\ IsView(view') /\ view'.q = m.view.q /\ view'.of = view.of
      /\ view'.typed = m.view.typed /\ view'.debounced = m.view.debounced
      /\ m.asks = <<>> => view'.rows = view.rows /\ view'.notReady = view.notReady
      /\ m.asks # <<>> /\ page = "resultats" => ~view'.notReady
  BY <1>1, AsksLeave DEF Asked, Keeps
<1>3. Bounded' /\ Queued' /\ \A c \in calls' : Served(c)'
  BY <1>1, AskServed
<1>4. Settled'
  BY <1>1, <1>2, AskSettled
<1>5. calm' => Coming'
  BY <1>1, <1>2, AskShow DEF Follows
<1> QED
  BY <1>3, <1>4, <1>5 DEF Rest

(* A control.                                                              *)
LEMMA TurnRest ==
  ASSUME RowsInv, Turn
  PROVE  Rest'
<1>0. IsView(view) /\ page \in Pages
  BY DEF RowsInv, Inv, ListInv, Typed
<1>1. PICK m \in Controls :
         /\ view' = Asks(m.view, m.asks) /\ calls' = Sent(calls, m.asks)
         /\ calm' = (calm /\ (m.view.q = view.q \/ InFlight(calls) = {}))
  BY DEF Turn
<1>2. Asked(view, m) /\ Follows(view, m)
  BY <1>0, ControlsAsked, ControlsFollow
<1>3. UNCHANGED <<page, server, jobs>>
  BY DEF Turn
<1>4. page = "resultats" => \A c \in calls : c.op # "elections"
  <2> SUFFICES ASSUME page = "resultats", NEW c \in calls, c.op = "elections"
               PROVE  FALSE
    OBVIOUS
  <2>1. view.q.group = "none"
    BY DEF RowsInv, Inv, ListInv, Unchosen
  <2>2. Controls = {}
    BY <2>1 DEF Controls, Bar
  <2> QED
    BY <2>2
<1>5. page \in Boxless => m.view.typed = m.view.debounced
  BY <1>0, BoxlessControls DEF RowsInv, Rest, Settled
<1> QED
  BY <1>1, <1>2, <1>3, <1>4, <1>5, ChangeRest

(* The text that useDebounce lets through.                                 *)
LEMMA DebounceRest ==
  ASSUME RowsInv, Debounce
  PROVE  Rest'
<1> DEFINE m == IF page = "users" THEN Change([view EXCEPT !.debounced = view.typed], <<>>)
                ELSE Effect(Debounced(view))
<1>0. IsView(view) /\ page \in Pages
  BY DEF RowsInv, Inv, ListInv, Typed
<1>1. page \notin Boxless
  BY DEF Debounce, RowsInv, Rest, Settled
<1>2. Asked(view, m)
  BY <1>0, DebounceAsked
<1>3. Follows(view, m)
  <2>1. CASE page = "users"
    <3>1. IsView([view EXCEPT !.debounced = view.typed])
      BY <1>0, ControlsOnly DEF Only, Keeps
    <3>2. [view EXCEPT !.debounced = view.typed].q = view.q
      BY <1>0 DEF IsView
    <3> QED
      BY <2>1, <3>1, <3>2, AgreeOn, ChangeFollows
  <2>2. CASE page # "users"
    <3>1. IsView(Debounced(view)) /\ Debounced(view).q.page = view.q.page
      BY <1>0 DEF Debounced, IsView, IsQuery
    <3> QED
      BY <1>0, <1>1, <2>2, <3>1, EffectFollows DEF Boxless
  <2> QED
    BY <2>1, <2>2
<1>4. /\ view' = Asks(m.view, m.asks) /\ calls' = Sent(calls, m.asks)
      /\ calm' = (calm /\ (m.view.q = view.q \/ InFlight(calls) = {}))
      /\ UNCHANGED <<page, server, jobs>>
  BY DEF Debounce
<1> HIDE DEF m
<1> QED
  BY <1>1, <1>2, <1>3, <1>4, ChangeRest DEF Boxless

-----------------------------------------------------------------------------
(* An answer is served, lost, or awaited further: d is the call it leaves. *)
LEMMA ReplaceRest ==
  ASSUME RowsInv, UNCHANGED page, NEW c \in calls, NEW d, Set(c, d),
         d.n = c.n, d.then = c.then,
         d.op = c.op \/ {c.op, d.op} \cap Loads = {} \/ {c.op, d.op} \subseteq Reads,
         view'.q = view.q, view'.rows = view.rows, view'.of = view.of,
         view'.notReady = view.notReady, view'.typed = view.typed,
         view'.debounced = view.debounced, c.op \notin Reads => view'.detail = view.detail,
         jobs \subseteq jobs', Queued', Served(d)',
         calm' => /\ calm /\ d.status # "lost"
                  /\ server' = server \/ Will(d)'
                  /\ Will(c) => Will(d)'
                  /\ c.op \in Reads /\ Good(c) => Good(d)'
                  /\ \A j \in jobs : Owner(c, j) => Owner(d, j)
                  /\ \A j \in jobs' \ jobs : j.op = "import" => Owner(d, j)
  PROVE  Rest'
<1>1. calls' = (calls \ {c}) \cup {d}
  BY DEF Set
<1>2. Bounded'
  BY <1>1 DEF RowsInv, Rest, Bounded
<1>3. Settled'
  <2>1. ASSUME page = "resultats", NEW e \in calls', e.op = "elections"
        PROVE  calls' = {e} /\ view'.detail = "none"
    <3>1. CASE e \in calls \ {c}
      BY <2>1, <3>1 DEF RowsInv, Rest, Settled
    <3>2. CASE e = d
      <4>1. c.op = "elections"
        BY <2>1, <3>2 DEF Loads, Reads
      <4>2. calls = {c} /\ view.detail = "none"
        BY <2>1, <4>1 DEF RowsInv, Rest, Settled
      <4> QED
        BY <1>1, <3>2, <4>1, <4>2 DEF Reads
    <3> QED
      BY <1>1, <3>1, <3>2
  <2> QED
    BY <2>1 DEF RowsInv, Rest, Settled
<1>4. \A e \in calls' : Served(e)'
  <2>1. ASSUME NEW e \in calls
        PROVE  Served(e)'
    <3>1. Served(e)
      BY DEF RowsInv, Rest
    <3>2. Told(e) => Told(e)'
      BY DEF Told
    <3> QED
      BY <3>1, <3>2 DEF Served, IsQuery
  <2> QED
    BY <1>1, <2>1
<1>5. ASSUME calm'
      PROVE  Coming'
  <2>0. Coming /\ calm
    BY <1>5 DEF RowsInv, Rest
  <2>1. \A e \in calls' : e.status # "lost"
    BY <1>1, <1>5, <2>0 DEF Coming
  <2>2. Reloads'
    <3> SUFFICES ASSUME NEW e \in calls', e.op \notin Loads, e.then # <<>>
                 PROVE  Brings(Final(e.then), view'.q)
      BY SameBrings DEF Reloads
    <3>1. \E f \in calls : f.op \notin Loads /\ f.then = e.then
      BY <1>1 DEF Loads
    <3> QED
      BY <2>0, <3>1 DEF Coming, Reloads
  <2>3. Owned'
    <3> SUFFICES ASSUME NEW j \in jobs', j.op = "import", j.state = "running"
                 PROVE  \E e \in calls' : Owner(e, j)
      BY DEF Owned, Owner
    <3>1. CASE j \in jobs
      <4>1. PICK e \in calls : Owner(e, j)
        BY <2>0, <3>1 DEF Coming, Owned
      <4> QED
        BY <1>1, <1>5, <3>1, <4>1
    <3> QED
      BY <1>1, <1>5, <3>1
  <2>4. WillShow'
    <3>1. CASE Will(d)'
      BY <1>1, <3>1 DEF WillShow
    <3>2. CASE ~Will(d)' /\ \E e \in calls : Will(e)
      <4>1. PICK e \in calls : Will(e)
        BY <3>2
      <4>2. e \in calls' /\ Will(e)'
        BY <1>1, <1>5, <3>2, <4>1 DEF Will
      <4> QED
        BY <4>2 DEF WillShow
    <3>3. CASE ~Will(d)' /\ ~ \E e \in calls : Will(e)
      <4>1. server' = server
        BY <1>5, <3>3
      <4>2. /\ \A e \in calls : e.op \in Reads => Good(e) \/ \E f \in calls : f.op \in Reads /\ f.n > e.n
            /\ (\A e \in calls : e.op \notin Reads) => Current
        BY <2>0, <3>3 DEF Coming, WillShow
      <4>3. \A e \in calls : Good(e) => Good(e)'
        BY <4>1, StillGood
      <4>4. \A f \in calls : f.op \in Reads => \E g \in calls' : g.op \in Reads /\ g.n = f.n
        BY <1>1 DEF Loads, Reads
      <4>5. ASSUME NEW e \in calls', e.op \in Reads
            PROVE  Good(e)' \/ \E f \in calls' : f.op \in Reads /\ f.n > e.n
        <5>1. CASE e \in calls
          BY <4>2, <4>3, <4>4, <4>5, <5>1
        <5>2. CASE e = d
          <6>1. c.op \in Reads /\ c.n = e.n
            BY <4>5, <5>2 DEF Loads, Reads
          <6>2. CASE Good(c)
            BY <1>5, <5>2, <6>1, <6>2
          <6>3. CASE \E f \in calls : f.op \in Reads /\ f.n > c.n
            BY <4>4, <6>1, <6>3
          <6> QED
            BY <4>2, <6>1, <6>2, <6>3
        <5> QED
          BY <1>1, <5>1, <5>2
      <4>6. ASSUME \A e \in calls' : e.op \notin Reads
            PROVE  Current'
        <5>1. Current
          BY <4>2, <4>4, <4>6
        <5> QED
          BY <4>1, <5>1, SameCurrent
      <4> QED
        BY <4>5, <4>6 DEF WillShow
    <3> QED
      BY <3>1, <3>2, <3>3
  <2> QED
    BY <2>1, <2>2, <2>3, <2>4 DEF Coming
<1> QED
  BY <1>2, <1>3, <1>4, <1>5 DEF Rest

(* A list, or the elections, is served.                                    *)
LEMMA ServeRowsRest ==
  ASSUME RowsInv, NEW c \in calls, ServeRows(c)
  PROVE  Rest'
<1>1. IsCall(c) /\ Served(c)
  BY DEF RowsInv, Rest, Inv, ListInv, Typed
<1>2. PICK d : /\ d = [c EXCEPT !.status = "ok",
                                !.ans = IF c.op \in Reads THEN Answer(c.q) ELSE NoAnswer]
               /\ Set(c, d)
  BY DEF ServeRows
<1>3. /\ d.n = c.n /\ d.then = c.then /\ d.op = c.op /\ d.q = c.q /\ d.status = "ok"
      /\ d.job = c.job
      /\ c.op \in Reads => d.ans = Answer(c.q)
  BY <1>1, <1>2 DEF IsCall
<1>4. UNCHANGED <<page, view, server, jobs, calm>> /\ c.op \in Loads
  BY DEF ServeRows
<1>5. Served(d)' /\ Queued'
  BY <1>1, <1>3, <1>4 DEF Served, Loads, Reads, RowsInv, Rest, Queued
<1>6. Will(c) => Will(d)'
  BY <1>3, <1>4 DEF Will, Loads, Reads
<1>7. c.op \in Reads /\ Good(c) => Good(d)'
  <2>0. UNCHANGED <<page, server>>
    BY <1>4
  <2>1. Answer(d.q)' = Answer(d.q)
    BY <2>0, SameAnswer
  <2>2. Good(c) => Brings(d.q, view.q)'
    BY <1>3, <1>4, SameBrings DEF Good
  <2>3. c.op \in Reads => d.ans = Answer(d.q)
    BY <1>3
  <2>4. c.op \in Reads => d.ans = Answer(d.q)'
    BY <2>1, <2>3
  <2> QED
    BY <1>3, <1>4, <2>2, <2>4 DEF Good
<1>8. \A j \in jobs : ~Owner(c, j)
  BY <1>4 DEF Owner, Loads, Reads
<1> QED
  BY <1>2, <1>3, <1>4, <1>5, <1>6, <1>7, <1>8, ReplaceRest

(* What the codes, an import or a calculation do to the rows: nothing yet. *)
LEMMA QueueKeepsRows ==
  ASSUME RowsInv, NEW c \in calls, NEW typed, server' \in After(c, typed),
         c.op = "codes" \/ (c.op \in {"import", "calculate"} /\ c.ids = {})
  PROVE  server' = server
<1> DEFINE hit == {r \in server : r.id \in c.ids /\ Accepts(c.op, r, typed)
                                    /\ (c.op = "verify" => r.group = c.q.group)}
<1>1. server' = (server \ hit) \cup {Written(c.op, r, typed) : r \in hit}
  BY DEF After
<1>2. hit \subseteq server
  OBVIOUS
<1>3. CASE c.op = "codes"
  <2>1. \A r \in hit : Written(c.op, r, typed) = r
    BY <1>3 DEF Written, Becomes
  <2> HIDE DEF hit
  <2> QED
    BY <1>1, <1>2, <2>1
<1>4. CASE c.ids = {}
  <2>1. hit = {}
    BY <1>4
  <2> HIDE DEF hit
  <2> QED
    BY <1>1, <2>1
<1> QED
  BY <1>3, <1>4

(* A job queued has the next number.                                       *)
LEMMA QueueJob ==
  ASSUME RowsInv, UNCHANGED page, NEW op, NEW group, page = "candidats" => op = "import",
         jobs' = jobs \cup {[id |-> Cardinality(jobs) + 1, op |-> op, group |-> group,
                             state |-> "running"]}
  PROVE  Queued'
<1> DEFINE j == [id |-> Cardinality(jobs) + 1, op |-> op, group |-> group, state |-> "running"]
           n == Cardinality(jobs)
<1>1. IsFiniteSet(jobs) /\ n \in Nat
  BY FS_CardinalityType DEF RowsInv, Rest, Queued
<1>2. /\ DOMAIN j = {"id", "op", "group", "state"} /\ j.id = n + 1 /\ j.op = op
      /\ j.state = "running"
  OBVIOUS
<1>3. \A k \in jobs : k.id \in 1..n
  BY DEF RowsInv, Rest, Queued
<1> HIDE DEF j
<1>4. j \notin jobs
  BY <1>1, <1>2, <1>3
<1>5. jobs' = jobs \cup {j}
  BY DEF j
<1>6. IsFiniteSet(jobs') /\ Cardinality(jobs') = n + 1
  BY <1>1, <1>4, <1>5, FS_AddElement
<1> HIDE DEF n
<1>7. \A k \in jobs' : k.id \in 1..(n + 1)
  BY <1>1, <1>2, <1>3, <1>5
<1>8. \A k, l \in jobs' : k.id = l.id => k = l
  BY <1>1, <1>2, <1>3, <1>5 DEF RowsInv, Rest, Queued
<1> QED
  BY <1>2, <1>5, <1>6, <1>7, <1>8 DEF RowsInv, Rest, Queued

(* An action is served.                                                    *)
LEMMA ServeActionRest ==
  ASSUME RowsInv, NEW c \in calls, ServeAction(c)
  PROVE  Rest'
<1>0. PICK typed \in Typable(c.op) :
       IF Refused(c, typed)
       THEN Set(c, [c EXCEPT !.status = "refused"]) /\ UNCHANGED <<server, jobs>>
       ELSE LET id == Cardinality(jobs) + 1
            IN  /\ Set(c, [c EXCEPT !.status = "ok", !.job = IF c.op \in Queues THEN id ELSE 0])
                /\ server' \in After(c, typed)
                /\ jobs' = IF c.op \in Queues
                           THEN jobs \cup {[id |-> id, op |-> c.op, group |-> c.q.group, state |-> "running"]}
                           ELSE jobs
  BY DEF ServeAction
<1>1. IsCall(c) /\ Served(c)
  BY DEF RowsInv, Rest, Inv, ListInv, Typed
<1>2. c.op \notin Loads \cup {"poll", "timer"} /\ c.status = "sent"
  BY DEF ServeAction
<1>3. UNCHANGED <<page, view, calm>>
  BY DEF ServeAction
<1>4. \A j \in jobs : ~Owner(c, j)
  BY <1>2 DEF Owner
<1>5. ~Will(c)
  <2>1. c.op \in {"import", "calculate"} => c.job = 0
    BY <1>1, <1>2 DEF Served
  <2>2. \A j \in jobs : j.id # 0
    BY DEF RowsInv, Rest, Queued
  <2> QED
    BY <1>2, <2>1, <2>2 DEF Will, Loads, Reads
<1>6. CASE Refused(c, typed)
  <2>1. PICK d : d = [c EXCEPT !.status = "refused"] /\ Set(c, d)
    BY <1>0, <1>6
  <2>2. /\ d.n = c.n /\ d.then = c.then /\ d.op = c.op /\ d.status = "refused"
        /\ d.job = c.job /\ d.ids = c.ids /\ d.tries = c.tries
    BY <1>1, <2>1 DEF IsCall
  <2>3. UNCHANGED <<server, jobs>>
    BY <1>0, <1>6
  <2>4. Served(d)' /\ Queued'
    BY <1>1, <1>2, <1>3, <2>2, <2>3 DEF Served, IsQuery, Loads, Reads, RowsInv, Rest, Queued
  <2> QED
    BY <1>2, <1>3, <1>4, <1>5, <2>1, <2>2, <2>3, <2>4, ReplaceRest DEF Loads, Reads
<1>7. CASE ~Refused(c, typed)
  <2> DEFINE id == Cardinality(jobs) + 1
             job == [id |-> id, op |-> c.op, group |-> c.q.group, state |-> "running"]
  <2>1. PICK d : d = [c EXCEPT !.status = "ok", !.job = IF c.op \in Queues THEN id ELSE 0] /\ Set(c, d)
    BY <1>0, <1>7
  <2>2. /\ d.n = c.n /\ d.then = c.then /\ d.op = c.op /\ d.status = "ok"
        /\ d.job = (IF c.op \in Queues THEN id ELSE 0) /\ d.ids = c.ids /\ d.tries = c.tries
    BY <1>1, <2>1 DEF IsCall
  <2>3. server' \in After(c, typed) /\ jobs' = IF c.op \in Queues THEN jobs \cup {job} ELSE jobs
    BY <1>0, <1>7
  <2>4. Queued'
    <3>1. CASE c.op \in Queues
      <4>1. page = "candidats" => c.op = "import"
        BY <1>1, <3>1 DEF Served, Queues
      <4> QED
        BY <1>3, <2>3, <3>1, <4>1, QueueJob
    <3>2. CASE c.op \notin Queues
      BY <1>3, <2>3, <3>2 DEF RowsInv, Rest, Queued
    <3> QED
      BY <3>1, <3>2
  <2>5. Served(d)'
    BY <1>1, <1>2, <1>3, <2>2 DEF Served, IsQuery, Loads, Reads
  <2>6. server' = server \/ Will(d)'
    <3>1. CASE c.op \in {"codes", "import", "calculate"}
      <4>1. c.op = "codes" \/ (c.op \in {"import", "calculate"} /\ c.ids = {})
        BY <1>1, <3>1 DEF Served
      <4> QED
        BY <2>3, <4>1, QueueKeepsRows
    <3>2. CASE c.op \notin {"codes", "import", "calculate"}
      <4>1. c.then # <<>>
        BY <1>1, <1>2, <3>2 DEF Served
      <4> QED
        BY <1>2, <2>2, <3>2, <4>1 DEF Will
    <3> QED
      BY <3>1, <3>2
  <2>7. \A j \in jobs' \ jobs : j.op = "import" => Owner(d, j)
    <3>1. ASSUME NEW j \in jobs' \ jobs, j.op = "import"
          PROVE  Owner(d, j)
      <4>1. c.op \in Queues /\ j = job
        BY <2>3, <3>1
      <4>2. c.op = "import" /\ d.job = j.id
        BY <2>2, <3>1, <4>1
      <4> QED
        BY <2>2, <4>2 DEF Owner
    <3> QED
      BY <3>1
  <2>8. jobs \subseteq jobs'
    BY <2>3
  <2> HIDE DEF job, id
  <2> QED
    BY <1>2, <1>3, <1>4, <1>5, <2>1, <2>2, <2>4, <2>5, <2>6, <2>7, <2>8, ReplaceRest DEF Loads, Reads
<1> QED
  BY <1>6, <1>7

(* A poll is served, or an answer lost.                                    *)
LEMMA ServePollRest ==
  ASSUME RowsInv, NEW c \in calls, ServePoll(c)
  PROVE  Rest'
<1>1. IsCall(c) /\ Served(c)
  BY DEF RowsInv, Rest, Inv, ListInv, Typed
<1>2. PICK j \in jobs : j.id = c.job /\ Set(c, [c EXCEPT !.status = "ok", !.done = j.state])
  BY DEF ServePoll
<1>3. PICK d : d = [c EXCEPT !.status = "ok", !.done = j.state] /\ Set(c, d)
  BY <1>2
<1>4. /\ d.n = c.n /\ d.then = c.then /\ d.op = c.op /\ d.status = "ok" /\ d.job = c.job
      /\ d.ids = c.ids /\ d.tries = c.tries /\ d.done = j.state
  BY <1>1, <1>3 DEF IsCall
<1>5. UNCHANGED <<page, view, server, jobs, calm>> /\ c.op = "poll"
  BY DEF ServePoll
<1>6. Queued'
  BY <1>5 DEF RowsInv, Rest, Queued
<1>7. Served(d)'
  <2>1. Told(d)'
    BY <1>2, <1>4, <1>5 DEF Told
  <2> QED
    BY <1>1, <1>4, <1>5, <2>1 DEF Served, IsQuery, Loads, Reads
<1>8. Will(c) => Will(d)'
  BY <1>4, <1>5 DEF Will, Loads, Reads
<1>9. \A k \in jobs : Owner(c, k) => Owner(d, k)
  BY <1>4, <1>5 DEF Owner
<1>10. calm' => d.status # "lost"
  BY <1>4
<1> QED
  BY <1>3, <1>4, <1>5, <1>6, <1>7, <1>8, <1>9, <1>10, ReplaceRest DEF Loads, Reads

LEMMA LoseRest ==
  ASSUME RowsInv, NEW c \in calls, Lose(c)
  PROVE  Rest'
<1>1. IsCall(c) /\ Served(c)
  BY DEF RowsInv, Rest, Inv, ListInv, Typed
<1>2. PICK part, ans : Set(c, [c EXCEPT !.status = "lost", !.part = part, !.ans = ans])
  BY DEF Lose
<1>3. PICK d : d = [c EXCEPT !.status = "lost", !.part = part, !.ans = ans] /\ Set(c, d)
  BY <1>2
<1>4. /\ d.n = c.n /\ d.then = c.then /\ d.op = c.op /\ d.status = "lost"
      /\ d.ids = c.ids /\ d.tries = c.tries
  BY <1>1, <1>3 DEF IsCall
<1>5. UNCHANGED <<page, view, server, jobs>> /\ calm' = FALSE
  BY DEF Lose
<1>6. Queued'
  BY <1>5 DEF RowsInv, Rest, Queued
<1>7. Served(d)'
  BY <1>1, <1>4, <1>5 DEF Served, IsQuery
<1> QED
  BY <1>3, <1>4, <1>5, <1>6, <1>7, ReplaceRest

(* The elections are heard: the list of one, or of all, is asked.          *)
LEMMA HearElectionsRest ==
  ASSUME RowsInv, NEW c \in calls, HearElections(c)
  PROVE  Rest'
<1> DEFINE cs == calls \ {c}
<1>0. IsView(view) /\ IsCall(c) /\ Served(c)
  BY DEF RowsInv, Rest, Inv, ListInv, Typed
<1>1. c.op = "elections" /\ c.status \in {"ok", "lost"}
  BY <1>0 DEF HearElections, Served, Loads, Reads
<1>2. UNCHANGED <<page, server, jobs, calm>>
  BY DEF HearElections
<1>3. PICK g \in Group :
        LET m == CASE c.status # "ok"       -> [view |-> [view EXCEPT !.loading = FALSE], asks |-> <<>>]
                   [] c.status = "ok" /\ page = "resultats" -> ResultatsElections(view, g)
                   [] OTHER                 -> StaffElections(view)
        IN  view' = Asks(m.view, m.asks) /\ calls' = Sent(cs, m.asks)
  BY DEF HearElections
<1>4. PICK v, asks : /\ view' = Asks(v, asks) /\ calls' = Sent(cs, asks)
                     /\ IsView(v) /\ IsAsks(asks) /\ v.of = view.of
                     /\ page \in Boxless => v.typed = view.typed /\ v.debounced = view.debounced
                     /\ calm => asks # <<>> /\ Brings(Final(asks), v.q)
                     /\ v.q = view.q \/ page = "resultats"
  <2>1. CASE c.status # "ok"
    <3> DEFINE v == [view EXCEPT !.loading = FALSE]
    <3>1. /\ IsView(v) /\ v.of = view.of /\ v.typed = view.typed
          /\ v.debounced = view.debounced /\ v.q = view.q
      BY <1>0 DEF IsView, IsQuery
    <3>2. view' = Asks(v, <<>>) /\ calls' = Sent(cs, <<>>)
      BY <1>3, <2>1
    <3>3. ~calm /\ IsAsks(<<>>)
      BY <1>1, <2>1 DEF RowsInv, Rest, Coming, IsAsks
    <3> HIDE DEF v
    <3> QED
      BY <3>1, <3>2, <3>3
  <2>2. CASE c.status = "ok" /\ page = "resultats"
    <3> DEFINE w == [view EXCEPT !.q.group = g]
               m == ResultatsElections(view, g)
    <3>1. IsView(w) /\ Only(view, w)
      BY <1>0, <2>2 DEF IsView, IsQuery, Only, Keeps
    <3>2. Asked(view, m) /\ Follows(view, m)
      BY <1>0, <3>1, EffectsAsk, EffectsFollow DEF ResultatsElections
    <3>3. m.asks # <<>>
      <4>1. view.q.group = "none" /\ g # "none"
        BY <1>1, <2>2, ListConstants DEF RowsInv, Inv, ListInv, Unchosen
      <4>2. Criteria(w.q) # Criteria(view.q)
        <5>1. Criteria(w.q).group = g /\ Criteria(view.q).group = "none"
          BY <1>0, <4>1 DEF Criteria, IsView, IsQuery
        <5> QED
          BY <4>1, <5>1
      <4>3. \E p : m.asks = <<p>> \/ \E r : m.asks = <<p, r>>
        BY <4>2, TwoAsks DEF ResultatsElections, Effects, Change
      <4> QED
        BY <4>3, TwoAsks
    <3>4. m.view.typed = view.typed /\ m.view.debounced = view.debounced
      <4>1. \E x : /\ m.view = [w EXCEPT !.loading = x] \/ m.view = [[w EXCEPT !.q.page = 1] EXCEPT !.loading = x]
        BY DEF ResultatsElections, Effects, Change
      <4> QED
        BY <1>0, <4>1 DEF IsView
    <3>5. view' = Asks(m.view, m.asks) /\ calls' = Sent(cs, m.asks)
      BY <1>3, <2>2
    <3> HIDE DEF m
    <3> QED
      BY <2>2, <3>2, <3>3, <3>4, <3>5 DEF Asked, Keeps, Follows
  <2>3. CASE c.status = "ok" /\ page # "resultats"
    <3> DEFINE m == StaffElections(view)
    <3>1. /\ IsView(m.view) /\ m.asks = <<view.q>> /\ m.view.of = view.of
          /\ m.view.typed = view.typed
          /\ m.view.debounced = view.debounced /\ m.view.q = view.q
      BY <1>0 DEF StaffElections, Change, IsView, IsQuery
    <3>2. IsAsks(<<view.q>>) /\ <<view.q>> # <<>> /\ Final(<<view.q>>) = view.q
      BY <1>0, FinalOf DEF IsAsks, IsView
    <3>3. view' = Asks(m.view, m.asks) /\ calls' = Sent(cs, m.asks)
      BY <1>3, <2>3
    <3>4. Brings(view.q, view.q)
      BY AgreeOn
    <3> HIDE DEF m
    <3> QED
      BY <3>1, <3>2, <3>3, <3>4
  <2> QED
    BY <2>1, <2>2, <2>3
<1>5. /\ view'.q = v.q /\ view'.of = view.of
      /\ view'.typed = v.typed /\ view'.debounced = v.debounced /\ IsView(view')
      /\ page = "resultats" /\ asks # <<>> => ~view'.notReady
  BY <1>4, AsksLeave
<1>6. page = "resultats" => cs = {}
  BY <1>1 DEF RowsInv, Rest, Settled
<1>7. Bounded' /\ Queued' /\ \A d \in calls' : Served(d)'
  BY <1>2, <1>4, AskServed
<1>8. Settled'
  <2>1. page \in Boxless => view'.typed = view'.debounced
    BY <1>4, <1>5 DEF RowsInv, Rest, Settled
  <2> QED
    BY <1>2, <1>4, <1>6, <2>1, AskSettled
<1>9. ASSUME calm'
      PROVE  Coming'
  <2>1. calm /\ asks # <<>> /\ Brings(Final(asks), view'.q)
    BY <1>2, <1>4, <1>5, <1>9
  <2>2. view'.q = view.q \/ InFlight(cs) = {}
    BY <1>4, <1>5, <1>6 DEF InFlight
  <2>3. \A d \in calls \ cs : \A j \in jobs : ~Owner(d, j)
    BY <1>1 DEF Owner
  <2>4. IsAsks(asks) /\ calls' = Sent(cs, asks)
    BY <1>4
  <2> HIDE DEF cs
  <2>5. cs \subseteq calls
    BY DEF cs
  <2> QED
    BY <1>2, <1>5, <2>1, <2>2, <2>3, <2>4, <2>5, AskShow
<1> QED
  BY <1>7, <1>8, <1>9 DEF Rest

(* A call ends; what it asks, if anything, is what it was to load.         *)
LEMMA EndRest ==
  ASSUME RowsInv, UNCHANGED <<page, server, jobs>>, NEW c \in calls, c.op \notin Loads,
         NEW asks, asks \in {<<>>, c.then}, calls' = Sent(calls \ {c}, asks),
         IsView(view'), view'.q = view.q, view'.of = view.of,
         view'.typed = view.typed, view'.debounced = view.debounced,
         asks = <<>> => view'.rows = view.rows /\ view'.notReady = view.notReady,
         asks # <<>> => (page = "resultats" => ~view'.notReady),
         calm' => /\ calm
                  /\ asks = <<>> => ~Will(c)
                  /\ \A j \in jobs : j.state = "running" => ~Owner(c, j)
  PROVE  Rest'
<1> DEFINE cs == calls \ {c}
<1>1. cs \subseteq calls /\ calls \ cs = {c} /\ calls' = Sent(cs, asks)
  OBVIOUS
<1>2. IsAsks(asks)
  <2>1. IsCall(c)
    BY DEF RowsInv, Inv, ListInv, Typed
  <2> QED
    BY <2>1 DEF IsCall, IsAsks
<1>3. page = "resultats" => \A d \in cs : d.op # "elections"
  BY DEF RowsInv, Rest, Settled, Loads, Reads
<1> HIDE DEF cs
<1>4. Bounded' /\ Queued' /\ \A d \in calls' : Served(d)'
  BY <1>1, <1>2, AskServed
<1>5. Settled'
  <2>1. page \in Boxless => view'.typed = view'.debounced
    BY DEF RowsInv, Rest, Settled
  <2> QED
    BY <1>1, <1>2, <1>3, <2>1, AskSettled
<1>6. ASSUME calm'
      PROVE  Coming'
  <2>1. asks # <<>> => Brings(Final(asks), view'.q)
    BY <1>6 DEF RowsInv, Rest, Coming, Reloads
  <2>2. asks = <<>> => /\ Agrees(view.q, view'.q) /\ view'.rows = view.rows
                       /\ \A d \in calls \ cs : d.op \notin Reads /\ ~Will(d)
    BY <1>1, <1>6, AgreeOn DEF Loads
  <2>3. \A d \in calls \ cs : \A j \in jobs : j.state = "running" => ~Owner(d, j)
    BY <1>1, <1>6
  <2> QED
    BY <1>1, <1>2, <1>6, <2>1, <2>2, <2>3, AskShow
<1> QED
  BY <1>4, <1>5, <1>6 DEF Rest

(* With the view of the end of the call, and its loads.                    *)
LEMMA FreedRest ==
  ASSUME RowsInv, UNCHANGED <<page, server, jobs>>, NEW c \in calls, c.op \notin Loads,
         NEW w, Freed(c, w), view' = Asks(w, c.then), calls' = Sent(calls \ {c}, c.then),
         calm' => /\ calm
                  /\ c.then = <<>> => ~Will(c)
                  /\ \A j \in jobs : j.state = "running" => ~Owner(c, j)
  PROVE  Rest'
<1>1. IsAsks(c.then)
  BY DEF RowsInv, Inv, ListInv, Typed, IsCall
<1>2. /\ IsView(view') /\ view'.q = view.q /\ view'.of = view.of
      /\ view'.typed = view.typed /\ view'.debounced = view.debounced
      /\ c.then = <<>> => view'.rows = view.rows /\ view'.notReady = view.notReady
      /\ c.then # <<>> => (page = "resultats" => ~view'.notReady)
  BY <1>1, AsksLeave DEF Freed
<1> QED
  BY <1>2, EndRest

(* With nothing to load.                                                   *)
LEMMA DroppedRest ==
  ASSUME RowsInv, UNCHANGED <<page, server, jobs>>, NEW c \in calls, c.op \notin Loads,
         Freed(c, view'), calls' = calls \ {c},
         calm' => /\ calm /\ ~Will(c)
                  /\ \A j \in jobs : j.state = "running" => ~Owner(c, j)
  PROVE  Rest'
<1>1. calls' = Sent(calls \ {c}, <<>>)
  BY DEF Sent
<1> QED
  BY <1>1, EndRest DEF Freed

(* An action is heard.                                                     *)
LEMMA HearActionRest ==
  ASSUME RowsInv, NEW c \in calls, HearAction(c)
  PROVE  Rest'
<1>0. IsView(view) /\ IsCall(c) /\ Served(c)
  BY DEF RowsInv, Rest, Inv, ListInv, Typed
<1>1. c.op \notin Loads \cup {"poll", "timer"} /\ c.status = "ok"
  BY DEF HearAction
<1>2. UNCHANGED <<page, server, jobs, calm>>
  BY DEF HearAction
<1>3. Queued'
  BY <1>2 DEF RowsInv, Rest, Queued
<1>4. CASE c.op = "import"
  <2>1. PICK d : d = [c EXCEPT !.op = "poll", !.status = "sent"] /\ Set(c, d) /\ UNCHANGED view
    BY <1>4 DEF HearAction
  <2>2. /\ d.n = c.n /\ d.then = c.then /\ d.op = "poll" /\ d.status = "sent" /\ d.job = c.job
        /\ d.tries = c.tries
    BY <1>0, <2>1 DEF IsCall
  <2>3. Served(d)'
    <3>1. 0 \in 0..(MaxPolls - 1)
      BY ListConstants
    <3> QED
      BY <1>0, <1>2, <1>4, <2>2, <3>1 DEF Served, IsQuery, Loads, Reads
  <2>4. Will(c) => Will(d)'
    BY <1>2, <1>4, <2>2 DEF Will, Loads, Reads
  <2>5. \A j \in jobs : Owner(c, j) => Owner(d, j)
    BY <2>2 DEF Owner
  <2> QED
    BY <1>1, <1>2, <1>3, <2>1, <2>2, <2>3, <2>4, <2>5, ReplaceRest DEF Loads, Reads
<1>5. CASE c.op = "calculate"
  <2>1. PICK d : d = [c EXCEPT !.op = "timer"] /\ Set(c, d) /\ UNCHANGED view
    BY <1>5 DEF HearAction
  <2>2. /\ d.n = c.n /\ d.then = c.then /\ d.op = "timer" /\ d.status = "ok" /\ d.job = c.job
    BY <1>0, <1>1, <2>1 DEF IsCall
  <2>3. Served(d)'
    BY <1>0, <1>2, <1>5, <2>2 DEF Served, IsQuery, Loads, Reads
  <2>4. (Will(c) => Will(d)') /\ \A j \in jobs : ~Owner(c, j)
    BY <1>2, <1>5, <2>2 DEF Will, Owner, Loads, Reads
  <2> QED
    BY <1>1, <1>2, <1>3, <2>1, <2>2, <2>3, <2>4, ReplaceRest DEF Loads, Reads
<1>6. CASE c.op \notin {"import", "calculate"}
  <2> DEFINE w == Ended(IF c.op \in {"verify", "codes"} THEN ElecteursSent(view) ELSE view, c)
  <2>1. calls' = Sent(calls \ {c}, c.then) /\ view' = Asks(w, c.then)
    BY <1>6 DEF HearAction
  <2>2. Freed(c, w)
    BY <1>0, EndedFrees
  <2>3. /\ c.then = <<>> => ~Will(c)
        /\ \A j \in jobs : ~Owner(c, j)
    BY <1>1, <1>6 DEF Will, Owner, Loads, Reads
  <2> HIDE DEF w
  <2> QED
    BY <1>1, <1>2, <2>1, <2>2, <2>3, FreedRest
<1> QED
  BY <1>4, <1>5, <1>6

(* Its error.                                                              *)
LEMMA HearErrorRest ==
  ASSUME RowsInv, NEW c \in calls, HearError(c)
  PROVE  Rest'
<1>0. IsView(view) /\ IsCall(c) /\ Served(c)
  BY DEF RowsInv, Rest, Inv, ListInv, Typed
<1>1. c.op \notin Loads \cup {"poll", "timer"} /\ c.status \in {"refused", "lost"}
  BY DEF HearError
<1>2. UNCHANGED <<page, server, jobs, calm>> /\ calls' = calls \ {c}
  BY DEF HearError
<1>3. Freed(c, view')
  BY <1>0, EndedFrees DEF HearError
<1>4. calm => c.status = "refused"
  BY <1>1 DEF RowsInv, Rest, Coming
<1>5. \A j \in jobs : ~Owner(c, j)
  BY <1>1 DEF Owner
<1>6. calm => ~Will(c)
  <2>1. \A j \in jobs : j.id # 0
    BY DEF RowsInv, Rest, Queued
  <2> QED
    BY <1>0, <1>1, <1>4, <2>1 DEF Will, Served, Loads, Reads
<1> QED
  BY <1>1, <1>2, <1>3, <1>5, <1>6, DroppedRest

(* A poll is heard: the job is done, has failed, or is asked about again.  *)
LEMMA HearPollRest ==
  ASSUME RowsInv, NEW c \in calls, HearPoll(c)
  PROVE  Rest'
<1>0. IsView(view) /\ IsCall(c) /\ Served(c) /\ Freed(c, view)
  <2>1. IsView(view) /\ IsCall(c) /\ Served(c)
    BY DEF RowsInv, Rest, Inv, ListInv, Typed
  <2>2. c.mark = Free
    BY <2>1 DEF HearPoll, IsCall
  <2> QED
    BY <2>1, <2>2, EndedFrees
<1>1. c.op = "poll" /\ c.op \notin Loads /\ c.status \in {"ok", "lost"}
  BY <1>0 DEF HearPoll, Served, Loads, Reads
<1>2. /\ UNCHANGED <<page, server, jobs>>
      /\ calm' = (calm /\ ~(c.done = "running" /\ c.tries + 1 = MaxPolls))
  BY DEF HearPoll
<1>3. c.then # <<>>
  <2>1. \E p : c.then = <<p>>
    BY <1>0, <1>1 DEF Served
  <2> QED
    BY <2>1
<1>4. Queued
  BY DEF RowsInv, Rest
<1>5. CASE c.status = "ok" /\ c.done = "completed"
  <2>1. calls' = Sent(calls \ {c}, c.then) /\ view' = Asks(view, c.then)
    BY <1>5 DEF HearPoll
  <2>2. \A j \in jobs : j.state = "running" => ~Owner(c, j)
    BY <1>0, <1>1, <1>4, <1>5 DEF Served, Told, Queued, Owner
  <2> QED
    BY <1>0, <1>1, <1>2, <1>3, <2>1, <2>2, FreedRest
<1>6. CASE c.status = "ok" /\ c.done = "failed"
  <2>1. calls' = calls \ {c} /\ UNCHANGED view
    BY <1>6 DEF HearPoll
  <2>2. \A j \in jobs : j.state = "running" => ~Owner(c, j)
    BY <1>0, <1>1, <1>4, <1>6 DEF Served, Told, Queued, Owner
  <2>3. ~Will(c)
    BY <1>0, <1>1, <1>4, <1>6 DEF Served, Told, Queued, Will, Loads, Reads
  <2> QED
    BY <1>0, <1>1, <1>2, <2>1, <2>2, <2>3, DroppedRest
<1>7. CASE ~(c.status = "ok" /\ c.done \in {"completed", "failed"}) /\ c.tries + 1 < MaxPolls
  <2>1. PICK d : d = [c EXCEPT !.status = "sent", !.tries = @ + 1] /\ Set(c, d) /\ UNCHANGED view
    BY <1>1, <1>7 DEF HearPoll, Set
  <2>2. /\ d.n = c.n /\ d.then = c.then /\ d.op = c.op /\ d.status = "sent" /\ d.job = c.job
        /\ d.tries = c.tries + 1
    BY <1>0, <2>1 DEF IsCall
  <2>3. Served(d)'
    <3>1. c.tries + 1 \in 0..(MaxPolls - 1)
      BY <1>0, <1>1, <1>7, ListConstants DEF Served
    <3> QED
      BY <1>0, <1>1, <1>2, <2>2, <3>1 DEF Served, IsQuery
  <2>4. Will(c) => Will(d)'
    BY <1>1, <1>2, <2>2 DEF Will, Loads, Reads
  <2>5. \A j \in jobs : Owner(c, j) => Owner(d, j)
    BY <1>1, <2>2 DEF Owner
  <2>6. Queued'
    BY <1>2 DEF RowsInv, Rest, Queued
  <2>7. jobs \subseteq jobs' /\ jobs' \ jobs = {}
    BY <1>2
  <2> QED
    BY <1>1, <1>2, <2>1, <2>2, <2>3, <2>4, <2>5, <2>6, <2>7, ReplaceRest DEF Loads, Reads
<1>8. CASE ~(c.status = "ok" /\ c.done \in {"completed", "failed"}) /\ ~(c.tries + 1 < MaxPolls)
  <2>1. calls' = calls \ {c} /\ UNCHANGED view
    <3>1. calls' = (calls \ {c}) \cup {} /\ UNCHANGED view
      BY <1>1, <1>8 DEF HearPoll
    <3> QED
      BY <3>1
  <2>2. c.tries + 1 = MaxPolls
    BY <1>0, <1>1, <1>8, ListConstants DEF Served
  <2>3. c.status = "ok" => c.done = "running"
    BY <1>0, <1>1, <1>4, <1>8 DEF Served, Told, Queued
  <2>4. ~calm'
    BY <1>1, <1>2, <2>2, <2>3 DEF RowsInv, Rest, Coming
  <2> QED
    BY <1>0, <1>1, <1>2, <2>1, <2>4, DroppedRest
<1> QED
  BY <1>5, <1>6, <1>7, <1>8

(* The timer of a calculation.                                             *)
LEMMA FireRest ==
  ASSUME RowsInv, NEW c \in calls, Fire(c)
  PROVE  Rest'
<1>0. IsView(view) /\ IsCall(c) /\ Served(c)
  BY DEF RowsInv, Rest, Inv, ListInv, Typed
<1>1. c.op = "timer" /\ c.op \notin Loads
  BY DEF Fire, Loads, Reads
<1>2. /\ UNCHANGED <<page, server, jobs, calm>>
      /\ calls' = Sent(calls \ {c}, c.then) /\ view' = Asks(Ended(view, c), c.then)
  BY DEF Fire
<1>3. c.then # <<>>
  <2>1. \E p : c.then = <<p>>
    BY <1>0, <1>1 DEF Served
  <2> QED
    BY <2>1
<1>4. \A j \in jobs : ~Owner(c, j)
  BY <1>1 DEF Owner
<1>5. Freed(c, Ended(view, c))
  BY <1>0, EndedFrees
<1> QED
  BY <1>1, <1>2, <1>3, <1>4, <1>5, FreedRest

-----------------------------------------------------------------------------
(* An action is sent.                                                      *)
LEMMA ActRest ==
  ASSUME RowsInv, Act
  PROVE  Rest'
<1>0. IsView(view)
  BY DEF RowsInv, Inv, ListInv, Typed
<1>1. PICK a \in Offered :
         /\ calls' = calls \cup {[Call(Latest(calls) + 1, a.op, view.q) EXCEPT
                                      !.ids = a.ids, !.then = a.then, !.mark = a.mark]}
         /\ view' = CASE page = "scrutins" -> ScrutinsStart(view, a)
                      [] page # "scrutins" /\ a.mark # Free -> [view EXCEPT !.busy = @ \cup {a.mark}]
                      [] OTHER -> view
  BY DEF Act
<1>2. PICK c : /\ c = [Call(Latest(calls) + 1, a.op, view.q) EXCEPT
                           !.ids = a.ids, !.then = a.then, !.mark = a.mark]
               /\ calls' = calls \cup {c}
  BY <1>1
<1>3. IsOffer(a) /\ UNCHANGED <<page, server, jobs, calm>>
  BY <1>0, OfferedOffers DEF Act
<1>4. /\ c.n = Latest(calls) + 1 /\ c.op = a.op /\ c.ids = a.ids /\ c.then = a.then
      /\ c.status = "sent" /\ c.job = 0 /\ c.tries = 0
  BY <1>2 DEF Call
<1>5. c.op \notin Loads \cup {"poll", "timer"} /\ Reloaded(c.op, c.then)
  BY <1>3, <1>4 DEF IsOffer
<1>6. /\ view'.q = view.q /\ view'.rows = view.rows /\ view'.of = view.of
      /\ view'.detail = view.detail /\ view'.typed = view.typed
      /\ view'.debounced = view.debounced /\ view'.notReady = view.notReady
  BY <1>0, <1>1 DEF ScrutinsStart, IsView
<1>7. Bounded'
  <2>1. PICK b \in Nat : \A d \in calls : d.n \in 0..b
    BY DEF RowsInv, Rest, Bounded
  <2>2. PICK m \in Nat : m = Latest(calls) /\ \A d \in calls : d.n <= m
    BY <2>1, LatestIs
  <2>3. \A d \in calls : d.n \in 0..(m + 1)
    BY <2>1, <2>2
  <2>4. c.n \in 0..(m + 1)
    BY <1>4, <2>2
  <2>5. \A d \in calls' : d.n \in 0..(m + 1)
    BY <1>2, <2>3, <2>4
  <2> QED
    BY <2>5 DEF Bounded
<1>8. Queued'
  BY <1>3 DEF RowsInv, Rest, Queued
<1>9. Settled'
  <2>1. ASSUME page = "resultats", NEW d \in calls', d.op = "elections"
        PROVE  FALSE
    <3>1. d \in calls
      BY <1>2, <1>5, <2>1 DEF Loads, Reads
    <3>2. view.detail = "none"
      BY <2>1, <3>1 DEF RowsInv, Rest, Settled
    <3>3. Offered = {}
      BY <2>1, <3>2 DEF Offered, ResultatsRows
    <3> QED
      BY <3>3
  <2> QED
    BY <1>3, <1>6, <2>1 DEF RowsInv, Rest, Settled
<1>10. \A d \in calls' : Served(d)'
  <2>1. ASSUME NEW d \in calls
        PROVE  Served(d)'
    BY <1>3 DEF RowsInv, Rest, Served, Told, IsQuery
  <2>2. Served(c)'
    <3>1. \/ c.op = "codes" /\ c.then = <<>>
          \/ \E p : IsQuery(p)' /\ c.then = <<p>>
      BY <1>3, <1>5 DEF Reloaded, IsQuery
    <3> QED
      BY <1>3, <1>4, <1>5, <3>1 DEF IsOffer, Served
  <2> QED
    BY <1>2, <2>1, <2>2
<1>11. ASSUME calm'
       PROVE  Coming'
  <2>0. Coming
    BY <1>3, <1>11 DEF RowsInv, Rest
  <2>1. \A d \in calls' : d.status # "lost"
    BY <1>2, <1>4, <2>0 DEF Coming
  <2>2. Reloads'
    <3> SUFFICES ASSUME NEW d \in calls', d.op \notin Loads, d.then # <<>>
                 PROVE  Brings(Final(d.then), view'.q)
      BY <1>3, SameBrings DEF Reloads
    <3>1. CASE d = c
      <4>1. PICK p : Brings(p, view.q) /\ d.then = <<p>>
        BY <1>5, <3>1 DEF Reloaded
      <4>2. Final(d.then) = p
        BY <4>1, FinalOf, Zenon
      <4> QED
        BY <1>6, <4>1, <4>2
    <3>2. CASE d \in calls
      BY <1>6, <2>0, <3>2 DEF Coming, Reloads
    <3> QED
      BY <1>2, <3>1, <3>2
  <2>3. Owned'
    BY <1>2, <1>3, <2>0 DEF Coming, Owned, Owner
  <2>4. WillShow'
    <3>1. CASE \E d \in calls : Will(d)
      BY <1>2, <1>3, <3>1 DEF WillShow, Will
    <3>2. CASE ~ \E d \in calls : Will(d)
      <4>1. /\ \A d \in calls : d.op \in Reads => Good(d) \/ \E e \in calls : e.op \in Reads /\ e.n > d.n
            /\ (\A d \in calls : d.op \notin Reads) => Current
        BY <2>0, <3>2 DEF Coming, WillShow
      <4>2. \A d : Good(d) => Good(d)'
        BY <1>3, <1>6, StillGood
      <4>3. \A d \in calls' : d.op \in Reads => d \in calls
        BY <1>2, <1>5 DEF Loads
      <4>4. Current => Current'
        BY <1>3, <1>6, SameCurrent
      <4>5. \A d \in calls' : d.op \in Reads => Good(d)' \/ \E e \in calls' : e.op \in Reads /\ e.n > d.n
        BY <1>2, <4>1, <4>2, <4>3
      <4>6. (\A d \in calls' : d.op \notin Reads) => Current'
        BY <1>2, <4>1, <4>4
      <4> QED
        BY <4>5, <4>6 DEF WillShow
    <3> QED
      BY <3>1, <3>2
  <2> QED
    BY <2>1, <2>2, <2>3, <2>4 DEF Coming
<1> QED
  BY <1>7, <1>8, <1>9, <1>10, <1>11 DEF Rest

(* An election's detail is heard, and its results asked.                   *)
LEMMA HearDetailRest ==
  ASSUME RowsInv, NEW c \in calls, HearDetail(c)
  PROVE  Rest'
<1>0. IsView(view) /\ IsCall(c) /\ Served(c)
  BY DEF RowsInv, Rest, Inv, ListInv, Typed
<1>1. PICK d : d = [c EXCEPT !.op = "final", !.status = "sent", !.ans = NoAnswer] /\ Set(c, d)
  BY DEF HearDetail
<1>2. /\ d.n = c.n /\ d.then = c.then /\ d.q = c.q /\ d.op = "final" /\ d.status = "sent"
  BY <1>0, <1>1 DEF IsCall
<1>3. c.op = "load" /\ UNCHANGED <<page, server, jobs>> /\ (calm' => calm)
  BY DEF HearDetail, GoesOn
<1>4. /\ view'.q = view.q /\ view'.rows = view.rows /\ view'.of = view.of
      /\ view'.notReady = view.notReady /\ view'.typed = view.typed
      /\ view'.debounced = view.debounced
  BY <1>0 DEF HearDetail, ResultatsDetail, IsView
<1>5. Queued'
  BY <1>3 DEF RowsInv, Rest, Queued
<1>6. Served(d)'
  BY <1>0, <1>2, <1>3 DEF Served, IsQuery, Loads, Reads
<1>7. ~Will(c) /\ \A j \in jobs : ~Owner(c, j)
  BY <1>3 DEF Will, Owner, Loads, Reads
<1>8. Good(c) => Good(d)'
  BY <1>2, <1>3, <1>4, SameBrings DEF Good
<1>9. {c.op, d.op} \subseteq Reads /\ d.status # "lost"
  BY <1>2, <1>3 DEF Reads
<1> QED
  BY <1>1, <1>2, <1>3, <1>4, <1>5, <1>6, <1>7, <1>8, <1>9, ReplaceRest

(* A list is heard.                                                        *)
LEMMA HearRowsRest ==
  ASSUME RowsInv, NEW c \in calls, HearRows(c)
  PROVE  Rest'
<1>0. IsView(view) /\ page \in Pages /\ IsCall(c) /\ IsQuery(c.q) /\ Served(c)
  BY DEF RowsInv, Rest, Inv, ListInv, Typed, IsCall
<1>1. /\ c.op \in Reads /\ c.status # "sent" /\ ~GoesOn(c)
      /\ view' = Load(c) /\ calls' = calls \ {c}
  BY DEF HearRows
<1>2. /\ UNCHANGED <<page, server, jobs>>
      /\ calm' = (calm /\ \A d \in calls \ {c} : d.op \in Reads => d.n >= c.n /\ ~view'.notReady)
  BY DEF HearRows
<1>3. calls' = Sent(calls', <<>>) /\ calls' \subseteq calls /\ IsAsks(<<>>)
  BY <1>1 DEF Sent, IsAsks
<1>4. Bounded' /\ Queued' /\ \A d \in calls' : Served(d)'
  BY <1>2, <1>3, AskServed
<1>5. Settled'
  <2>1. page \in Boxless => view'.typed = view'.debounced
    BY <1>0, <1>1, BoxlessLoads DEF RowsInv, Rest, Settled
  <2>2. page = "resultats" => \A d \in calls : d.op # "elections"
    BY <1>1 DEF RowsInv, Rest, Settled, Reads
  <2> QED
    BY <1>2, <1>3, <2>1, <2>2, AskSettled
<1>6. ASSUME calm'
      PROVE  Coming'
  <2>0. Coming
    BY <1>2, <1>6 DEF RowsInv, Rest
  <2>1. c.status = "ok"
    BY <1>0, <1>1, <2>0 DEF Coming, Served, Loads, Reads
  <2>2. Pager(c, view')
    BY <1>0, <1>1, <2>1, AnswerShown
  <2>3. \A o : Brings(o, view.q) => Brings(o, view'.q)
    <3>1. CASE page \in {"scrutins", "users"}
      <4>1. Criteria(view'.q) = Criteria(view.q)
        <5>1. view'.q = [view.q EXCEPT !.page = c.q.page] /\ IsQuery(view.q)
          BY <1>0, <2>2, <3>1 DEF Pager, IsView
        <5> QED
          BY <5>1, SameCriteria
      <4> QED
        BY <3>1, <4>1 DEF Brings, Agrees
    <3>2. CASE page \notin {"scrutins", "users"}
      BY <2>2, <3>2 DEF Pager
    <3> QED
      BY <3>1, <3>2
  <2>4. \A d \in calls' : d.status # "lost"
    BY <1>1, <2>0 DEF Coming
  <2>5. Reloads'
    <3> SUFFICES ASSUME NEW d \in calls', d.op \notin Loads, d.then # <<>>
                 PROVE  Brings(Final(d.then), view'.q)
      BY <1>2, SameBrings DEF Reloads
    <3> QED
      BY <1>1, <2>0, <2>3 DEF Coming, Reloads
  <2>6. Owned'
    <3> SUFFICES ASSUME NEW j \in jobs, j.op = "import", j.state = "running"
                 PROVE  \E d \in calls' : Owner(d, j)
      BY <1>2 DEF Owned, Owner
    <3>1. PICK d \in calls : Owner(d, j)
      BY <2>0 DEF Coming, Owned
    <3> QED
      BY <1>1, <3>1 DEF Owner, Reads
  <2>7. WillShow'
    <3>1. CASE \E d \in calls : Will(d)
      <4>1. PICK d \in calls : Will(d)
        BY <3>1
      <4>2. d \in calls' /\ Will(d)'
        BY <1>1, <1>2, <4>1 DEF Will, Loads, Reads
      <4> QED
        BY <4>2 DEF WillShow
    <3>2. CASE ~ \E d \in calls : Will(d)
      <4>1. \A d \in calls : d.op \in Reads => Good(d) \/ \E e \in calls : e.op \in Reads /\ e.n > d.n
        BY <2>0, <3>2 DEF Coming, WillShow
      <4>2. PICK b \in Nat : \A d \in calls : d.n \in 0..b
        BY DEF RowsInv, Rest, Bounded
      <4>3. ASSUME NEW d \in calls', d.op \in Reads
            PROVE  Good(d)' \/ \E e \in calls' : e.op \in Reads /\ e.n > d.n
        <5>0. d.n >= c.n /\ d \in calls /\ ~view'.notReady
          BY <1>1, <1>2, <1>6, <4>3
        <5>1. CASE Good(d)
          BY <1>2, <2>3, <5>0, <5>1, StillGood
        <5>2. CASE \E e \in calls : e.op \in Reads /\ e.n > d.n
          <6>1. PICK e \in calls : e.op \in Reads /\ e.n > d.n
            BY <5>2
          <6>2. e # c
            BY <4>2, <5>0, <6>1
          <6> QED
            BY <1>1, <6>1, <6>2
        <5> QED
          BY <4>1, <4>3, <5>0, <5>1, <5>2
      <4>4. ASSUME \A d \in calls' : d.op \notin Reads
            PROVE  Current'
        <5>1. Good(c)
          <6> SUFFICES ASSUME NEW e \in calls, e.op \in Reads, e.n > c.n
                       PROVE  FALSE
            BY <1>1, <4>1
          <6>1. e = c
            BY <1>1, <4>4
          <6> QED
            BY <4>2, <6>1
        <5>2. Brings(c.q, view.q) /\ c.ans = Answer(c.q)
          BY <2>1, <5>1 DEF Good
        <5>3. Agrees(c.q, view'.q) /\ IsQuery(view'.q)
          <6>1. CASE page \in {"scrutins", "users"}
            <7>1. view'.q = [view.q EXCEPT !.page = c.q.page] /\ IsQuery(view.q)
              BY <1>0, <2>2, <6>1 DEF Pager, IsView
            <7>2. Criteria(view'.q) = Criteria(view.q) /\ view'.q.page = c.q.page /\ IsQuery(view'.q)
              BY <7>1, SameCriteria, QueriesOf
            <7>3. Criteria(c.q) = Criteria(view.q)
              BY <5>2 DEF Brings, Agrees
            <7> QED
              BY <7>2, <7>3 DEF Agrees
          <6>2. CASE page \notin {"scrutins", "users"}
            BY <1>0, <2>2, <5>2, <6>2 DEF Pager, Brings, IsView
          <6> QED
            BY <6>1, <6>2
        <5>4. view'.q.tab = c.q.tab
          BY <1>0, <5>3, SameTab DEF Agrees
        <5>5. view'.of = [view.of EXCEPT ![c.q.tab] = c.q]
              /\ view'.rows = [view.rows EXCEPT ![c.q.tab] = c.ans.rows]
          <6>1. page = "resultats" => ~view.notReady
            BY <5>1 DEF Good
          <6>2. page = "resultats" /\ c.op = "load" => c.ans.rows = <<>>
            BY <1>1, <2>1, <5>2, OpenHasNone DEF GoesOn
          <6> QED
            BY <1>0, <1>1, <2>1, <6>1, <6>2, AnswerShown DEF Showing
        <5>6. /\ view'.of[view'.q.tab] = c.q
              /\ view'.rows[view'.q.tab] = c.ans.rows
          BY <1>0, <5>4, <5>5 DEF IsView, IsQuery
        <5>7. PICK o : o = c.q
          OBVIOUS
        <5>8. Answer(o)' = Answer(o)
          BY <1>2, SameAnswer
        <5>9. Agrees(o, view.q)'
          BY <1>2, <5>3, <5>7, SameBrings
        <5>10. Shown(view)' = ToSet(Answer(o).rows)
          BY <5>2, <5>6, <5>7 DEF Shown, ToSet
        <5> QED
          BY <1>2, <5>6, <5>7, <5>8, <5>9, <5>10 DEF Current
      <4> QED
        BY <4>3, <4>4 DEF WillShow
    <3> QED
      BY <3>1, <3>2
  <2> QED
    BY <2>4, <2>5, <2>6, <2>7 DEF Coming
<1> QED
  BY <1>4, <1>5, <1>6 DEF Rest

(* A job is done: its import was awaited.                                  *)
LEMMA WorkRest ==
  ASSUME RowsInv, NEW j \in jobs, Work(j)
  PROVE  Rest'
<1>1. PICK s \in {"completed", "failed"} :
         /\ jobs' = (jobs \ {j}) \cup {[j EXCEPT !.state = s]}
         /\ s = "failed" => server' = server
         /\ calm' = (calm /\ (server' = server \/ \E c \in calls : Awaits(c, j)))
  BY DEF Work
<1>2. PICK k : k = [j EXCEPT !.state = s] /\ jobs' = (jobs \ {j}) \cup {k}
  BY <1>1
<1>3. j.state = "running" /\ UNCHANGED <<page, view, calls>>
  BY DEF Work
<1>4. Queued
  BY DEF RowsInv, Rest
<1>5. /\ DOMAIN k = {"id", "op", "group", "state"} /\ k.id = j.id /\ k.op = j.op /\ k.state = s
  BY <1>2, <1>4 DEF Queued
<1>6. IsFiniteSet(jobs') /\ Cardinality(jobs') = Cardinality(jobs)
  <2> DEFINE rest == jobs \ {j}
             n == Cardinality(jobs)
  <2>1. IsFiniteSet(jobs) /\ n \in Nat
    BY <1>4, FS_CardinalityType DEF Queued
  <2>2. IsFiniteSet(rest) /\ Cardinality(rest) = n - 1
    BY <2>1, FS_RemoveElement
  <2>3. k \notin rest
    BY <1>4, <1>5 DEF Queued
  <2> HIDE DEF n, rest
  <2>4. jobs' = rest \cup {k}
    BY <1>2 DEF rest
  <2>5. IsFiniteSet(jobs') /\ Cardinality(jobs') = (n - 1) + 1
    BY <2>2, <2>3, <2>4, FS_AddElement
  <2>6. (n - 1) + 1 = n
    BY <2>1
  <2> QED
    BY <2>5, <2>6 DEF n
<1>7. Queued'
  <2>1. \A h \in jobs' : h = k \/ (h \in jobs /\ h # j)
    BY <1>2
  <2>2. \A h \in jobs' : /\ DOMAIN h = {"id", "op", "group", "state"}
                         /\ h.id \in 1..Cardinality(jobs)
                         /\ h.state \in {"running", "completed", "failed"}
                         /\ page = "candidats" => h.op = "import"
    BY <1>4, <1>5, <2>1 DEF Queued
  <2>3. \A h, i \in jobs' : h.id = i.id => h = i
    BY <1>4, <1>5, <2>1 DEF Queued
  <2> QED
    BY <1>3, <1>6, <2>2, <2>3 DEF Queued
<1>8. Bounded' /\ Settled'
  BY <1>3 DEF RowsInv, Rest, Bounded, Settled
<1>9. \A c \in calls' : Served(c)'
  <2> SUFFICES ASSUME NEW c \in calls
               PROVE  Served(c)'
    BY <1>3
  <2>1. Served(c)
    BY DEF RowsInv, Rest
  <2>2. Told(c) => Told(c)'
    <3>1. ASSUME Told(c)
          PROVE  \E h \in jobs' : h.id = c.job /\ (c.done # "running" => h.state = c.done)
      <4>1. PICK h \in jobs : h.id = c.job /\ (c.done # "running" => h.state = c.done)
        BY <3>1 DEF Told
      <4>2. CASE h = j
        BY <1>2, <1>3, <1>5, <4>1, <4>2
      <4>3. CASE h # j
        BY <1>2, <4>1, <4>3
      <4> QED
        BY <4>2, <4>3
    <3> QED
      BY <3>1 DEF Told
  <2> QED
    BY <1>3, <2>1, <2>2 DEF Served, IsQuery
<1>10. ASSUME calm'
       PROVE  Coming'
  <2>0. Coming
    BY <1>1, <1>10 DEF RowsInv, Rest
  <2>1. Reloads'
    BY <1>3, <2>0, SameBrings DEF Coming, Reloads
  <2>2. Owned'
    <3> SUFFICES ASSUME NEW h \in jobs', h.op = "import", h.state = "running"
                 PROVE  \E c \in calls : Owner(c, h)
      BY <1>3 DEF Owned, Owner
    <3>1. h \in jobs
      BY <1>2, <1>5
    <3> QED
      BY <2>0, <3>1 DEF Coming, Owned
  <2>3. WillShow'
    <3>1. CASE server' # server
      <4>1. PICK c \in calls : Awaits(c, j)
        BY <1>1, <1>10, <3>1
      <4>2. s = "completed"
        BY <1>1, <3>1
      <4>3. CASE c.op = "import"
        <5>1. j.op = "import"
          BY <1>4, <4>3 DEF RowsInv, Rest, Served, Queued
        <5>2. PICK f \in calls : Owner(f, j)
          BY <1>3, <2>0, <5>1 DEF Coming, Owned
        <5>3. Will(f)'
          BY <1>2, <1>5, <4>2, <5>2 DEF Will, Owner
        <5> QED
          BY <1>3, <5>3 DEF WillShow
      <4>4. CASE c.op \in {"poll", "calculate", "timer"} /\ c.job = j.id
        <5>1. Will(c)'
          BY <1>2, <1>5, <4>2, <4>4 DEF Will
        <5> QED
          BY <1>3, <5>1 DEF WillShow
      <4> QED
        BY <4>1, <4>3, <4>4 DEF Awaits
    <3>2. CASE server' = server /\ \E c \in calls : Will(c)
      <4>1. PICK c \in calls : Will(c)
        BY <3>2
      <4>2. Will(c)'
        BY <1>2, <1>3, <4>1 DEF Will
      <4> QED
        BY <1>3, <4>2 DEF WillShow
    <3>3. CASE server' = server /\ ~ \E c \in calls : Will(c)
      <4>1. /\ \A d \in calls : d.op \in Reads => Good(d) \/ \E e \in calls : e.op \in Reads /\ e.n > d.n
            /\ (\A d \in calls : d.op \notin Reads) => Current
        BY <2>0, <3>3 DEF Coming, WillShow
      <4>2. \A d : Good(d) => Good(d)'
        BY <1>3, <3>3, StillGood
      <4>3. Current => Current'
        BY <1>3, <3>3, SameCurrent
      <4> QED
        BY <1>3, <4>1, <4>2, <4>3 DEF WillShow
    <3> QED
      BY <3>1, <3>2, <3>3
  <2> QED
    BY <1>3, <2>0, <2>1, <2>2, <2>3 DEF Coming
<1> QED
  BY <1>7, <1>8, <1>9, <1>10 DEF Rest

-----------------------------------------------------------------------------
(* A page starts with its load, or its elections, on its way.              *)
LEMMA InitRest ==
  ASSUME Init
  PROVE  Rest
<1>1. Blank(view)
  BY InitView
<1>2. IsView(view) /\ IsQuery(view.q)
  BY <1>1 DEF Blank, IsView
<1>3. Queued
  BY FS_EmptySet DEF Init, Queued
<1>4. page \in Boxless => view.typed = view.debounced
  BY <1>1 DEF Blank
<1>5. Owned
  BY DEF Init, Owned
<1>6. CASE page \in Chosen
  <2>1. PICK c : c = Call(1, "elections", view.q) /\ calls = {c}
    <3>1. calls = {Call(1, "elections", view.q)}
      BY <1>6 DEF Init, Chosen
    <3> QED
      BY <3>1
  <2>2. c.n = 1 /\ c.op = "elections" /\ c.status = "sent"
    BY <2>1 DEF Call
  <2>3. Bounded
    BY <2>1, <2>2 DEF Bounded
  <2>4. Settled
    BY <1>1, <1>4, <2>1 DEF Settled, Blank
  <2>5. \A d \in calls : Served(d)
    BY <2>1, <2>2 DEF Served, Loads, Reads
  <2>6. Coming
    BY <1>5, <2>1, <2>2 DEF Coming, Reloads, WillShow, Will, Loads, Reads
  <2> QED
    BY <1>3, <2>3, <2>4, <2>5, <2>6 DEF Rest
<1>7. CASE page \notin Chosen
  <2>1. PICK asks : /\ asks = <<view.q>> \/ asks = <<view.q, view.q>>
                    /\ calls = Sent({}, asks)
    BY <1>7 DEF Init, UsersMount, Chosen
  <2>2. IsAsks(asks) /\ asks # <<>>
    BY <1>2, <2>1 DEF IsAsks
  <2>3. Final(asks) = view.q
    BY <2>1, FinalOf, Zenon
  <2>4. Bounded
    BY <2>1, <2>2, SentLast DEF Bounded
  <2>5. \A d \in calls : d.op = "load" /\ d.status = "sent"
    BY <2>1, <2>2, SentLast
  <2>6. PICK e \in calls : e.q = view.q /\ \A d \in calls : d = e \/ d.n < e.n
    BY <2>1, <2>2, <2>3, SentLast
  <2>7. Settled
    BY <1>4, <2>5 DEF Settled
  <2>8. \A d \in calls : Served(d)
    BY <2>5 DEF Served, Loads, Reads
  <2>9. Good(e)
    BY <1>7, <2>5, <2>6, AgreeOn DEF Good, Chosen
  <2>10. WillShow
    <3>1. ASSUME NEW d \in calls, d # e
          PROVE  \E f \in calls : f.op \in Reads /\ f.n > d.n
      <4>1. d.n < e.n
        BY <2>6, <3>1
      <4>2. d.n \in Nat /\ e.n \in Nat
        BY <2>4 DEF Bounded
      <4>3. e.n > d.n
        BY <4>1, <4>2
      <4> QED
        BY <2>5, <4>3 DEF Reads
    <3> QED
      BY <2>5, <2>9, <3>1 DEF WillShow, Reads
  <2>11. Coming
    BY <1>5, <2>5, <2>10 DEF Coming, Reloads, Loads, Reads
  <2> QED
    BY <1>3, <2>4, <2>7, <2>8, <2>11 DEF Rest
<1> QED
  BY <1>6, <1>7

(* Every step keeps the invariant.                                         *)
LEMMA RestStep ==
  ASSUME RowsInv, [Next]_vars
  PROVE  RowsInv'
<1>1. Inv'
  BY RowsStep DEF RowsInv
<1>2. CASE UNCHANGED vars
  <2> USE <1>2 DEF vars
  <2>1. Bounded' /\ Queued' /\ Settled'
    BY DEF RowsInv, Rest, Bounded, Queued, Settled
  <2>2. \A c \in calls' : Served(c)'
    BY DEF RowsInv, Rest, Served, Told, IsQuery
  <2>3. ASSUME calm'
        PROVE  Coming'
    <3>0. Coming
      BY <2>3 DEF RowsInv, Rest
    <3>1. Reloads'
      BY <3>0, SameBrings DEF Coming, Reloads
    <3>2. Owned'
      BY <3>0 DEF Coming, Owned, Owner
    <3>3. \A d : Good(d) => Good(d)'
      BY StillGood
    <3>4. \A d : Will(d) => Will(d)'
      BY DEF Will
    <3>5. Current => Current'
      BY SameCurrent
    <3>6. WillShow'
      BY <3>0, <3>3, <3>4, <3>5 DEF Coming, WillShow
    <3> QED
      BY <3>0, <3>1, <3>2, <3>6 DEF Coming
  <2> QED
    BY <1>1, <2>1, <2>2, <2>3 DEF RowsInv, Rest
<1>3. CASE Turn
  BY <1>1, <1>3, TurnRest DEF RowsInv
<1>4. CASE Debounce
  BY <1>1, <1>4, DebounceRest DEF RowsInv
<1>5. CASE Act
  BY <1>1, <1>5, ActRest DEF RowsInv
<1>6. ASSUME NEW j \in jobs, Work(j)
      PROVE  RowsInv'
  BY <1>1, <1>6, WorkRest DEF RowsInv
<1>7. ASSUME NEW c \in calls, ServeRows(c) \/ ServeAction(c) \/ ServePoll(c) \/ Lose(c)
      PROVE  RowsInv'
  BY <1>1, <1>7, ServeRowsRest, ServeActionRest, ServePollRest, LoseRest DEF RowsInv
<1>8. ASSUME NEW c \in calls, HearDetail(c) \/ HearRows(c) \/ HearElections(c) \/ HearAction(c)
      PROVE  RowsInv'
  BY <1>1, <1>8, HearDetailRest, HearRowsRest, HearElectionsRest, HearActionRest DEF RowsInv
<1>9. ASSUME NEW c \in calls, HearError(c) \/ HearPoll(c) \/ Fire(c)
      PROVE  RowsInv'
  BY <1>1, <1>9, HearErrorRest, HearPollRest, FireRest DEF RowsInv
<1> QED
  BY <1>2, <1>3, <1>4, <1>5, <1>6, <1>7, <1>8, <1>9 DEF Next

(* RowsAreCurrent: once nothing is in flight, the list is what the server  *)
(* has for the criteria the controls show, whatever the order of the moves *)
(* of the user and of the server, as long as the answers came in order,    *)
(* none was lost, no control was touched while an action was in flight and *)
(* no job ended unseen.                                                    *)
THEOREM RowsAreRight == Spec => []RowsAreCurrent
<1>1. Init => RowsInv
  <2>1. Init => Inv
    BY InitList, InitRows DEF Inv
  <2> QED
    BY <2>1, InitRest DEF RowsInv
<1>2. RowsInv /\ [Next]_vars => RowsInv'
  BY RestStep
<1>3. RowsInv => RowsAreCurrent
  <2> SUFFICES ASSUME RowsInv, Quiet, calm
               PROVE  LET o == view.of[view.q.tab]
                      IN  /\ Criteria(o) = Criteria(view.q)
                          /\ Shown(view) = ToSet(Answer(o).rows)
                          /\ \/ o.page = view.q.page
                             \/ page \in {"candidats", "electeurs"}
                             \/ page = "scrutins" /\ view.q.page = 1
    BY DEF RowsAreCurrent
  <2>1. calls = {} /\ WillShow
    BY DEF Quiet, RowsInv, Rest, Coming
  <2>2. Current
    BY <2>1 DEF WillShow
  <2> QED
    BY <2>2 DEF Current, Agrees, Loose
<1> QED
  BY <1>1, <1>2, <1>3, PTL DEF Spec
===============================================================================
