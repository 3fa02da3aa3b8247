------------------------------ MODULE ListView ------------------------------
(***************************************************************************)
(* What the list pages of the web client have in common: the query their   *)
(* controls stand for, what they show, and the three ways in which a       *)
(* change of the controls asks the server for rows.  Operators only: the   *)
(* pages are in OrgLists and AdminLists, the tab in ListPage.              *)
(***************************************************************************)
EXTENDS Integers, Sequences, FiniteSets

CONSTANTS Filter,   \* the statuses tried in the selects
          Text      \* what is typed in a search box, and finds one row

(* A query: search is useDebounce'd text, status and group are selects (of *)
(* a status, of an election), tab the tab of a page that has two.          *)
Asking(tab, group) == [tab |-> tab, search |-> "", status |-> "all", group |-> group, page |-> 1]
Criteria(q) == [q EXCEPT !.page = 1]
Tab == {"main", "applications"}

(* What a page shows.  rows: the last list kept of each tab, answers of    *)
(* the queries of; last, at, total: the meta of the last answer; busy: the *)
(* buttons disabled by a call; typed, debounced: the search box of a page  *)
(* that reads both; detail: the status of the election whose results show; *)
(* failed: the last answer was an error (a toast, which leaves no trace);  *)
(* notReady: Resultats says so in the place of the rows.                   *)
FreshView(q, loading) ==
    [q |-> q, rows |-> [t \in Tab |-> <<>>], of |-> [t \in Tab |-> q], last |-> 1, at |-> 1,
     total |-> 0, loading |-> loading, selected |-> {}, busy |-> {}, typed |-> "",
     debounced |-> "", detail |-> "none", failed |-> FALSE, notReady |-> FALSE]

Shown(v) == {v.rows[v.q.tab][i] : i \in DOMAIN v.rows[v.q.tab]}

-----------------------------------------------------------------------------
(* A change of the controls: the view it leaves, the queries it sends.     *)
Change(v, asks) == [view |-> [v EXCEPT !.loading = @ \/ asks # <<>>], asks |-> asks]

(* One effect on the criteria (page 1, and a load of it), one on the page, *)
(* which does nothing on page 1: new criteria on page 2 load twice, page 1 *)
(* and then page 2; going back to page 1 loads nothing.                    *)
Dual(v, w) ==
    CASE Criteria(w.q) # Criteria(v.q) ->
           Change([w EXCEPT !.q.page = 1],
                  <<Criteria(w.q)>> \o (IF w.q.page = 1 THEN <<>> ELSE <<w.q>>))
      [] Criteria(w.q) = Criteria(v.q) /\ w.q.page \notin {v.q.page, 1} -> Change(w, <<w.q>>)
      [] OTHER -> Change(w, <<>>)

(* One effect loads whenever the query changes, another puts page 1 when   *)
(* the criteria do: the old page is asked first.                           *)
Effects(v, w) ==
    CASE Criteria(w.q) # Criteria(v.q) ->
           Change([w EXCEPT !.q.page = 1],
                  <<w.q>> \o (IF w.q.page = 1 THEN <<>> ELSE <<Criteria(w.q)>>))
      [] Criteria(w.q) = Criteria(v.q) /\ w.q.page # v.q.page -> Change(w, <<w.q>>)
      [] OTHER -> Change(w, <<>>)

(* The setter puts page 1 in the same render: one load.                    *)
Batched(v, w) ==
    IF w.q # v.q THEN Change(w, <<w.q>>) ELSE Change(w, <<>>)

(* Only the criteria are watched: a page is loaded by the handler.         *)
Given(v, w) ==
    IF Criteria(w.q) # Criteria(v.q) THEN Change(w, <<Criteria(w.q)>>) ELSE Change(w, <<>>)

GoTo(v, p) == Change(v, <<[v.q EXCEPT !.page = p]>>)

-----------------------------------------------------------------------------
(* The answer of a load: c.ans is what the server listed for c.q.          *)
Show(v, c) ==
    [v EXCEPT !.rows[c.q.tab] = c.ans.rows, !.of[c.q.tab] = c.q, !.last = c.ans.last,
              !.at = c.ans.at, !.total = c.ans.total, !.loading = FALSE, !.failed = FALSE]

(* Or the error it ends with: the rows kept, cleared, or an EMPTY_PAGE.    *)
Kept(v)     == [v EXCEPT !.loading = FALSE, !.failed = TRUE]
Cleared(v, c) == [Kept(v) EXCEPT !.rows[c.q.tab] = <<>>]
Emptied(v, c) == [Cleared(v, c) EXCEPT !.last = 1, !.at = 1, !.total = 0]

-----------------------------------------------------------------------------
(* What the controls can leave: a select, the text typed (which becomes    *)
(* the search of the query when useDebounce lets it), a page.              *)
Selects(v, statuses) == {[v EXCEPT !.q.status = s] : s \in (statuses \cap Filter) \cup {"all"}}
Elections(v, groups) == {[v EXCEPT !.q.group = g] : g \in groups \cup {"all"}}
Types(v)             == {[v EXCEPT !.typed = s] : s \in Text \cup {""}}
Debounced(v)         == [v EXCEPT !.debounced = v.typed, !.q.search = v.typed]
Paged(v, p)          == [v EXCEPT !.q.page = p]
FirstPage(ws)        == {Paged(w, 1) : w \in ws}
Reset(v)             == [v EXCEPT !.q.status = "all", !.q.group = "all", !.q.page = 1, !.typed = ""]

PrevNext(v, prev, next) ==
    (IF prev THEN {Paged(v, v.q.page - 1)} ELSE {}) \cup (IF next THEN {Paged(v, v.q.page + 1)} ELSE {})

(* Previous and Next, clamped to the pages of the last answer.             *)
Clamped(v) == PrevNext(v, v.q.page > 1, v.q.page < v.last)

(* Previous and Next of pages that only compare with the bounds.           *)
ByPage(v)  == PrevNext(v, v.q.page # 1, v.q.page # v.last)
ByMeta(v)  == PrevNext(v, v.at # 1, v.at # v.last)

(* A call a row or the page offers: op on the rows ids, the query then     *)
(* loaded when it has succeeded, the button it keeps busy.                 *)
Free == <<"none", 0>>
Do(op, ids, then, mark) == [op |-> op, ids |-> ids, then |-> then, mark |-> mark]

(* A mutant: the list is not reloaded once the action succeeded.           *)
On_NoReload(op, r, v) == Do(op, {r.id}, <<>>, Free)

On(op, r, v) == Do(op, {r.id}, <<v.q>>, Free)
=============================================================================
